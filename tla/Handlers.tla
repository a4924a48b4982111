------------------------------ MODULE Handlers ------------------------------
(***************************************************************************)
(* The handlers of the library side by side.  Each works on a connection   *)
(* of its own and shares nothing with the others but the server task that  *)
(* calls it, so a behaviour is one of a single handler: `part' says which, *)
(* and the variables of the others are left at a value nobody reads.  The  *)
(* properties join those of the modules that promise the same thing.       *)
(***************************************************************************)
EXTENDS Template, MultiResponse, Files, WsFrames, Text, CaptDns, Routes

CONSTANT Parts  \* the handlers that are explored

VARIABLE part   \* the handler of this behaviour

handlerVars == <<part, tplVars, mrVars, fileVars, wsVars, textVars, dnsVars, routeVars>>

AllParts == {"template", "response", "files", "frames", "text", "dns", "routes"}

ASSUME HandlersAssumption == Parts \subseteq AllParts

NoTemplate ==
  /\ tfs = "" /\ ttext = <<>> /\ tpd = NoTpl /\ tphase = "" /\ tout = <<>> /\ tlost = {} /\ tmost = 0
  /\ theld = <<>> /\ tnull = 0 /\ tmores = 0

NoResponse ==
  /\ mform = "" /\ mlen = 0 /\ mstate = NoPiece /\ mphase = "" /\ msent = <<>>
  /\ mheld = <<>> /\ mrefused = 0

NoFiles ==
  disk = <<>> /\ freq = <<>> /\ fheld = <<>> /\ fcount = 0 /\ fans = NoAnswer /\ fputs = <<>>

NoFrames ==
  wstream = <<>> /\ wat = 0 /\ wend = 0 /\ wfr = NoFrame /\ wout = <<>> /\ wopen = 0

NoText == xcall = <<>> /\ xresult = NoResult

NoRoutes == rtable = <<>> /\ rreq = <<>> /\ rat = 0 /\ ranswer = Unanswered

Init ==
  /\ part \in Parts
  /\ IF part = "template" THEN TplInit ELSE NoTemplate
  /\ IF part = "response" THEN MultiInit ELSE NoResponse
  /\ IF part = "files" THEN FilesInit ELSE NoFiles
  /\ IF part = "frames" THEN WsInit ELSE NoFrames
  /\ IF part = "text" THEN TextInit ELSE NoText
  /\ DnsInit
  /\ IF part = "routes" THEN RoutesInit ELSE NoRoutes

Next ==
  /\ UNCHANGED part
  /\ \/ part = "template" /\ TplNext
        /\ UNCHANGED <<mrVars, fileVars, wsVars, textVars, dnsVars, routeVars>>
     \/ part = "response" /\ MultiNext
        /\ UNCHANGED <<tplVars, fileVars, wsVars, textVars, dnsVars, routeVars>>
     \/ part = "files" /\ FilesNext
        /\ UNCHANGED <<tplVars, mrVars, wsVars, textVars, dnsVars, routeVars>>
     \/ part = "frames" /\ WsNext
        /\ UNCHANGED <<tplVars, mrVars, fileVars, textVars, dnsVars, routeVars>>
     \/ part = "text" /\ TextNext
        /\ UNCHANGED <<tplVars, mrVars, fileVars, wsVars, dnsVars, routeVars>>
     \/ part = "dns" /\ DnsNext
        /\ UNCHANGED <<tplVars, mrVars, fileVars, wsVars, textVars, routeVars>>
     \/ part = "routes" /\ RoutesNext
        /\ UNCHANGED <<tplVars, mrVars, fileVars, wsVars, textVars, dnsVars>>

Spec == Init /\ [][Next]_handlerVars

(***************************************************************************)
(* Properties                                                              *)
(***************************************************************************)

\* Every variable of the handler that works has its type.
HandlersTypeOK ==
  /\ part = "template" => TplTypeOK
  /\ part = "response" => MultiTypeOK
  /\ part = "files" => FilesTypeOK
  /\ part = "frames" => WsTypeOK
  /\ part = "text" => TextTypeOK
  /\ part = "dns" => DnsTypeOK
  /\ part = "routes" => RoutesTypeOK

\* What goes out over several calls is what was to be sent, whole, in order and
\* once, wherever the buffers, pieces and segments are cut: an expanded
\* template, a long response, a file, the data of a websocket.
OutputExact ==
  /\ part = "template" => ExpandsAsRead
  /\ part = "response" => SentInOrder
  /\ part = "files" => ServedWhole
  /\ part = "frames" => FramesExact /\ HeadsExact

\* However a request ends, done, refused or broken off at any call, its handler
\* has given back memory and files, once, and told the application; what stays
\* allocated is what the single-call JSON answers keep, and no more.
NothingHeld ==
  /\ part = "template" => TplReleased
  /\ part = "response" => StringFreed
  /\ part = "files" => FilesReleased

\* An upload that answers success has stored its body, but for what fclose failed
\* to write out.
UploadStored == part = "files" => SuccessIsStored

\* What the request says is understood: its text is decoded, within its buffer,
\* its name queries are answered as asked, and the first route that wants it,
\* and no other, gets it, with the path that it names.
InputExact ==
  /\ part = "text" => UrlDecoded /\ ArgFound /\ HeaderJoined /\ Escaped /\ RoundTrip
  /\ part = "dns" => ReplyExact
  /\ part = "routes" => FirstRouteAnswers /\ PathBelowBase
=============================================================================
