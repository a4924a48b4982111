------------------------------- MODULE Routes -------------------------------
(***************************************************************************)
(* Who answers a request: httpdProcessRequest (src/core/httpd.c) goes      *)
(* through the URL table and calls the handler of each route that matches  *)
(* until one does not pass the request on.  The handlers here are those    *)
(* that may pass it on: authBasic (src/core/auth.c), the redirects         *)
(* (src/util/cgiredirect.c), and the file handlers, which map the URL to a *)
(* path with getFilepath (src/core/httpd-espfs.c and                       *)
(* src/util/esp32_httpd_vfs.c).  What a handler does after the first call  *)
(* is in the other modules.                                                *)
(***************************************************************************)
EXTENDS Base64, FiniteSets

CONSTANTS Patterns,  \* the url fields of the table: sequences of characters
          Urls,      \* the paths that are asked for
          MaxRoutes, \* bound: entries of the table
          RegularFiles, \* paths of regular files; all others are directories
          UserPw,    \* the users and passwords of the application, in bytes
          AuthHeaders, \* the Authorization headers that are sent
          AUTH_MAX_USER_LEN, AUTH_MAX_PASS_LEN  \* sizes, with the terminator

Strings(size) == { s \in Seq(1 .. 255) : Len(s) < size }

\* "bare" is the header Basic with nothing behind it; code is what stands behind
\* it and a space.
Authorizations == [scheme : {"none", "other", "bare", "Basic"}, code : Seq(0 .. Bad)]

ASSUME RoutesAssumption ==
  /\ MaxRoutes \in Nat
  /\ Patterns \subseteq Seq(STRING) \ {<<>>} /\ Urls \subseteq Seq(STRING) \ {<<>>}
  /\ AuthHeaders \subseteq Authorizations
  /\ AUTH_MAX_USER_LEN \in Nat /\ AUTH_MAX_PASS_LEN \in Nat
  /\ UserPw \in Seq(Strings(AUTH_MAX_USER_LEN) \X Strings(AUTH_MAX_PASS_LEN))

VARIABLES rtable,   \* builtInUrls
          rreq,     \* the request
          rat,      \* i
          ranswer   \* who answered, and the path a file handler looked for

routeVars == <<rtable, rreq, rat, ranswer>>

Base == <<"d">>      \* a base path without its slash

\* base: "" is none (NULL), "plain" is in cgiArg, "ex" in a HttpdCgiExArg.
Entries ==
  [url : Patterns, cgi : {"auth", "redirect", "tohost", "apclient"}, base : {""}]
  \cup [url : Patterns, cgi : {"file"}, base : {"", "plain", "ex"}]

Tables == UNION { [1 .. n -> Entries] : n \in 0 .. MaxRoutes }

\* host: of the Host header; auth: the Authorization header.
Request(url, host, auth, exists, memory) ==
  [url |-> url, host |-> host, auth |-> auth, exists |-> exists, memory |-> memory]

NoAuth == [scheme |-> "none", code |-> <<>>]

RequestSet ==
  { Request(u, h, NoAuth, 1, m) : u \in Urls, h \in {"NULL", "ip", "same", "other"}, m \in 0 .. 1 }
  \cup { Request(u, "other", g, e, 1) : u \in Urls, g \in AuthHeaders, e \in 0 .. 1 }

Unanswered == [by |-> 0, what |-> "nothing", path |-> <<>>]

(***************************************************************************)
(* The table                                                               *)
(***************************************************************************)

\* Mutant: what stands before the * is compared one character short.
MatchesLoosely(route, url) ==
  \/ route = url
  \/ Last(route) = "*" /\ IsPrefix(SubSeq(route, 1, Len(route) - 2), url)

Matches(route, url) ==
  \/ route = url
  \/ Last(route) = "*" /\ IsPrefix(Front(route), url)

(***************************************************************************)
(* The handlers: "notfound" or "authenticated" passes the request on       *)
(***************************************************************************)

Colon == 58
userpassSize == AUTH_MAX_USER_LEN + AUTH_MAX_PASS_LEN + 2

\* The string that bytes begin with.
Terminated(bytes) == SubSeq(bytes, 1, Cardinality({ k \in DOMAIN bytes : \A j \in 1 .. k : bytes[j] # 0 }))

\* The header is cut to the size of hdr, ten times that of userpass.
Decoded(auth) ==
  LET fits == 10 * userpassSize - 7
      kept == IF Len(auth.code) <= fits THEN auth.code ELSE SubSeq(auth.code, 1, fits)
  IN libesphttpd_base64_decode(kept, userpassSize).out

\* An error of the decoder leaves an empty string.
Userpass(auth) == Terminated(Decoded(auth))

\* The user and the password are compared apart, at the place of the colon.
Authenticated(userpass) ==
  \E no \in DOMAIN UserPw :
    LET user == UserPw[no][1] pass == UserPw[no][2] IN
    /\ Len(userpass) = Len(user) + Len(pass) + 1
    /\ IsPrefix(user, userpass) /\ userpass[Len(user) + 1] = Colon
    /\ SubSeq(userpass, Len(user) + 2, Len(userpass)) = pass

\* The outcomes.  For the header Basic alone strlen(hdr) - 6 is a huge size_t, and
\* what lies behind the header's end is decoded.  When userpass gets full, its
\* terminator is written behind it.
authBasic(req) ==
  CASE req.auth.scheme \in {"none", "other"} -> {"401"}
    [] req.auth.scheme = "bare" -> {"401", "authenticated", "crash"}
    [] req.auth.scheme = "Basic" ->
         {IF Authenticated(Userpass(req.auth)) THEN "authenticated" ELSE "401"}
         \cup (IF Len(Decoded(req.auth)) = userpassSize THEN {"crash"} ELSE {})

cgiRedirect == "302"

\* With FreeRTOS, as on Linux, nobody is redirected.
cgiRedirectApClientToHostname == "notfound"

\* A host that looks like an address is let through, for it may be ours.
cgiRedirectToHostname(req) ==
  IF req.host \in {"NULL", "ip", "same"} THEN "notfound"
  ELSE IF req.memory = 0 THEN "nothing" ELSE "302"

(***************************************************************************)
(* getFilepath                                                             *)
(***************************************************************************)

\* The URL without what it has in common with the route.
Rest(route, url) ==
  LET common == { k \in 0 .. Len(url) : k <= Len(route) /\ SubSeq(route, 1, k) = SubSeq(url, 1, k) }
      k == CHOOSE c \in common : \A d \in common : d <= c
  IN SubSeq(url, k + 1, Len(url))

\* The vfs form, where Base is a directory; a base path in a HttpdCgiExArg gets
\* the slash that it lacks, one in cgiArg does not.
getFilepath(route, url) ==
  CASE route.base = "" -> url
    [] route.base = "plain" -> IF Base \in RegularFiles THEN Base ELSE Base \o url
    [] route.base = "ex" ->
         LET rest == Rest(route.url, url)
             name == IF rest # <<>> /\ rest[1] = "/" THEN Tail(rest) ELSE rest
         IN IF Base \in RegularFiles THEN Base ELSE Base \o <<"/">> \o name

FileHandler(req) == IF req.exists = 1 THEN "file" ELSE "notfound"

Calls1(route, req) ==
  CASE route.cgi = "auth" -> authBasic(req)
    [] route.cgi = "redirect" -> {cgiRedirect}
    [] route.cgi = "tohost" -> {cgiRedirectToHostname(req)}
    [] route.cgi = "apclient" -> {cgiRedirectApClientToHostname}
    [] route.cgi = "file" -> {FileHandler(req)}

PassesOn(what) == what \in {"notfound", "authenticated"}

\* One turn: the next entry is looked at, and its handler called if it matches.
Lookup ==
  /\ ranswer = Unanswered /\ rat <= Len(rtable)
  /\ LET route == rtable[rat]
     IN \E what \in IF Matches(route.url, rreq.url) THEN Calls1(route, rreq) ELSE {"notfound"} :
        IF PassesOn(what) THEN rat' = rat + 1 /\ UNCHANGED ranswer
        ELSE /\ ranswer' = [by |-> rat, what |-> what,
                            path |-> IF what = "file" THEN getFilepath(route, rreq.url) ELSE <<>>]
             /\ UNCHANGED rat
  /\ UNCHANGED <<rtable, rreq>>

\* The end of the table: cgiNotFound.
LookupEnds ==
  /\ ranswer = Unanswered /\ rat = Len(rtable) + 1
  /\ ranswer' = [by |-> rat, what |-> "404", path |-> <<>>]
  /\ UNCHANGED <<rtable, rreq, rat>>

RoutesInit == rtable \in Tables /\ rreq \in RequestSet /\ rat = 1 /\ ranswer = Unanswered
RoutesNext == Lookup \/ LookupEnds
RoutesSpec == RoutesInit /\ [][RoutesNext]_routeVars

(***************************************************************************)
(* Properties                                                              *)
(***************************************************************************)

RoutesTypeOK ==
  /\ rtable \in Tables /\ rreq \in RequestSet
  /\ rat \in 1 .. Len(rtable) + 1 /\ ranswer.by \in 0 .. Len(rtable) + 1
  /\ ranswer.what \in {"nothing", "401", "302", "404", "file", "crash"}

\* A route takes the URLs that its pattern stands for.
Takes(i) ==
  LET u == rtable[i].url IN
  \/ u = rreq.url
  \/ /\ u[Len(u)] = "*" /\ Len(rreq.url) >= Len(u) - 1
     /\ \A k \in 1 .. Len(u) - 1 : u[k] = rreq.url[k]

\* The header holds a user and its password, with a colon between them.
KnownUser ==
  /\ rreq.auth.scheme = "Basic"
  /\ \E no \in DOMAIN UserPw : Userpass(rreq.auth) = UserPw[no][1] \o <<Colon>> \o UserPw[no][2]

\* No handler answers in place of one before it in the table that takes the
\* request: behind a route with a login only a user that is known gets an answer,
\* behind a redirect nobody, and a route after the one that answers is not tried.
\* (Whether the header Basic alone gets by depends on what lay behind it.)
FirstRouteAnswers ==
  ranswer # Unanswered =>
    /\ ranswer.by <= Len(rtable) => Takes(ranswer.by)
    /\ \A i \in 1 .. ranswer.by - 1 : Takes(i) =>
         /\ rtable[i].cgi # "redirect"
         /\ rtable[i].cgi = "auth" => KnownUser \/ rreq.auth.scheme = "bare"
         /\ rtable[i].cgi = "file" => rreq.exists = 0
         /\ rtable[i].cgi = "tohost" => rreq.host # "other"

\* Below a route that ends in /* a file handler with a base path looks for the
\* same name below the base path, with one slash between them even if the URL
\* has two.  (A * that the URL has in the place of the route's is lost.)
PathBelowBase ==
  ranswer.what = "file" =>
    LET r == rtable[ranswer.by]
        n == Len(r.url)
        below == SubSeq(rreq.url, n, Len(rreq.url))
    IN r.base = "ex" /\ n >= 2 /\ r.url[n] = "*" /\ r.url[n - 1] = "/"
       /\ (below # <<>> => below[1] # "*") /\ Base \notin RegularFiles
       => ranswer.path = Base \o <<"/">> \o
                           (IF below # <<>> /\ below[1] = "/" THEN Tail(below) ELSE below)
=============================================================================
