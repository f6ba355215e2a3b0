------------------------------ MODULE SessionServer ------------------------------
(***************************************************************************)
(* http-server-cpp: one thread that accepts a connection, reads one        *)
(* request, answers it and closes; the session pool behind the pages; and  *)
(* the browsers with their SESSIONID cookie.  A session id is the second   *)
(* it was made in and what std::random_device returned as the seed of its  *)
(* digits; the n-th different seed of a second is the number n.            *)
(***************************************************************************)
EXTENDS Integers, Sequences, FiniteSets

CONSTANTS
    Browsers,
    Nobody,
    Timeout,        \* createSession's timeout, and the cookie's Max-Age
    SeedsRepeat,    \* may random_device return one seed twice within a second?
    Named,          \* browsers that hold a second cookie of this site
    MaxTime,        \* bound on the clock
    MaxSession,     \* bound on the sessions ever created
    MaxRestarts     \* bound on the restarts of the server

SessionIds == [time : 0..MaxTime, seed : 1..MaxSession]
NoSession == [time |-> 0, seed |-> 0]       \* "", or what is no session's id

\* What a Cookie: line holds.  A browser sends no two cookies of one name, so their
\* order does not matter.
Pairs == [key : {"SESSIONID", "username"}, value : SessionIds \cup {NoSession}]

ASSUME SessionAssumption ==
    /\ IsFiniteSet(Browsers) /\ Nobody \notin Browsers /\ Named \subseteq Browsers
    /\ SeedsRepeat \in BOOLEAN
    /\ Timeout \in Nat /\ MaxTime \in Nat /\ MaxSession \in Nat /\ MaxRestarts \in Nat

VARIABLES
    now,            \* time(nullptr)
    sessions_,      \* the pool: session id -> expireTime
    created,        \* sessions ever created
    drawn,          \* different seeds drawn within this second
    backlog,        \* connections that wait for accept()
    client,         \* the browser whose connection handleClient serves
    handler,        \* "start", "accept", "read", "dispatch", "greet", "write", "dead"
    page,           \* what handleClient will write
    conn,           \* conn[b]: "none", "open", "sent" (a request), "reset"
    request,        \* request[b]: the request on b's connection
    cookie,         \* cookie[b]: the id b holds and when b drops it
    restarts

given == <<created, drawn>>
vars == <<now, sessions_, given, backlog, client, handler, page, conn, request,
          cookie, restarts>>
server == <<sessions_, given, client, handler, page>>

Paths == {"login.html", "POST login", "logout", "home", "other"}
NoCookie == [id |-> NoSession, expires |-> 0]
NoRequest == [path |-> "other", header |-> {}, ended |-> FALSE]
Blank == [kind |-> "none", id |-> NoSession]

Page(kind, id) == [kind |-> kind, id |-> id]

EmptyPool == [id \in {} |-> 0]

Init ==
    /\ now = 0
    /\ sessions_ = EmptyPool
    /\ created = 0
    /\ drawn = 0
    /\ backlog = <<>>
    /\ client = Nobody
    /\ handler = "start"
    /\ page = Blank
    /\ conn = [b \in Browsers |-> "none"]
    /\ request = [b \in Browsers |-> NoRequest]
    /\ cookie = [b \in Browsers |-> NoCookie]
    /\ restarts = 0

-----------------------------------------------------------------------------
(* SessionManager.                                                         *)

\* A session enters the pool, valid until now + timeout.
Enter(id) ==
    /\ created' = created + 1
    /\ drawn' = IF id.seed > drawn THEN id.seed ELSE drawn
    /\ sessions_' = [i \in DOMAIN sessions_ \cup {id} |->
                        IF i = id THEN now + Timeout ELSE sessions_[i]]

\* Fault: the id lacks the time.
createSession_NoTimestamp(id) ==
    /\ id = [time |-> 0, seed |-> drawn + 1]
    /\ Enter(id)

\* Fault: the pool is keyed by the user name, which is the same for all.
createSession_OnePerUser(id) ==
    /\ id = [time |-> now, seed |-> drawn + 1]
    /\ created' = created + 1
    /\ drawn' = drawn + 1
    /\ sessions_' = [i \in {id} |-> now + Timeout]

\* createSession returns id: generateSessionId looks at the clock and draws a seed,
\* one that was not drawn within this second unless SeedsRepeat.
createSession(id) ==
    /\ id.time = now
    /\ id.seed \in 1..(drawn + 1)
    /\ id.seed <= drawn => SeedsRepeat
    /\ Enter(id)

destroySession(id) ==
    sessions_' = [i \in DOMAIN sessions_ \ {id} |-> sessions_[i]]

isSessionValid(id) == id \in DOMAIN sessions_ /\ ~(sessions_[id] < now)

\* The pool after isSessionValid(id): id itself is erased if it has expired.
afterValidation(id) ==
    IF id \in DOMAIN sessions_ /\ sessions_[id] < now
    THEN destroySession(id)
    ELSE UNCHANGED sessions_

-----------------------------------------------------------------------------
(* HttpServer.                                                             *)

\* socket(), bind() and listen(); if one of them fails, start() returns and main ends.
initSocket ==
    /\ handler = "start"
    /\ handler' \in {"accept", "dead"}
    /\ UNCHANGED <<now, sessions_, given, backlog, client, page, conn, request, cookie,
                   restarts>>

Accept ==
    /\ handler = "accept"
    /\ backlog # <<>>
    /\ client' = Head(backlog)
    /\ backlog' = Tail(backlog)
    /\ handler' = "read"
    /\ UNCHANGED <<now, sessions_, given, page, conn, request, cookie, restarts>>

\* Fault: read() is tried again when it returns nothing.
Read_Again ==
    /\ handler = "read"
    /\ conn[client] = "sent"
    /\ handler' = "dispatch"
    /\ UNCHANGED <<now, sessions_, given, backlog, client, page, conn, request, cookie,
                   restarts>>

\* One read(): it blocks until the browser has sent something or is gone, and gives
\* the whole request, its beginning up to some place in the Cookie: line, or less
\* than the path, perhaps nothing.
Read ==
    /\ handler = "read"
    /\ conn[client] \in {"sent", "reset"}
    /\ handler' = "dispatch"
    /\ \/ UNCHANGED request
       \/ /\ request[client].header # {}
          /\ request' = [request EXCEPT ![client].ended = FALSE]
       \/ request' = [request EXCEPT ![client] = NoRequest]
    /\ UNCHANGED <<now, sessions_, given, backlog, client, page, conn, cookie,
                   restarts>>

\* A Cookie: line that is not there, or whose end was not read, gives an empty map.
parseCookies(text) ==
    [key \in {pair.key : pair \in {q \in text.header : text.ended}} |->
        (CHOOSE pair \in text.header : pair.key = key).value]

\* cookies["SESSIONID"], which is "" if there is none.
sessionId ==
    LET cookies == parseCookies(request[client]) IN
       IF "SESSIONID" \in DOMAIN cookies THEN cookies["SESSIONID"] ELSE NoSession

\* web/login.html, or a line that says that there is no such file.
readFrontEndFile == {Page("form", NoSession), Page("noFile", NoSession)}

LoginPage ==
    /\ request[client].path = "login.html"
    /\ page' \in readFrontEndFile
    /\ handler' = "write"
    /\ UNCHANGED <<sessions_, given>>

Login ==
    /\ request[client].path = "POST login"
    /\ \E id \in SessionIds : createSession(id) /\ page' = Page("setCookie", id)
    /\ handler' = "write"

Logout ==
    /\ request[client].path = "logout"
    /\ destroySession(sessionId)
    /\ page' = Page("clearCookie", NoSession)
    /\ handler' = "write"
    /\ UNCHANGED given

\* GET /: the session is checked first ...
Home ==
    /\ request[client].path = "home"
    /\ afterValidation(sessionId)
    /\ \/ /\ isSessionValid(sessionId)
          /\ handler' = "greet"
          /\ UNCHANGED page
       \/ /\ ~isSessionValid(sessionId)
          /\ page' = Page("redirect", NoSession)
          /\ handler' = "write"
    /\ UNCHANGED given

NotFound ==
    /\ request[client].path = "other"
    /\ page' = Page("404", NoSession)
    /\ handler' = "write"
    /\ UNCHANGED <<sessions_, given>>

Dispatch ==
    /\ handler = "dispatch"
    /\ LoginPage \/ Login \/ Logout \/ Home \/ NotFound
    /\ UNCHANGED <<now, backlog, client, conn, request, cookie, restarts>>

\* ... and getUsername then looks it up again, without a look at the clock.
Greet ==
    /\ handler = "greet"
    /\ page' = IF sessionId \in DOMAIN sessions_
               THEN Page("welcome", sessionId)
               ELSE Page("welcome", NoSession)
    /\ handler' = "write"
    /\ UNCHANGED <<now, sessions_, given, backlog, client, conn, request, cookie,
                   restarts>>

\* Fault: Max-Age is one second shorter than the session.
SetCookie_Short(b) ==
    cookie' = IF page.kind = "setCookie"
              THEN [cookie EXCEPT ![b] = [id |-> page.id, expires |-> now + Timeout - 1]]
              ELSE cookie

\* What the answer does to the jar of a browser that gets it.
SetCookie(b) ==
    cookie' = CASE page.kind = "setCookie" ->
                      [cookie EXCEPT ![b] = [id |-> page.id, expires |-> now + Timeout]]
                [] page.kind = "clearCookie" -> [cookie EXCEPT ![b] = NoCookie]
                [] OTHER -> cookie

\* write() and close().  A browser that has gone does not get the answer, one whose
\* request was not read to its end may be cut off before it, and writing to a
\* connection that was reset may raise SIGPIPE and end the server.
Write ==
    /\ handler = "write"
    /\ \/ conn[client] = "reset" /\ handler' = "dead" /\ UNCHANGED cookie
       \/ conn[client] = "reset" /\ handler' = "accept" /\ UNCHANGED cookie
       \/ /\ conn[client] = "sent"
          /\ handler' = "accept"
          /\ SetCookie(client) \/ UNCHANGED cookie
    /\ conn' = [conn EXCEPT ![client] = "none"]
    /\ request' = [request EXCEPT ![client] = NoRequest]
    /\ client' = Nobody
    /\ page' = Blank
    /\ UNCHANGED <<now, sessions_, given, backlog, restarts>>

ServerStep == initSocket \/ Accept \/ Read \/ Dispatch \/ Greet \/ Write

\* The server is started again: the kernel has closed its connections, the pool
\* starts empty, the browsers keep their cookies.
Restart ==
    /\ handler = "dead"
    /\ restarts < MaxRestarts
    /\ restarts' = restarts + 1
    /\ sessions_' = EmptyPool
    /\ backlog' = <<>>
    /\ client' = Nobody
    /\ handler' = "start"
    /\ page' = Blank
    /\ conn' = [b \in Browsers |-> "none"]
    /\ request' = [b \in Browsers |-> NoRequest]
    /\ UNCHANGED <<now, given, cookie>>

-----------------------------------------------------------------------------
(* The browsers and the clock.                                             *)

Connect(b) ==
    /\ conn[b] = "none"
    /\ handler \notin {"start", "dead"}
    /\ conn' = [conn EXCEPT ![b] = "open"]
    /\ backlog' = Append(backlog, b)
    /\ UNCHANGED <<server, now, request, cookie, restarts>>

\* Logins under way.
Pending == {b \in Browsers : conn[b] # "none" /\ request[b].path = "POST login"}

\* The Cookie: line of a request: what the browser still holds.
Header(b) ==
    (IF cookie[b].id = NoSession THEN {} ELSE {[key |-> "SESSIONID", value |-> cookie[b].id]})
    \cup {[key |-> "username", value |-> NoSession] : c \in {b} \cap Named}

\* A request for another page than those of the server is not sent here: Read can
\* make one of any request, for it is answered like one whose path was not read.
Send(b) ==
    /\ conn[b] = "open"
    /\ conn' = [conn EXCEPT ![b] = "sent"]
    /\ \E path \in Paths \ {"other"} :
          /\ path = "POST login" => created + Cardinality(Pending) < MaxSession
          /\ request' = [request EXCEPT ![b] =
                            [path |-> path, header |-> Header(b), ended |-> TRUE]]
    /\ UNCHANGED <<server, now, backlog, cookie, restarts>>

Reset(b) ==
    /\ conn[b] \in {"open", "sent"}
    /\ conn' = [conn EXCEPT ![b] = "reset"]
    /\ UNCHANGED <<server, now, backlog, request, cookie, restarts>>

BrowserStep == \E b \in Browsers : Connect(b) \/ Send(b) \/ Reset(b)

\* A second passes; browsers drop the cookies whose Max-Age is over.
Tick ==
    /\ now < MaxTime
    /\ now' = now + 1
    /\ drawn' = 0
    /\ cookie' = [b \in Browsers |->
                     IF cookie[b].expires < now' THEN NoCookie ELSE cookie[b]]
    /\ UNCHANGED <<sessions_, created, client, handler, page, backlog, conn, request,
                   restarts>>

Next == ServerStep \/ Restart \/ BrowserStep \/ Tick

Spec == Init /\ [][Next]_vars

\* A browser that has connected sends its request or goes.
SpeakUp(b) == conn[b] = "open" /\ (Send(b) \/ Reset(b))

\* The server runs whenever it can and no browser connects to say nothing: that one
\* would hold up everybody (HttpServer.cpp:132).  Nobody need restart the server.
FairSpec ==
    /\ Spec
    /\ WF_vars(ServerStep)
    /\ \A b \in Browsers : WF_vars(SpeakUp(b))
-----------------------------------------------------------------------------
Pages == [kind : {"none", "form", "noFile", "setCookie", "clearCookie", "redirect", "404",
                  "welcome"},
          id : SessionIds \cup {NoSession}]
Requests == [path : Paths, header : SUBSET Pairs, ended : BOOLEAN]
Cookies == [id : SessionIds \cup {NoSession}, expires : 0..(MaxTime + Timeout)]

TypeOK ==
    /\ now \in 0..MaxTime
    /\ DOMAIN sessions_ \subseteq SessionIds
    /\ \A id \in DOMAIN sessions_ : sessions_[id] \in 0..(MaxTime + Timeout)
    /\ created \in 0..MaxSession
    /\ drawn \in 0..created
    /\ backlog \in Seq(Browsers)
    /\ client \in Browsers \cup {Nobody}
    /\ handler \in {"start", "accept", "read", "dispatch", "greet", "write", "dead"}
    /\ page \in Pages
    /\ conn \in [Browsers -> {"none", "open", "sent", "reset"}]
    /\ request \in [Browsers -> Requests]
    /\ cookie \in [Browsers -> Cookies]
    /\ restarts \in 0..MaxRestarts

\* The ids browser b holds, sends or is about to be given.
IdsOf(b) ==
    ({cookie[b].id} \cup {pair.value : pair \in request[b].header} \cup
     {page.id : c \in {client} \cap {b}}) \ {NoSession}

\* Two browsers never come to share a session (SessionManager.cpp:18-34, 40-57),
\* even if answers are lost, sessions expire or are logged out, or the server
\* restarts with an empty pool while the browsers keep their cookies; as long as
\* random_device does not repeat a seed within one second.
SessionsNotShared ==
    \A a, b \in Browsers : a # b => IdsOf(a) \cap IdsOf(b) = {}

\* The sessions that have not expired.
Live == [id \in {i \in DOMAIN sessions_ : sessions_[i] >= now} |-> sessions_[id]]

\* A browser never drops the cookie of a session that goes on, however late the
\* answer to the login came, up to the last second of both; but by an answer of the
\* server (SessionManager.cpp:51, 74, CookieUtil.cpp:64-72).
CookieOutlivesSession ==
    [][\A b \in Browsers :
          cookie'[b] # cookie[b] /\ cookie[b].id \in DOMAIN Live'
             => handler = "write" /\ client = b]_vars

Store == INSTANCE SessionStore WITH live <- Live, Ids <- SessionIds

\* The pool, which forgets an expired session only when that very session is asked
\* for (SessionManager.cpp:62-83), behaves as if sessions ended in time, by their
\* own logout or with the server, and in no other way.
ImplementsStore == Store!Spec

\* Every request is answered, unless its browser goes or the server dies before.
RequestsAnswered ==
    \A b \in Browsers :
       conn[b] = "sent" ~> conn[b] # "sent" \/ handler = "dead"

Queued(b) == \E i \in DOMAIN backlog : backlog[i] = b

\* Whoever is connected, whether it has spoken, stays silent or has gone, is being
\* served or has a place in the queue, until the server dies (HttpServer.cpp:229-246):
\* no connection is dropped between accept() and close().
NobodyForgotten ==
    handler # "dead" =>
       \A b \in Browsers : conn[b] # "none" =>
          b = client \/ Queued(b)

\* Nobody passes another one in the queue: a browser moves up by one place or is
\* served next, and is served until its connection is closed (HttpServer.cpp:229-246).
ServedInTurn ==
    [][handler # "dead" =>
          /\ \A i \in DOMAIN backlog :
                \/ i \in DOMAIN backlog' /\ backlog'[i] = backlog[i]
                \/ i > 1 /\ i - 1 \in DOMAIN backlog' /\ backlog'[i - 1] = backlog[i]
                \/ i = 1 /\ client' = backlog[i]
          /\ client # Nobody /\ client' # client => conn'[client] = "none"]_vars

-----------------------------------------------------------------------------
(* The facts that make the invariants above inductive.                     *)

\* A connection is being served, or waits for accept(), or is closed.
OneAtATime ==
    /\ handler \in {"read", "dispatch", "greet", "write"} =>
          client \in Browsers /\ conn[client] # "none"
    /\ handler \in {"start", "accept", "dead"} => client = Nobody
    /\ handler # "write" => page = Blank
    /\ \A i, j \in DOMAIN backlog : backlog[i] = backlog[j] => i = j
    /\ \A i \in DOMAIN backlog : conn[backlog[i]] # "none" /\ backlog[i] # client
    /\ \A b \in Browsers : conn[b] = "none" => request[b] = NoRequest

Given(id) == id.time < now \/ (id.time = now /\ id.seed <= drawn)

\* Every id in circulation has been given out.
IdsGivenOut ==
    /\ \A b \in Browsers : \A id \in IdsOf(b) : Given(id)
    /\ \A id \in DOMAIN sessions_ : Given(id)

\* A session ends Timeout after the second in its id, a cookie not before that.
EndsInTime ==
    /\ \A id \in DOMAIN sessions_ : sessions_[id] = id.time + Timeout
    /\ \A b \in Browsers : cookie[b].id # NoSession =>
          cookie[b].expires >= cookie[b].id.time + Timeout

\* Logins that were sent and not yet handled.
Waiting == {b \in Pending : ~(b = client /\ handler = "write")}

\* There are ids left for them.
IdsLeft == created + Cardinality(Waiting) <= MaxSession

IInv ==
    /\ TypeOK
    /\ SeedsRepeat \/ SessionsNotShared
    /\ OneAtATime
    /\ IdsGivenOut
    /\ EndsInTime
    /\ IdsLeft
=============================================================================
