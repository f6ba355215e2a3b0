--------------------------- MODULE SessionServerProofs ---------------------------
(***************************************************************************)
(* Safety of the sessions of http-server-cpp for any number of browsers,   *)
(* logins and restarts, and the proof that the pool implements             *)
(* SessionStore.                                                           *)
(***************************************************************************)
EXTENDS SessionServer, FiniteSetTheorems, TLAPS

USE SessionAssumption DEF given

\* Where an id in circulation can be.
LEMMA IdsAre ==
    ASSUME NEW b
    PROVE  /\ \A id : id \in IdsOf(b) <=>
                  /\ id # NoSession
                  /\ \/ id = cookie[b].id
                     \/ \E pair \in request[b].header : id = pair.value
                     \/ client = b /\ id = page.id
           /\ \A id : id \in IdsOf(b)' <=>
                  /\ id # NoSession
                  /\ \/ id = cookie'[b].id
                     \/ \E pair \in request'[b].header : id = pair.value
                     \/ client' = b /\ id = page'.id
BY DEF IdsOf

\* An id has a second and a seed, and is not NoSession.
LEMMA IdParts ==
    ASSUME NEW id \in SessionIds
    PROVE  id.time \in 0..MaxTime /\ id.seed \in 1..MaxSession /\ id # NoSession
BY DEF SessionIds, NoSession

\* What is in circulation are ids.
LEMMA IdsTyped ==
    ASSUME TypeOK, NEW b \in Browsers, NEW id \in IdsOf(b)
    PROVE  id \in SessionIds
<1>1. cookie[b].id \in SessionIds \cup {NoSession}
  BY DEF TypeOK, Cookies
<1>2. \A pair \in request[b].header : pair.value \in SessionIds \cup {NoSession}
  BY DEF TypeOK, Requests, Pairs
<1>3. page.id \in SessionIds \cup {NoSession}
  BY DEF TypeOK, Pages
<1> QED BY <1>1, <1>2, <1>3, IdsAre

\* The records a program starts with, and returns to, have their types.
LEMMA Blanks ==
    /\ NoRequest \in Requests /\ NoRequest.header = {} /\ NoRequest.path = "other"
    /\ NoCookie \in Cookies /\ NoCookie.id = NoSession
    /\ Blank \in Pages /\ Blank.id = NoSession
BY DEF NoRequest, Requests, Paths, NoCookie, Cookies, Blank, Pages

\* A step that brings no id to a browser that did not have it, nor to the pool,
\* shares none.
LEMMA NoNewIds ==
    ASSUME IInv, \A id \in SessionIds : Given(id) => Given(id)',
           DOMAIN sessions_' \subseteq DOMAIN sessions_,
           \A b \in Browsers : \A id \in IdsOf(b)' : id \in IdsOf(b)
    PROVE  (SeedsRepeat \/ SessionsNotShared') /\ IdsGivenOut'
<1>1. SeedsRepeat \/ SessionsNotShared'
  BY DEF IInv, SessionsNotShared
<1>2. ASSUME NEW b \in Browsers, NEW id \in IdsOf(b)'
      PROVE  Given(id)'
  BY <1>2, IdsTyped DEF IInv, IdsGivenOut
<1>3. ASSUME NEW id \in DOMAIN sessions_'
      PROVE  Given(id)'
  BY DEF IInv, TypeOK, IdsGivenOut
<1> QED BY <1>1, <1>2, <1>3 DEF IdsGivenOut

\* In particular when the clock stands still.
LEMMA SameIds ==
    ASSUME IInv, UNCHANGED <<now, drawn>>,
           DOMAIN sessions_' \subseteq DOMAIN sessions_,
           \A b \in Browsers : \A id \in IdsOf(b)' : id \in IdsOf(b)
    PROVE  (SeedsRepeat \/ SessionsNotShared') /\ IdsGivenOut'
<1>1. \A id \in SessionIds : Given(id) => Given(id)'
  BY DEF Given
<1> QED BY <1>1, NoNewIds

\* The logins that wait are finitely many, and fewer need no more ids.
LEMMA FewerWait ==
    ASSUME IInv, created' = created, Waiting' \subseteq Waiting
    PROVE  IdsLeft'
<1>1. IsFiniteSet(Waiting)
  BY FS_Subset DEF Waiting, Pending
<1>2. Cardinality(Waiting') <= Cardinality(Waiting) /\ IsFiniteSet(Waiting')
  BY <1>1, FS_Subset
<1>3. Cardinality(Waiting) \in Nat /\ Cardinality(Waiting') \in Nat
  BY <1>1, <1>2, FS_CardinalityType
<1>4. created \in Nat
  BY DEF IInv, TypeOK
<1> QED BY <1>2, <1>3, <1>4 DEF IInv, IdsLeft

\* At the start there are no ids and no connections.
LEMMA InitInductive == Init => IInv
<1> SUFFICES ASSUME Init PROVE IInv
  OBVIOUS
<1> USE DEF Init
<1>1. TypeOK
  BY Blanks DEF TypeOK, EmptyPool
<1>2. \A b \in Browsers : IdsOf(b) = {}
  BY IdsAre, Blanks
<1>3. SessionsNotShared /\ IdsGivenOut
  BY <1>2 DEF SessionsNotShared, IdsGivenOut, EmptyPool
<1>4. EndsInTime
  BY Blanks DEF EndsInTime, EmptyPool
<1>5. OneAtATime
  BY DEF OneAtATime
<1>6. IdsLeft
  <2>1. Waiting = {}
    BY DEF Waiting, Pending
  <2> QED BY <2>1, FS_EmptySet DEF IdsLeft
<1> QED BY <1>1, <1>3, <1>4, <1>5, <1>6 DEF IInv

\* A browser that connects joins the end of the queue, where it is not yet.
LEMMA ConnectInductive ==
    ASSUME IInv, NEW b \in Browsers, Connect(b)
    PROVE  IInv'
<1>0. backlog \in Seq(Browsers) /\ backlog' = Append(backlog, b) /\ conn[b] = "none"
  BY DEF Connect, IInv, TypeOK
<1>1. /\ backlog' \in Seq(Browsers)
      /\ Len(backlog) \in Nat
      /\ DOMAIN backlog = 1..Len(backlog) /\ DOMAIN backlog' = 1..(Len(backlog) + 1)
      /\ \A i \in DOMAIN backlog : backlog'[i] = backlog[i] /\ backlog[i] \in Browsers
      /\ backlog'[Len(backlog) + 1] = b
  BY <1>0
<1>2. /\ conn'[b] = "open" /\ \A c \in Browsers \ {b} : conn'[c] = conn[c]
      /\ conn' \in [Browsers -> {"none", "open", "sent", "reset"}]
      /\ UNCHANGED <<now, sessions_, given, client, handler, page, request, cookie,
                     restarts>>
      /\ request[b] = NoRequest
  BY <1>0 DEF Connect, server, IInv, TypeOK, OneAtATime
<1>3. TypeOK'
  BY <1>1, <1>2 DEF IInv, TypeOK
<1>4. EndsInTime'
  BY <1>2 DEF IInv, EndsInTime
<1>5. (SeedsRepeat \/ SessionsNotShared') /\ IdsGivenOut'
  BY <1>2, IdsAre, SameIds
<1>6. client # b
  BY <1>0 DEF IInv, OneAtATime, TypeOK
<1>7. OneAtATime'
  <2>1. \A i, j \in DOMAIN backlog' : backlog'[i] = backlog'[j] => i = j
    BY <1>0, <1>1 DEF IInv, OneAtATime
  <2>2. \A i \in DOMAIN backlog' : conn'[backlog'[i]] # "none" /\ backlog'[i] # client
    BY <1>1, <1>2, <1>6 DEF IInv, OneAtATime
  <2> QED BY <1>2, <2>1, <2>2 DEF IInv, OneAtATime
<1>8. IdsLeft'
  <2>1. Waiting' \subseteq Waiting
    <3>1. request'[b].path # "POST login"
      BY <1>2 DEF NoRequest
    <3> QED BY <1>2, <3>1 DEF Waiting, Pending
  <2> QED BY <1>2, <2>1, FewerWait
<1> QED BY <1>3, <1>4, <1>5, <1>7, <1>8 DEF IInv

\* A Cookie: line carries the id the browser has.
LEMMA HeaderHas ==
    ASSUME TypeOK, NEW b \in Browsers
    PROVE  /\ Header(b) \subseteq Pairs
           /\ \A pair \in Header(b) : pair.value \in {cookie[b].id, NoSession}
<1>1. cookie[b].id \in SessionIds \cup {NoSession}
  BY DEF TypeOK, Cookies
<1> QED BY <1>1 DEF Header, Pairs

\* A request carries an id its browser has, and a login is sent if there is an id
\* left for it.
LEMMA SendInductive ==
    ASSUME IInv, NEW b \in Browsers, Send(b)
    PROVE  IInv'
<1>1. PICK p \in Paths :
         /\ p = "POST login" => created + Cardinality(Pending) < MaxSession
         /\ request' = [request EXCEPT ![b] =
                           [path |-> p, header |-> Header(b), ended |-> TRUE]]
  BY DEF Send
<1>2. /\ conn[b] = "open" /\ conn'[b] = "sent"
      /\ \A c \in Browsers \ {b} : conn'[c] = conn[c]
      /\ conn' \in [Browsers -> {"none", "open", "sent", "reset"}]
      /\ UNCHANGED <<now, sessions_, given, client, handler, page, backlog, cookie,
                     restarts>>
  BY DEF Send, server, IInv, TypeOK
<1>3. /\ request'[b].path = p /\ request'[b].header = Header(b)
      /\ \A c \in Browsers \ {b} : request'[c] = request[c]
      /\ request' \in [Browsers -> Requests]
  <2>1. [path |-> p, header |-> Header(b), ended |-> TRUE] \in Requests
    BY HeaderHas DEF IInv, Requests
  <2> QED BY <1>1, <2>1 DEF IInv, TypeOK
<1>4. TypeOK'
  BY <1>2, <1>3 DEF IInv, TypeOK
<1>5. EndsInTime'
  BY <1>2 DEF IInv, EndsInTime
<1>6. \A c \in Browsers : \A id \in IdsOf(c)' : id \in IdsOf(c)
  BY <1>2, <1>3, IdsAre, HeaderHas DEF IInv
<1>7. (SeedsRepeat \/ SessionsNotShared') /\ IdsGivenOut'
  BY <1>2, <1>6, SameIds
<1>8. OneAtATime'
  <2>1. \A i \in DOMAIN backlog : backlog[i] \in Browsers
    BY DEF IInv, TypeOK
  <2>2. \A c \in Browsers : conn'[c] = "none" <=> conn[c] = "none"
    BY <1>2
  <2>3. \A c \in Browsers : conn'[c] = "none" => request'[c] = NoRequest
    BY <1>2, <1>3, <2>2 DEF IInv, OneAtATime
  <2> QED BY <1>2, <2>1, <2>2, <2>3 DEF IInv, OneAtATime
<1>9. created \in Nat /\ created' = created
  BY <1>2 DEF IInv, TypeOK
<1>10. IdsLeft'
  <2>1. CASE p = "POST login"
    <3>1. Waiting' \subseteq Pending \cup {b}
      BY <1>2, <1>3 DEF Waiting, Pending
    <3>2. IsFiniteSet(Pending)
      BY FS_Subset DEF Pending
    <3>3. Cardinality(Pending) \in Nat
      BY <3>2, FS_CardinalityType
    <3>4. /\ IsFiniteSet(Pending \cup {b})
          /\ \/ Cardinality(Pending \cup {b}) = Cardinality(Pending)
             \/ Cardinality(Pending \cup {b}) = Cardinality(Pending) + 1
      BY <3>2, FS_AddElement
    <3>5. IsFiniteSet(Waiting') /\ Cardinality(Waiting') <= Cardinality(Pending \cup {b})
      BY <3>1, <3>4, FS_Subset
    <3>6. Cardinality(Waiting') \in Nat
      BY <3>5, FS_CardinalityType
    <3>7. created + Cardinality(Pending) < MaxSession
      BY <1>1, <2>1
    <3> QED BY <1>9, <3>3, <3>4, <3>5, <3>6, <3>7 DEF IdsLeft
  <2>2. CASE p # "POST login"
    <3>1. Waiting' \subseteq Waiting
      BY <1>2, <1>3, <2>2 DEF Waiting, Pending
    <3> QED BY <1>9, <3>1, FewerWait
  <2> QED BY <2>1, <2>2
<1> QED BY <1>4, <1>5, <1>7, <1>8, <1>10 DEF IInv

\* A browser that goes away takes nothing with it.
LEMMA ResetInductive ==
    ASSUME IInv, NEW b \in Browsers, Reset(b)
    PROVE  IInv'
<1>1. /\ conn[b] # "none" /\ conn'[b] = "reset"
      /\ \A c \in Browsers \ {b} : conn'[c] = conn[c]
      /\ conn' \in [Browsers -> {"none", "open", "sent", "reset"}]
      /\ UNCHANGED <<now, sessions_, given, client, handler, page, backlog, cookie,
                     request, restarts>>
  BY DEF Reset, server, IInv, TypeOK
<1>2. \A c \in Browsers : conn'[c] = "none" <=> conn[c] = "none"
  BY <1>1
<1>3. TypeOK'
  BY <1>1 DEF IInv, TypeOK
<1>4. EndsInTime'
  BY <1>1 DEF IInv, EndsInTime
<1>5. (SeedsRepeat \/ SessionsNotShared') /\ IdsGivenOut'
  BY <1>1, IdsAre, SameIds
<1>6. OneAtATime'
  <2>1. \A i \in DOMAIN backlog : backlog[i] \in Browsers
    BY DEF IInv, TypeOK
  <2> QED BY <1>1, <1>2, <2>1 DEF IInv, OneAtATime
<1>7. Waiting' \subseteq Waiting
  BY <1>1, <1>2 DEF Waiting, Pending
<1>8. IdsLeft'
  BY <1>1, <1>7, FewerWait
<1> QED BY <1>3, <1>4, <1>5, <1>6, <1>8 DEF IInv

\* The clock takes the cookies that are over, and whatever was given out remains so,
\* though seeds are drawn afresh.
LEMMA TickInductive ==
    ASSUME IInv, Tick
    PROVE  IInv'
<1>1. /\ now' = now + 1 /\ now < MaxTime /\ now \in Nat /\ drawn' = 0
      /\ cookie' = [b \in Browsers |->
                       IF cookie[b].expires < now' THEN NoCookie ELSE cookie[b]]
      /\ UNCHANGED <<sessions_, created, client, handler, page, backlog, conn, request,
                     restarts>>
  BY DEF Tick, IInv, TypeOK
<1>2. \A b \in Browsers :
         cookie'[b] = cookie[b] \/ cookie'[b] = NoCookie
  BY <1>1
<1>3. TypeOK'
  BY <1>1, Blanks DEF IInv, TypeOK
<1>4. EndsInTime'
  BY <1>1, <1>2, Blanks DEF IInv, EndsInTime
<1>5. \A b \in Browsers : \A id \in IdsOf(b)' : id \in IdsOf(b)
  BY <1>1, <1>2, Blanks, IdsAre
<1>6. \A id \in SessionIds : Given(id) => Given(id)'
  BY <1>1, IdParts DEF Given
<1>7. (SeedsRepeat \/ SessionsNotShared') /\ IdsGivenOut'
  BY <1>1, <1>5, <1>6, NoNewIds
<1>8. OneAtATime'
  BY <1>1 DEF IInv, OneAtATime
<1>9. Waiting' = Waiting
  BY <1>1 DEF Waiting, Pending
<1>10. IdsLeft'
  BY <1>1, <1>9, FewerWait
<1> QED BY <1>3, <1>4, <1>7, <1>8, <1>10 DEF IInv

\* Nothing has happened before the server listens.
LEMMA initSocketInductive ==
    ASSUME IInv, initSocket
    PROVE  IInv'
<1>1. /\ handler = "start" /\ handler' \in {"accept", "dead"}
      /\ UNCHANGED <<now, sessions_, given, backlog, client, page, conn, request, cookie,
                     restarts>>
  BY DEF initSocket
<1>2. TypeOK'
  BY <1>1 DEF IInv, TypeOK
<1>3. EndsInTime' /\ OneAtATime'
  BY <1>1 DEF IInv, EndsInTime, OneAtATime
<1>4. (SeedsRepeat \/ SessionsNotShared') /\ IdsGivenOut'
  BY <1>1, IdsAre, SameIds
<1>5. Waiting' \subseteq Waiting
  BY <1>1 DEF Waiting, Pending
<1>6. IdsLeft'
  BY <1>1, <1>5, FewerWait
<1> QED BY <1>2, <1>3, <1>4, <1>6 DEF IInv

\* accept() takes the first of the queue.
LEMMA AcceptInductive ==
    ASSUME IInv, Accept
    PROVE  IInv'
<1>0. PICK b \in Browsers :
         /\ b = backlog[1] /\ 1 \in DOMAIN backlog /\ client' = b
         /\ Len(backlog) \in Nat \ {0} /\ DOMAIN backlog = 1..Len(backlog)
  BY DEF Accept, IInv, TypeOK
<1>1. /\ backlog' \in Seq(Browsers) /\ DOMAIN backlog' = 1..(Len(backlog) - 1)
      /\ \A i \in DOMAIN backlog' : backlog'[i] = backlog[i + 1] /\ i + 1 \in DOMAIN backlog
  <2>1. backlog \in Seq(Browsers) /\ backlog # <<>> /\ backlog' = Tail(backlog)
    BY DEF Accept, IInv, TypeOK
  <2> QED BY <1>0, <2>1
<1>2. /\ handler = "accept" /\ handler' = "read" /\ page = Blank /\ client = Nobody
      /\ UNCHANGED <<now, sessions_, given, page, conn, request, cookie, restarts>>
  BY DEF Accept, IInv, OneAtATime
<1>3. conn[b] # "none" /\ \A i \in DOMAIN backlog' : backlog'[i] # b
  BY <1>0, <1>1 DEF IInv, OneAtATime
<1>4. TypeOK'
  BY <1>0, <1>1, <1>2 DEF IInv, TypeOK
<1>5. EndsInTime'
  BY <1>2 DEF IInv, EndsInTime
<1>6. \A c \in Browsers : \A id \in IdsOf(c)' : id \in IdsOf(c)
  BY <1>2, Blanks, IdsAre
<1>7. (SeedsRepeat \/ SessionsNotShared') /\ IdsGivenOut'
  BY <1>2, <1>6, SameIds
<1>8. OneAtATime'
  <2>1. \A i, j \in DOMAIN backlog' : backlog'[i] = backlog'[j] => i = j
    BY <1>0, <1>1 DEF IInv, OneAtATime
  <2>2. \A i \in DOMAIN backlog' : conn'[backlog'[i]] # "none" /\ backlog'[i] # client'
    BY <1>0, <1>1, <1>2, <1>3 DEF IInv, OneAtATime
  <2> QED BY <1>0, <1>2, <1>3, <2>1, <2>2 DEF IInv, OneAtATime
<1>9. Waiting' \subseteq Waiting
  BY <1>2 DEF Waiting, Pending
<1>10. IdsLeft'
  BY <1>2, <1>9, FewerWait
<1> QED BY <1>4, <1>5, <1>7, <1>8, <1>10 DEF IInv

\* read() returns the request or less of it, perhaps nothing.
LEMMA ReadInductive ==
    ASSUME IInv, Read
    PROVE  IInv'
<1>0. PICK b \in Browsers : b = client /\ conn[b] # "none"
  BY DEF Read, IInv, OneAtATime
<1>1. /\ handler = "read" /\ handler' = "dispatch" /\ page = Blank
      /\ UNCHANGED <<now, sessions_, given, page, conn, cookie, restarts, client, backlog>>
  BY DEF Read, IInv, OneAtATime
<1>2. PICK text :
         /\ \/ text = NoRequest
            \/ text = request[b]
            \/ text = [request[b] EXCEPT !.ended = FALSE]
         /\ request' = [request EXCEPT ![b] = text]
  <2>1. request = [request EXCEPT ![b] = request[b]]
    BY DEF IInv, TypeOK
  <2> QED BY <1>0, <2>1 DEF Read
<1>3. /\ text \in Requests
      /\ text = NoRequest \/ (text.header = request[b].header /\ text.path = request[b].path)
  <2>1. request[b] \in Requests
    BY DEF IInv, TypeOK
  <2>2. \A r \in Requests : /\ [r EXCEPT !.ended = FALSE] \in Requests
                            /\ [r EXCEPT !.ended = FALSE].header = r.header
                            /\ [r EXCEPT !.ended = FALSE].path = r.path
    BY DEF Requests
  <2> QED BY <1>2, <2>1, <2>2, Blanks
<1>4. /\ request'[b] = text /\ \A c \in Browsers \ {b} : request'[c] = request[c]
      /\ request' \in [Browsers -> Requests]
  BY <1>2, <1>3 DEF IInv, TypeOK
<1>5. TypeOK'
  BY <1>1, <1>4 DEF IInv, TypeOK
<1>6. EndsInTime'
  BY <1>1 DEF IInv, EndsInTime
<1>7. \A c \in Browsers : \A id \in IdsOf(c)' : id \in IdsOf(c)
  BY <1>1, <1>3, <1>4, Blanks, IdsAre
<1>8. (SeedsRepeat \/ SessionsNotShared') /\ IdsGivenOut'
  BY <1>1, <1>7, SameIds
<1>9. OneAtATime'
  BY <1>0, <1>1, <1>4 DEF IInv, OneAtATime
<1>10. Waiting' \subseteq Waiting
  BY <1>1, <1>3, <1>4, Blanks DEF Waiting, Pending
<1>11. IdsLeft'
  BY <1>1, <1>10, FewerWait
<1> QED BY <1>5, <1>6, <1>8, <1>9, <1>11 DEF IInv

\* The session id of the request is one that its Cookie: line holds, or none.
LEMMA SessionIdIs ==
    ASSUME IInv, client \in Browsers
    PROVE  /\ sessionId \in SessionIds \cup {NoSession}
           /\ sessionId # NoSession => sessionId \in IdsOf(client)
<1>1. request[client].header \subseteq Pairs
  BY DEF IInv, TypeOK, Requests
<1>2. CASE "SESSIONID" \in DOMAIN parseCookies(request[client])
  <2>1. \E pair \in request[client].header : pair.key = "SESSIONID"
    BY <1>2 DEF parseCookies
  <2>2. PICK pair \in request[client].header :
           pair = CHOOSE q \in request[client].header : q.key = "SESSIONID"
    BY <2>1
  <2>3. sessionId = pair.value
    BY <1>2, <2>2 DEF sessionId, parseCookies
  <2>4. pair.value \in SessionIds \cup {NoSession}
    BY <1>1 DEF Pairs
  <2> QED BY <2>3, <2>4, IdsAre
<1>3. CASE "SESSIONID" \notin DOMAIN parseCookies(request[client])
  BY <1>3 DEF sessionId
<1> QED BY <1>2, <1>3

\* A page that is prepared for the client, with an id it has sent or none.
LEMMA PageInductive ==
    ASSUME IInv, handler \in {"dispatch", "greet"}, handler' \in {"greet", "write"},
           page' \in Pages,
           handler' = "greet" => page' = Blank,
           page'.id \in {NoSession, sessionId},
           UNCHANGED <<now, given, backlog, client, conn, request, cookie, restarts>>,
           DOMAIN sessions_' \subseteq DOMAIN sessions_,
           \A id \in DOMAIN sessions_' : sessions_'[id] = sessions_[id]
    PROVE  IInv'
<1>0. client \in Browsers
  BY DEF IInv, OneAtATime
<1>1. TypeOK'
  BY DEF IInv, TypeOK
<1>2. EndsInTime'
  BY DEF IInv, EndsInTime
<1>3. \A c \in Browsers : \A id \in IdsOf(c)' : id \in IdsOf(c)
  BY <1>0, IdsAre, SessionIdIs
<1>4. (SeedsRepeat \/ SessionsNotShared') /\ IdsGivenOut'
  BY <1>3, SameIds
<1>5. OneAtATime'
  BY DEF IInv, OneAtATime
<1>6. Waiting' \subseteq Waiting
  BY DEF Waiting, Pending
<1>7. IdsLeft'
  BY <1>6, FewerWait
<1> QED BY <1>1, <1>2, <1>4, <1>5, <1>7 DEF IInv

\* What createSession does: the id is of this second, and of a new seed unless seeds
\* repeat.
LEMMA Created ==
    ASSUME IInv, NEW id \in SessionIds, createSession(id)
    PROVE  /\ id.time = now
           /\ created' = created + 1 /\ drawn' \in 0..created'
           /\ id.seed <= drawn' /\ drawn <= drawn' /\ drawn' \in Nat
           /\ SeedsRepeat \/ drawn < id.seed
           /\ DOMAIN sessions_' = DOMAIN sessions_ \cup {id}
           /\ sessions_'[id] = now + Timeout
           /\ \A i \in DOMAIN sessions_ : i # id => sessions_'[i] = sessions_[i]
<1>1. /\ id.time = now /\ id.seed \in 1..(drawn + 1)
      /\ id.seed <= drawn => SeedsRepeat
      /\ created' = created + 1
      /\ drawn' = IF id.seed > drawn THEN id.seed ELSE drawn
      /\ sessions_' = [i \in DOMAIN sessions_ \cup {id} |->
                          IF i = id THEN now + Timeout ELSE sessions_[i]]
  BY DEF createSession, Enter
<1>2. created \in Nat /\ drawn \in 0..created /\ id.seed \in Nat
  BY IdParts DEF IInv, TypeOK
<1>3. drawn' \in 0..created' /\ id.seed <= drawn' /\ drawn <= drawn' /\ drawn' \in Nat
  BY <1>1, <1>2
<1>4. SeedsRepeat \/ drawn < id.seed
  BY <1>1, <1>2
<1> QED BY <1>1, <1>3, <1>4

\* A login is given an id that nobody has, unless seeds repeat.
LEMMA LoginInductive ==
    ASSUME IInv, Dispatch, Login
    PROVE  IInv'
<1>0. PICK b \in Browsers :
         b = client /\ conn[b] # "none" /\ request[b].path = "POST login"
  BY DEF Dispatch, Login, IInv, OneAtATime
<1>1. /\ handler = "dispatch" /\ handler' = "write" /\ page = Blank
      /\ UNCHANGED <<now, backlog, client, conn, request, cookie, restarts>>
  BY DEF Dispatch, Login, IInv, OneAtATime
<1>2. PICK new \in SessionIds : createSession(new) /\ page' = Page("setCookie", new)
  BY DEF Login
<1>3. /\ new.time = now
      /\ created' = created + 1 /\ drawn' \in 0..created'
      /\ new.seed <= drawn' /\ drawn <= drawn' /\ drawn' \in Nat
      /\ SeedsRepeat \/ drawn < new.seed
      /\ DOMAIN sessions_' = DOMAIN sessions_ \cup {new}
      /\ sessions_'[new] = now + Timeout
      /\ \A i \in DOMAIN sessions_ : i # new => sessions_'[i] = sessions_[i]
  BY <1>2, Created
<1>4. page' \in Pages /\ page'.id = new
  BY <1>2 DEF Page, Pages
<1>5. IsFiniteSet(Waiting) /\ b \in Waiting /\ Waiting' = Waiting \ {b}
  BY <1>0, <1>1, FS_Subset DEF Waiting, Pending
<1>6. /\ Cardinality(Waiting') = Cardinality(Waiting) - 1
      /\ Cardinality(Waiting) \in Nat /\ Cardinality(Waiting') \in Nat
  BY <1>5, FS_RemoveElement, FS_CardinalityType
<1>7. IdsLeft' /\ created' \in 0..MaxSession
  <2>1. created + Cardinality(Waiting) <= MaxSession /\ created \in Nat
    BY DEF IInv, IdsLeft, TypeOK
  <2> QED BY <1>3, <1>6, <2>1 DEF IdsLeft
<1>8. TypeOK'
  <2>1. now + Timeout \in 0..(MaxTime + Timeout)
    BY DEF IInv, TypeOK
  <2>2. /\ DOMAIN sessions_' \subseteq SessionIds
        /\ \A i \in DOMAIN sessions_' : sessions_'[i] \in 0..(MaxTime + Timeout)
    BY <1>3, <2>1 DEF IInv, TypeOK
  <2> QED BY <1>1, <1>3, <1>4, <1>7, <2>2 DEF IInv, TypeOK
<1>9. EndsInTime'
  BY <1>1, <1>3 DEF IInv, EndsInTime
<1>10. \A id \in SessionIds : Given(id) => Given(id)'
  <2>1. drawn \in Nat
    BY DEF IInv, TypeOK
  <2> QED BY <1>1, <1>3, <2>1, IdParts DEF Given
<1>11. Given(new)' /\ (SeedsRepeat \/ ~Given(new))
  <2>1. drawn \in Nat /\ now \in Nat
    BY DEF IInv, TypeOK
  <2> QED BY <1>1, <1>3, <2>1, IdParts DEF Given
<1>12. \A c \in Browsers : \A id \in IdsOf(c)' :
          \/ id \in IdsOf(c) /\ Given(id) /\ id \in SessionIds
          \/ c = b /\ id = new
  <2>1. ASSUME NEW c \in Browsers, NEW id \in IdsOf(c)'
        PROVE  id \in IdsOf(c) \/ (c = b /\ id = new)
    BY <1>0, <1>1, <1>4, <2>1, IdsAre
  <2>2. \A c \in Browsers : \A id \in IdsOf(c) : Given(id) /\ id \in SessionIds
    BY IdsTyped DEF IInv, IdsGivenOut
  <2> QED BY <2>1, <2>2
<1>13. SeedsRepeat \/ SessionsNotShared'
  <2> SUFFICES ASSUME ~SeedsRepeat, NEW a \in Browsers, NEW c \in Browsers, a # c,
                      NEW id \in IdsOf(a)', id \in IdsOf(c)'
               PROVE  FALSE
    BY DEF SessionsNotShared
  <2>1. CASE id \in IdsOf(a) /\ id \in IdsOf(c)
    BY <2>1 DEF IInv, SessionsNotShared
  <2>2. CASE id = new
    BY <1>11, <1>12, <2>2
  <2> QED BY <1>12, <2>1, <2>2
<1>14. IdsGivenOut'
  <2>1. \A c \in Browsers : \A id \in IdsOf(c)' : Given(id)'
    BY <1>10, <1>11, <1>12
  <2>2. \A id \in DOMAIN sessions_' : Given(id)'
    BY <1>3, <1>10, <1>11 DEF IInv, IdsGivenOut, TypeOK
  <2> QED BY <2>1, <2>2 DEF IdsGivenOut
<1>15. OneAtATime'
  BY <1>1 DEF IInv, OneAtATime
<1> QED BY <1>7, <1>8, <1>9, <1>13, <1>14, <1>15 DEF IInv

\* The other requests open no session and bring no id.
LEMMA DispatchInductive ==
    ASSUME IInv, Dispatch
    PROVE  IInv'
<1>1. /\ handler = "dispatch" /\ page = Blank /\ client \in Browsers
      /\ UNCHANGED <<now, backlog, client, conn, request, cookie, restarts>>
  BY DEF Dispatch, IInv, OneAtATime
<1>2. CASE Login
  BY <1>2, LoginInductive
<1>3. CASE LoginPage \/ NotFound
  <2>1. /\ handler' = "write" /\ UNCHANGED <<sessions_, given>>
        /\ \E kind \in {"form", "noFile", "404"} : page' = [kind |-> kind, id |-> NoSession]
    BY <1>3 DEF LoginPage, readFrontEndFile, NotFound, Page
  <2>2. page'.id = NoSession /\ page' \in Pages
    BY <2>1 DEF Pages
  <2> QED BY <1>1, <2>1, <2>2, PageInductive
<1>4. CASE Logout
  <2>1. /\ handler' = "write" /\ UNCHANGED given
        /\ page' = [kind |-> "clearCookie", id |-> NoSession]
        /\ DOMAIN sessions_' \subseteq DOMAIN sessions_
        /\ \A id \in DOMAIN sessions_' : sessions_'[id] = sessions_[id]
    BY <1>4 DEF Logout, destroySession, Page
  <2>2. page'.id = NoSession /\ page' \in Pages
    BY <2>1 DEF Pages
  <2> QED BY <1>1, <2>1, <2>2, PageInductive
<1>5. CASE Home
  <2>1. /\ UNCHANGED given
        /\ DOMAIN sessions_' \subseteq DOMAIN sessions_
        /\ \A id \in DOMAIN sessions_' : sessions_'[id] = sessions_[id]
    BY <1>5 DEF Home, afterValidation, destroySession
  <2>2. \/ handler' = "greet" /\ page' = Blank
        \/ handler' = "write" /\ page' = [kind |-> "redirect", id |-> NoSession]
    BY <1>1, <1>5 DEF Home, Page
  <2>3. /\ page'.id = NoSession /\ handler' \in {"greet", "write"}
        /\ handler' = "greet" => page' = Blank
        /\ page' \in Pages
    BY <2>2, Blanks DEF Pages
  <2> QED BY <1>1, <2>1, <2>3, PageInductive
<1> QED BY <1>2, <1>3, <1>4, <1>5 DEF Dispatch

\* The greeting names the session of the request.
LEMMA GreetInductive ==
    ASSUME IInv, Greet
    PROVE  IInv'
<1>1. /\ handler = "greet" /\ handler' = "write" /\ client \in Browsers
      /\ UNCHANGED <<now, sessions_, given, backlog, client, conn, request, cookie,
                     restarts>>
  BY DEF Greet, IInv, OneAtATime
<1>2. \E id \in {NoSession, sessionId} : page' = [kind |-> "welcome", id |-> id]
  BY DEF Greet, Page
<1>3. page'.id \in {NoSession, sessionId} /\ page' \in Pages
  BY <1>1, <1>2, SessionIdIs DEF Pages
<1> QED BY <1>1, <1>3, PageInductive

\* What the answer does to the cookie of the browser that gets it.
LEMMA CookieSet ==
    ASSUME IInv, NEW b \in Browsers, handler = "write", client = b,
           SetCookie(b) \/ UNCHANGED cookie
    PROVE  /\ cookie' \in [Browsers -> Cookies]
           /\ \A c \in Browsers \ {b} : cookie'[c] = cookie[c]
           /\ \/ cookie'[b] = cookie[b]
              \/ cookie'[b] = NoCookie
              \/ cookie'[b] = [id |-> page.id, expires |-> now + Timeout]
<1>1. cookie \in [Browsers -> Cookies]
  BY DEF IInv, TypeOK
<1>2. [id |-> page.id, expires |-> now + Timeout] \in Cookies
  BY DEF IInv, TypeOK, Pages, Cookies
<1>3. \/ cookie' = cookie
      \/ cookie' = [cookie EXCEPT ![b] = NoCookie]
      \/ cookie' = [cookie EXCEPT ![b] = [id |-> page.id, expires |-> now + Timeout]]
  BY DEF SetCookie
<1> QED BY <1>1, <1>2, <1>3, Blanks

\* The answer may bring the browser the id that was prepared for it.
LEMMA WriteInductive ==
    ASSUME IInv, Write
    PROVE  IInv'
<1>0. PICK b \in Browsers : b = client /\ conn[b] # "none" /\ handler = "write"
  BY DEF Write, IInv, OneAtATime
<1>1. /\ handler' \in {"accept", "dead"} /\ client' = Nobody /\ page' = Blank
      /\ conn' = [conn EXCEPT ![b] = "none"]
      /\ request' = [request EXCEPT ![b] = NoRequest]
      /\ SetCookie(b) \/ UNCHANGED cookie
      /\ UNCHANGED <<now, sessions_, given, backlog, restarts>>
  BY <1>0 DEF Write
<1>2. /\ conn'[b] = "none" /\ \A c \in Browsers \ {b} : conn'[c] = conn[c]
      /\ conn' \in [Browsers -> {"none", "open", "sent", "reset"}]
  BY <1>1 DEF IInv, TypeOK
<1>3. /\ request'[b] = NoRequest /\ \A c \in Browsers \ {b} : request'[c] = request[c]
      /\ request' \in [Browsers -> Requests]
  BY <1>1, Blanks DEF IInv, TypeOK
<1>4. /\ cookie' \in [Browsers -> Cookies]
      /\ \A c \in Browsers \ {b} : cookie'[c] = cookie[c]
      /\ \/ cookie'[b] = cookie[b]
         \/ cookie'[b] = NoCookie
         \/ cookie'[b] = [id |-> page.id, expires |-> now + Timeout]
  BY <1>0, <1>1, CookieSet
<1>5. TypeOK'
  BY <1>1, <1>2, <1>3, <1>4, Blanks DEF IInv, TypeOK
<1>6. \/ cookie'[b] = cookie[b]
      \/ cookie'[b].id = NoSession
      \/ cookie'[b].id = page.id /\ cookie'[b].expires = now + Timeout
  BY <1>4, Blanks
<1>7. EndsInTime'
  <2>1. page.id # NoSession => page.id \in SessionIds /\ Given(page.id)
    BY <1>0, IdsAre, IdsTyped DEF IInv, IdsGivenOut
  <2>2. page.id # NoSession => now + Timeout >= page.id.time + Timeout
    BY <2>1, IdParts DEF Given, IInv, TypeOK
  <2> QED BY <1>1, <1>4, <1>6, <2>2 DEF IInv, EndsInTime
<1>8. ASSUME NEW c \in Browsers, NEW id \in IdsOf(c)'
      PROVE  id \in IdsOf(c)
  <2>1. id # NoSession /\ (\/ id = cookie'[c].id
                           \/ \E pair \in request'[c].header : id = pair.value)
    BY <1>1, <1>8, IdsAre, Blanks
  <2>2. \/ id = cookie[c].id
        \/ \E pair \in request[c].header : id = pair.value
        \/ client = c /\ id = page.id
    BY <1>0, <1>3, <1>4, <1>6, <2>1, Blanks
  <2> QED BY <2>1, <2>2, IdsAre
<1>9. (SeedsRepeat \/ SessionsNotShared') /\ IdsGivenOut'
  BY <1>1, <1>8, SameIds
<1>10. OneAtATime'
  <2>1. \A i \in DOMAIN backlog : backlog[i] \in Browsers \ {b}
    BY <1>0 DEF IInv, OneAtATime, TypeOK
  <2>2. \A i \in DOMAIN backlog' : conn'[backlog'[i]] # "none" /\ backlog'[i] # client'
    BY <1>1, <1>2, <2>1 DEF IInv, OneAtATime
  <2> QED BY <1>1, <1>2, <1>3, <2>2 DEF IInv, OneAtATime
<1>11. Waiting' \subseteq Waiting
  BY <1>0, <1>1, <1>2, <1>3 DEF Waiting, Pending
<1>12. IdsLeft'
  BY <1>1, <1>11, FewerWait
<1> QED BY <1>5, <1>7, <1>9, <1>10, <1>12 DEF IInv

\* A restart forgets the sessions and the connections; what was given out before
\* remains so.
LEMMA RestartInductive ==
    ASSUME IInv, Restart
    PROVE  IInv'
<1>1. /\ sessions_' = EmptyPool /\ backlog' = <<>> /\ client' = Nobody
      /\ handler' = "start" /\ page' = Blank
      /\ restarts' = restarts + 1 /\ restarts < MaxRestarts
      /\ conn' = [b \in Browsers |-> "none"]
      /\ request' = [b \in Browsers |-> NoRequest]
      /\ UNCHANGED <<now, given, cookie>>
  BY DEF Restart
<1>2. DOMAIN sessions_' = {}
  BY <1>1 DEF EmptyPool
<1>3. TypeOK'
  BY <1>1, <1>2, Blanks DEF IInv, TypeOK
<1>4. EndsInTime'
  BY <1>1, <1>2 DEF IInv, EndsInTime
<1>5. \A c \in Browsers : \A id \in IdsOf(c)' : id \in IdsOf(c)
  BY <1>1, Blanks, IdsAre
<1>6. (SeedsRepeat \/ SessionsNotShared') /\ IdsGivenOut'
  BY <1>1, <1>2, <1>5, SameIds
<1>7. OneAtATime'
  BY <1>1 DEF OneAtATime
<1>8. Waiting' \subseteq Waiting
  BY <1>1 DEF Waiting, Pending
<1>9. IdsLeft'
  BY <1>1, <1>8, FewerWait
<1> QED BY <1>3, <1>4, <1>6, <1>7, <1>9 DEF IInv

\* Every step of the program keeps the inductive invariant.
LEMMA NextInductive ==
    ASSUME IInv, [Next]_vars
    PROVE  IInv'
<1>1. CASE UNCHANGED vars
  <2>1. TypeOK' /\ EndsInTime' /\ OneAtATime'
    BY <1>1 DEF vars, IInv, TypeOK, EndsInTime, OneAtATime
  <2>2. (SeedsRepeat \/ SessionsNotShared') /\ IdsGivenOut'
    BY <1>1, IdsAre, SameIds DEF vars
  <2>3. Waiting' \subseteq Waiting /\ created' = created
    BY <1>1 DEF vars, Waiting, Pending
  <2> QED BY <2>1, <2>2, <2>3, FewerWait DEF IInv
<1>2. CASE ServerStep
  BY <1>2, initSocketInductive, AcceptInductive, ReadInductive, DispatchInductive, GreetInductive,
     WriteInductive DEF ServerStep
<1>3. CASE Restart
  BY <1>3, RestartInductive
<1>4. CASE BrowserStep
  BY <1>4, ConnectInductive, SendInductive, ResetInductive DEF BrowserStep
<1>5. CASE Tick
  BY <1>5, TickInductive
<1> QED BY <1>1, <1>2, <1>3, <1>4, <1>5 DEF Next

\* The inductive invariant holds throughout.
THEOREM Invariance == Spec => []IInv
<1>1. Init => IInv
  BY InitInductive
<1>2. IInv /\ [Next]_vars => IInv'
  BY NextInductive
<1> QED BY <1>1, <1>2, PTL DEF Spec

\* Every variable keeps its type, whatever browsers send, however much of it is read
\* and however often the server restarts.
THEOREM TypeCorrect == Spec => []TypeOK
BY Invariance, PTL DEF IInv

\* If random_device repeats no seed within one second, no two browsers ever hold,
\* send or are given the id of the same session.
THEOREM SessionsSeparate ==
    ASSUME ~SeedsRepeat
    PROVE  Spec => []SessionsNotShared
<1>1. IInv => SessionsNotShared
  BY DEF IInv
<1> QED BY <1>1, Invariance, PTL

\* Only an answer of the server or the end of its time takes a browser's cookie.
LEMMA StepKeepsCookies ==
    ASSUME IInv, [Next]_vars, NEW b \in Browsers, cookie'[b] # cookie[b],
           cookie[b].id \in DOMAIN Live'
    PROVE  handler = "write" /\ client = b
<1>1. CASE Tick
  <2>1. /\ now' = now + 1 /\ now \in Nat /\ UNCHANGED sessions_
        /\ cookie[b].expires < now' /\ cookie[b].expires \in Nat
    BY <1>1 DEF Tick, IInv, TypeOK, Cookies
  <2>2. cookie[b].id \in DOMAIN sessions_ /\ sessions_[cookie[b].id] >= now'
    BY <2>1 DEF Live
  <2>3. /\ cookie[b].id \in SessionIds
        /\ sessions_[cookie[b].id] = cookie[b].id.time + Timeout
        /\ cookie[b].id # NoSession
    BY <2>2, IdParts DEF IInv, TypeOK, EndsInTime
  <2>4. cookie[b].expires >= cookie[b].id.time + Timeout
    BY <2>3 DEF IInv, EndsInTime
  <2> QED BY <2>1, <2>2, <2>3, <2>4, IdParts
<1>2. CASE Write
  <2>1. handler = "write" /\ client \in Browsers
    BY <1>2 DEF Write, IInv, OneAtATime
  <2>2. SetCookie(client) \/ UNCHANGED cookie
    BY <1>2 DEF Write
  <2>3. \A c \in Browsers \ {client} : cookie'[c] = cookie[c]
    BY <2>1, <2>2, CookieSet
  <2> QED BY <2>1, <2>3
<1>3. UNCHANGED cookie \/ Tick \/ Write
  BY DEF Next, ServerStep, initSocket, Accept, Read, Dispatch, Greet, Restart, BrowserStep, Connect,
         Send, Reset, vars
<1> QED BY <1>1, <1>2, <1>3

\* No browser drops the cookie of a session that goes on, however late the answer to
\* its login came, but by an answer of the server.
THEOREM CookiesLastLongEnough == Spec => CookieOutlivesSession
<1>1. IInv /\ [Next]_vars =>
         [\A b \in Browsers :
             cookie'[b] # cookie[b] /\ cookie[b].id \in DOMAIN Live'
                => handler = "write" /\ client = b]_vars
  BY StepKeepsCookies
<1> QED BY <1>1, Invariance, PTL DEF Spec, CookieOutlivesSession

-----------------------------------------------------------------------------
(* Nobody is forgotten, and everybody has his turn.                        *)

\* One step of the queue: it keeps its order, and whoever leaves it is served.
QueueMoves ==
    \A i \in DOMAIN backlog :
       \/ i \in DOMAIN backlog' /\ backlog'[i] = backlog[i]
       \/ i > 1 /\ i - 1 \in DOMAIN backlog' /\ backlog'[i - 1] = backlog[i]
       \/ i = 1 /\ client' = backlog[i]

\* One step of the service: who is served is served on or has been closed.
ServiceGoesOn == client # Nobody /\ client' # client => conn'[client] = "none"

\* accept() takes the first of the queue and moves the others up.
LEMMA AcceptMoves ==
    ASSUME IInv, Accept
    PROVE  QueueMoves /\ client = Nobody
<1>1. /\ backlog \in Seq(Browsers) /\ backlog # <<>> /\ backlog' = Tail(backlog)
      /\ client' = Head(backlog) /\ client = Nobody
  BY DEF Accept, IInv, TypeOK, OneAtATime
<1>2. ASSUME NEW i \in DOMAIN backlog, i # 1
      PROVE  i > 1 /\ i - 1 \in DOMAIN backlog' /\ backlog'[i - 1] = backlog[i]
  BY <1>1, <1>2
<1>3. client' = backlog[1]
  BY <1>1
<1> QED BY <1>1, <1>2, <1>3 DEF QueueMoves

\* Whoever connects goes to the end of the queue.
LEMMA ConnectMoves ==
    ASSUME IInv, NEW b \in Browsers, Connect(b)
    PROVE  QueueMoves /\ Queued(b)'
<1>1. /\ DOMAIN backlog = 1..Len(backlog) /\ Len(backlog) \in Nat
      /\ DOMAIN backlog' = 1..(Len(backlog) + 1)
      /\ \A i \in DOMAIN backlog : backlog'[i] = backlog[i]
      /\ backlog'[Len(backlog) + 1] = b
  <2>1. backlog \in Seq(Browsers) /\ backlog' = Append(backlog, b)
    BY DEF Connect, IInv, TypeOK
  <2> QED BY <2>1
<1> QED BY <1>1 DEF QueueMoves, Queued

\* Every step of a living server moves the queue in order and serves on.
LEMMA StepMoves ==
    ASSUME IInv, [Next]_vars, handler # "dead"
    PROVE  QueueMoves /\ ServiceGoesOn
<1>1. CASE Accept
  BY <1>1, AcceptMoves DEF ServiceGoesOn
<1>2. CASE BrowserStep
  <2>1. PICK b \in Browsers : Connect(b) \/ Send(b) \/ Reset(b)
    BY <1>2 DEF BrowserStep
  <2>2. UNCHANGED client
    BY <2>1 DEF Connect, Send, Reset, server
  <2>3. QueueMoves
    BY <2>1, ConnectMoves DEF Send, Reset, QueueMoves
  <2> QED BY <2>2, <2>3 DEF ServiceGoesOn
<1>3. CASE initSocket \/ Read \/ Dispatch \/ Greet \/ Tick \/ UNCHANGED vars
  <2>1. UNCHANGED <<backlog, client>>
    BY <1>3 DEF initSocket, Read, Dispatch, Greet, Tick, server, vars
  <2> QED BY <2>1 DEF QueueMoves, ServiceGoesOn
<1>4. CASE Write
  <2>1. UNCHANGED backlog /\ client \in Browsers
        /\ conn' = [conn EXCEPT ![client] = "none"]
    BY <1>4 DEF Write, IInv, OneAtATime
  <2>2. conn'[client] = "none"
    BY <2>1 DEF IInv, TypeOK
  <2> QED BY <2>1, <2>2 DEF QueueMoves, ServiceGoesOn
<1>5. ~Restart
  BY DEF Restart
<1> QED BY <1>1, <1>2, <1>3, <1>4, <1>5 DEF Next, ServerStep

\* Nobody passes another one in the queue, and the service of a browser ends with
\* the close of its connection.
THEOREM InTurn == Spec => ServedInTurn
<1>1. IInv /\ [Next]_vars =>
         [handler # "dead" => QueueMoves /\ ServiceGoesOn]_vars
  BY StepMoves
<1> QED BY <1>1, Invariance, PTL DEF Spec, ServedInTurn, QueueMoves, ServiceGoesOn

\* What keeps a place in the queue keeps its browser connected.
LEMMA PlaceKept ==
    ASSUME QueueMoves, ServiceGoesOn, Nobody \notin Browsers, NEW b \in Browsers,
           b = client \/ Queued(b), conn'[b] # "none"
    PROVE  b = client' \/ Queued(b)'
<1>1. CASE b = client
  BY <1>1 DEF ServiceGoesOn
<1>2. CASE Queued(b)
  <2>1. PICK i \in DOMAIN backlog : backlog[i] = b
    BY <1>2 DEF Queued
  <2> QED BY <2>1 DEF QueueMoves, Queued
<1> QED BY <1>1, <1>2

\* No connection is dropped between accept() and close(): while the server lives,
\* whoever is connected is queued or being served.
THEOREM EverybodyHandled == Spec => []NobodyForgotten
<1>1. Init => NobodyForgotten
  BY DEF Init, NobodyForgotten
<1>2. ASSUME IInv, NobodyForgotten, [Next]_vars
      PROVE  NobodyForgotten'
  <2> SUFFICES ASSUME handler' # "dead", NEW b \in Browsers, conn'[b] # "none"
               PROVE  b = client' \/ Queued(b)'
    BY DEF NobodyForgotten, Queued
  <2>1. CASE handler = "dead"
    <3>1. CASE Restart
      BY <3>1 DEF Restart
    <3>2. CASE BrowserStep \/ Tick \/ UNCHANGED vars
      BY <2>1, <3>2 DEF BrowserStep, Connect, Send, Reset, Tick, server, vars
    <3>3. ~ServerStep
      BY <2>1 DEF ServerStep, initSocket, Accept, Read, Dispatch, Greet, Write
    <3> QED BY <1>2, <3>1, <3>2, <3>3 DEF Next
  <2>2. CASE handler # "dead" /\ conn[b] # "none"
    BY <1>2, <2>2, StepMoves, PlaceKept, SessionAssumption DEF NobodyForgotten
  <2>3. CASE conn[b] = "none"
    <3>1. PICK c \in Browsers : Connect(c) \/ Send(c) \/ Reset(c)
      <4>1. conn \in [Browsers -> {"none", "open", "sent", "reset"}]
        BY <1>2 DEF IInv, TypeOK
      <4>2. ~ServerStep /\ ~Tick /\ ~Restart /\ ~UNCHANGED vars
        BY <2>3, <4>1 DEF ServerStep, initSocket, Accept, Read, Dispatch, Greet, Write, Tick, Restart, vars
      <4> QED BY <1>2, <4>2 DEF Next, BrowserStep
    <3>2. c = b /\ Connect(c)
      BY <1>2, <2>3, <3>1 DEF Connect, Send, Reset, IInv, TypeOK
    <3> QED BY <1>2, <3>2, ConnectMoves
  <2> QED BY <2>1, <2>2, <2>3
<1>3. IInv /\ NobodyForgotten /\ [Next]_vars => NobodyForgotten'
  BY <1>2
<1> QED BY <1>1, <1>3, Invariance, PTL DEF Spec

-----------------------------------------------------------------------------
(* The pool implements SessionStore.                                       *)

\* The pool and the clock start empty and at zero.
LEMMA InitRefines == Init => Store!Init
BY DEF Init, Store!Init, Live, EmptyPool

\* Nothing shows of a step that changes no session that has not expired.
LEMMA SameSessions ==
    ASSUME UNCHANGED now,
           \A id : id \in DOMAIN sessions_ /\ sessions_[id] >= now
                      <=> id \in DOMAIN sessions_' /\ sessions_'[id] >= now,
           \A id \in DOMAIN sessions_' : sessions_'[id] = sessions_[id]
    PROVE  UNCHANGED <<Live, now>>
BY DEF Live

\* A login opens the session of an id that is new, as long as seeds do not repeat.
LEMMA LoginRefines ==
    ASSUME ~SeedsRepeat, IInv, Dispatch, Login
    PROVE  Store!Next
<1>1. PICK new \in SessionIds : createSession(new)
  BY DEF Login
<1>2. UNCHANGED now /\ now \in Nat /\ drawn \in Nat
  BY DEF Dispatch, IInv, TypeOK
<1>3. /\ new.time = now /\ drawn < new.seed
      /\ sessions_' = [i \in DOMAIN sessions_ \cup {new} |->
                          IF i = new THEN now + Timeout ELSE sessions_[i]]
  BY <1>1, Created DEF createSession, Enter
<1>4. new \notin DOMAIN sessions_
  <2>1. ~Given(new)
    BY <1>2, <1>3, IdParts DEF Given
  <2> QED BY <2>1 DEF IInv, IdsGivenOut
<1>5. new \notin DOMAIN Live
  BY <1>4 DEF Live
<1>6. Live' = [i \in DOMAIN Live \cup {new} |->
                  IF i = new THEN now + Timeout ELSE Live[i]]
  BY <1>2, <1>3, <1>4 DEF Live
<1>7. Store!Login(new)
  BY <1>2, <1>5, <1>6 DEF Store!Login
<1> QED BY <1>7 DEF Store!Next

\* A logout ends the session of the request, if it lives.
LEMMA LogoutRefines ==
    ASSUME IInv, Dispatch, Logout
    PROVE  [Store!Next]_<<Live, now>>
<1>1. PICK id : id = sessionId
  OBVIOUS
<1>2. UNCHANGED now /\ sessions_' = [i \in DOMAIN sessions_ \ {id} |-> sessions_[i]]
  BY <1>1 DEF Dispatch, Logout, destroySession
<1>3. CASE id \in DOMAIN Live
  <2>1. Live' = [i \in DOMAIN Live \ {id} |-> Live[i]]
    BY <1>2 DEF Live
  <2>2. Store!Logout(id)
    BY <1>2, <1>3, <2>1 DEF Store!Logout, Store!Without
  <2> QED BY <1>3, <2>2 DEF Store!Next
<1>4. CASE id \notin DOMAIN Live
  BY <1>2, <1>4, SameSessions DEF Live
<1> QED BY <1>3, <1>4

\* A check of a session forgets it only if it has expired.
LEMMA HomeRefines ==
    ASSUME IInv, Dispatch, Home
    PROVE  UNCHANGED <<Live, now>>
<1>1. PICK id : id = sessionId
  OBVIOUS
<1>2. /\ UNCHANGED now
      /\ \/ UNCHANGED sessions_
         \/ /\ id \in DOMAIN sessions_ /\ sessions_[id] < now
            /\ sessions_' = [i \in DOMAIN sessions_ \ {id} |-> sessions_[i]]
  BY <1>1 DEF Dispatch, Home, afterValidation, destroySession
<1>3. CASE UNCHANGED sessions_
  BY <1>2, <1>3 DEF Live
<1>4. CASE /\ id \in DOMAIN sessions_ /\ sessions_[id] < now
           /\ sessions_' = [i \in DOMAIN sessions_ \ {id} |-> sessions_[i]]
  <2>1. now \in Nat /\ sessions_[id] \in Nat
    BY <1>4 DEF IInv, TypeOK
  <2>2. ~(sessions_[id] >= now)
    BY <1>4, <2>1
  <2> QED BY <1>2, <1>4, <2>2, SameSessions
<1> QED BY <1>2, <1>3, <1>4

\* Time takes the sessions that end with it.
LEMMA TickRefines ==
    ASSUME IInv, Tick
    PROVE  Store!Next
<1>1. /\ now' = now + 1 /\ now \in Nat /\ UNCHANGED sessions_
      /\ \A id \in DOMAIN sessions_ : sessions_[id] \in Nat
  BY DEF Tick, IInv, TypeOK
<1>2. DOMAIN Live' = {id \in DOMAIN Live : Live[id] >= now'}
  BY <1>1 DEF Live
<1>3. Live' = [id \in {i \in DOMAIN Live : Live[i] >= now'} |-> Live[id]]
  BY <1>1, <1>2 DEF Live
<1>4. Store!Tick
  BY <1>1, <1>3 DEF Store!Tick
<1> QED BY <1>4 DEF Store!Next

\* Every step of the program is a step of SessionStore or shows nothing of itself.
LEMMA StepRefines ==
    ASSUME ~SeedsRepeat, IInv, [Next]_vars
    PROVE  [Store!Next]_<<Live, now>>
<1>1. CASE UNCHANGED <<sessions_, now>>
  BY <1>1 DEF Live
<1>2. CASE Dispatch
  <2>1. UNCHANGED <<sessions_, now>> \/ Login \/ Logout \/ Home
    BY <1>2 DEF Dispatch, LoginPage, NotFound
  <2> QED BY <1>1, <1>2, <2>1, LoginRefines, LogoutRefines, HomeRefines
<1>3. CASE Tick
  BY <1>3, TickRefines
<1>4. CASE Restart
  <2>1. UNCHANGED now /\ Live' = [id \in {} |-> 0]
    BY <1>4 DEF Restart, Live, EmptyPool
  <2>2. Store!Restart
    BY <2>1 DEF Store!Restart
  <2> QED BY <2>2 DEF Store!Next
<1>5. UNCHANGED <<sessions_, now>> \/ Dispatch \/ Tick \/ Restart
  BY DEF Next, ServerStep, initSocket, Accept, Read, Greet, Write, BrowserStep, Connect, Send,
         Reset, vars, server
<1> QED BY <1>1, <1>2, <1>3, <1>4, <1>5

\* The pool implements SessionStore for any number of browsers and logins, if
\* random_device repeats no seed within one second: a session lives from its login to
\* its logout, its time or a restart.
THEOREM Refinement ==
    ASSUME ~SeedsRepeat
    PROVE  Spec => ImplementsStore
<1>1. Init => Store!Init
  BY InitRefines
<1>2. IInv /\ [Next]_vars => [Store!Next]_<<Live, now>>
  BY StepRefines
<1> QED BY <1>1, <1>2, Invariance, PTL DEF Spec, ImplementsStore, Store!Spec
=============================================================================
