----------------------------- MODULE PanelProofs -----------------------------
(***************************************************************************)
(* Theorems about the panel around the catalog.                            *)
(*                                                                         *)
(* A change of password leaves no session of before it but those of logins *)
(* that had read the old one: for any number of clients, tokens, names and *)
(* passwords.  And while a lockout lasts the limiter lets no login past    *)
(* that was not on its way when it began: for any number of requests,      *)
(* addresses and records.  And what one form of the settings saves no      *)
(* other undoes: for any number of concurrent forms, tokens and values.    *)
(*                                                                         *)
(* Last, the instances: what the operator is told of one and what is on    *)
(* record agree, for any number of instances, names, operators and         *)
(* concurrent polls.                                                       *)
(***************************************************************************)
EXTENDS Access, Limiter, Settings, Fleet, SequenceTheorems, TLAPS

Password == 0..MaxPassword
Session == [password : Password, late : BOOLEAN, expired : BOOLEAN]
Request == [pc : {"ready", "open", "change"}, password : Password, late : BOOLEAN]

AccessTypeOK ==
    /\ user \in [name : Usernames, hash : Password]
    /\ DOMAIN sessions \subseteq Tokens
    /\ sessions \in [DOMAIN sessions -> Session]
    /\ cookie \in [Clients -> Tokens \cup {NoToken}]
    /\ request \in [Clients -> Request]

\* A login about to open its session has compared the password in force, or is known to be late:
\* without it the session it opens could be of any password.
LoginsKnowThePassword ==
    \A c \in Clients :
        request[c].pc = "open" => request[c].late \/ request[c].password = user.hash

AccessInv == AccessTypeOK /\ LoginsKnowThePassword /\ SessionsKnowThePassword

-----------------------------------------------------------------------------
\* The first password is one, and the request of a client that asks for nothing is one.
LEMMA StartTypes == 0 \in Password /\ NoRequest \in Request
BY AccessAssumption DEF Password, Request, NoRequest

\* A new token is one nobody holds.
LEMMA NewTokenIsUnheld == Unheld # {} => newSessionToken \in Unheld
BY DEF newSessionToken

LEMMA InitAccessInv == AccessInit => AccessInv
<1> SUFFICES ASSUME AccessInit
             PROVE  AccessInv
    OBVIOUS
<1>1. user \in [name : Usernames, hash : Password]
    BY StartTypes, AccessAssumption DEF AccessInit
<1>2. DOMAIN sessions = {} /\ sessions \in [DOMAIN sessions -> Session]
    BY DEF AccessInit
<1> QED
    BY <1>1, <1>2, StartTypes
    DEF AccessInit, AccessInv, AccessTypeOK, LoginsKnowThePassword, SessionsKnowThePassword,
        NoRequest

\* Ending sessions, or seeing that they are past their time, keeps the rest true.
LEMMA FewerSessions ==
    ASSUME AccessTypeOK, SessionsKnowThePassword, NEW S, S \subseteq DOMAIN sessions,
           sessions' = [t \in S |-> sessions[t]], user'.hash = user.hash
    PROVE  /\ DOMAIN sessions' \subseteq Tokens /\ sessions' \in [DOMAIN sessions' -> Session]
           /\ SessionsKnowThePassword'
BY DEF AccessTypeOK, SessionsKnowThePassword

\* One session more, whose password is the one in force, or which is late.
LEMMA OneMoreSession ==
    ASSUME AccessTypeOK, SessionsKnowThePassword, NEW S, S \subseteq DOMAIN sessions,
           NEW t \in Tokens, NEW s \in Session, s.late \/ s.password = user'.hash,
           user'.hash = user.hash,
           sessions' = [x \in S \cup {t} |-> IF x = t THEN s ELSE sessions[x]]
    PROVE  /\ DOMAIN sessions' \subseteq Tokens /\ sessions' \in [DOMAIN sessions' -> Session]
           /\ SessionsKnowThePassword'
BY DEF AccessTypeOK, SessionsKnowThePassword

\* One session in the place of all.
LEMMA TheOnlySession ==
    ASSUME NEW t \in Tokens, NEW s \in Session, s.late \/ s.password = user'.hash,
           sessions' = [x \in {t} |-> s]
    PROVE  /\ DOMAIN sessions' \subseteq Tokens /\ sessions' \in [DOMAIN sessions' -> Session]
           /\ SessionsKnowThePassword'
BY DEF SessionsKnowThePassword

LEMMA StepAccessInv == AccessInv /\ [AccessNext]_accessVars => AccessInv'
<1> SUFFICES ASSUME AccessInv, [AccessNext]_accessVars
             PROVE  AccessInv'
    OBVIOUS
<1> USE DEF AccessInv
<1>1. ASSUME NEW c \in Clients, NEW name \in Usernames, NEW p \in Password,
             handleLoginSubmit(c, name, p)
      PROVE  AccessInv'
    BY <1>1 DEF handleLoginSubmit, AccessTypeOK, Request, NoRequest, LoginsKnowThePassword,
                SessionsKnowThePassword
<1>2. ASSUME NEW c \in Clients, NEW name \in Usernames, handleProfileIdentity(c, name)
      PROVE  AccessInv'
    BY <1>2 DEF handleProfileIdentity, AccessTypeOK, LoginsKnowThePassword, SessionsKnowThePassword
<1>3. ASSUME NEW c \in Clients, NEW p \in Password, handleProfilePassword(c, p)
      PROVE  AccessInv'
    BY <1>3 DEF handleProfilePassword, AccessTypeOK, Request, NoRequest, LoginsKnowThePassword,
                SessionsKnowThePassword
<1>4. ASSUME NEW c \in Clients, NEW p \in Password, ChangePassword(c, p)
      PROVE  AccessInv'
    <2> DEFINE t == newSessionToken
               s == NewSession(p, FALSE)
    <2>1. t \in Tokens /\ s \in Session
        BY <1>4, NewTokenIsUnheld
        DEF ChangePassword, RotatePasswordSession, Unheld, NewSession, Session
    <2>2. user' = [user EXCEPT !.hash = p] /\ cookie' = [cookie EXCEPT ![c] = t]
        BY <1>4 DEF ChangePassword, RotatePasswordSession
    <2>3. sessions' = [x \in {t} |-> s]
        BY <1>4 DEF ChangePassword, RotatePasswordSession, Remaining
    <2>4. s.late \/ s.password = user'.hash
        BY <2>2 DEF NewSession, AccessTypeOK
    <2>5. /\ DOMAIN sessions' \subseteq Tokens /\ sessions' \in [DOMAIN sessions' -> Session]
          /\ SessionsKnowThePassword'
        <3> HIDE DEF t, s
        <3> QED
            BY <2>1, <2>3, <2>4, TheOnlySession
    <2>6. request' = [k \in Clients |->
                          IF k = c THEN NoRequest
                          ELSE [request[k] EXCEPT !.late = @ \/ At(k, "open")]]
        BY <1>4 DEF ChangePassword, RotatePasswordSession
    <2>7. \A k \in Clients \ {c} :
              /\ request'[k] \in Request
              /\ request'[k].pc = request[k].pc
              /\ request[k].pc = "open" => request'[k].late
        BY <2>6 DEF AccessTypeOK, Request, At
    <2>8. request'[c] = NoRequest
        BY <2>6
    <2>9. request' \in [Clients -> Request] /\ LoginsKnowThePassword'
        BY <2>6, <2>7, <2>8, StartTypes DEF LoginsKnowThePassword, NoRequest
    <2> QED
        BY <2>1, <2>2, <2>5, <2>9 DEF AccessTypeOK
<1>5. ASSUME NEW c \in Clients, CreateSession(c)
      PROVE  AccessInv'
    <2>1. /\ UNCHANGED user /\ request' = [request EXCEPT ![c] = NoRequest]
          /\ request[c].pc = "open"
        BY <1>5 DEF CreateSession, Done, At
    <2>2. request' \in [Clients -> Request] /\ LoginsKnowThePassword'
        BY <2>1, StartTypes DEF AccessTypeOK, LoginsKnowThePassword, NoRequest
    <2>3. Unexpired \subseteq DOMAIN sessions
        BY DEF Unexpired
    <2> DEFINE t == newSessionToken
               s == NewSession(request[c].password, request[c].late)
    <2>4. CASE /\ Unheld # {}
               /\ sessions' = [x \in Unexpired \cup {t} |-> IF x = t THEN s ELSE sessions[x]]
               /\ cookie' = [cookie EXCEPT ![c] = t]
        <3>1. t \in Tokens
            BY <2>4, NewTokenIsUnheld DEF Unheld
        <3>2. s \in Session /\ (s.late \/ s.password = user'.hash)
            BY <2>1 DEF NewSession, Session, AccessTypeOK, Request, LoginsKnowThePassword
        <3>3. /\ DOMAIN sessions' \subseteq Tokens /\ sessions' \in [DOMAIN sessions' -> Session]
              /\ SessionsKnowThePassword'
            <4> HIDE DEF t, s
            <4> QED
                BY <2>1, <2>3, <2>4, <3>1, <3>2, OneMoreSession
        <3> QED
            BY <2>1, <2>2, <2>4, <3>1, <3>3 DEF AccessTypeOK
    <2>5. CASE sessions' \in {sessions, Only(Unexpired)} /\ UNCHANGED cookie
        <3>1. PICK S \in SUBSET DOMAIN sessions : sessions' = [x \in S |-> sessions[x]]
            BY <2>3, <2>5 DEF Only, AccessTypeOK
        <3> QED
            BY <2>1, <2>2, <2>5, <3>1, FewerSessions DEF AccessTypeOK
    <2> QED
        BY <1>5, <2>4, <2>5 DEF CreateSession
<1>6. ASSUME NEW c \in Clients, ChangeFails(c)
      PROVE  AccessInv'
    BY <1>6, StartTypes
    DEF ChangeFails, Done, AccessTypeOK, LoginsKnowThePassword, SessionsKnowThePassword, NoRequest
<1>7. ASSUME NEW c \in Clients, TurnedAway(c)
      PROVE  AccessInv'
    <2>1. PICK S \in SUBSET DOMAIN sessions : sessions' = [x \in S |-> sessions[x]]
        BY <1>7 DEF TurnedAway, Without, AccessTypeOK
    <2> QED
        BY <1>7, <2>1, FewerSessions DEF TurnedAway, AccessTypeOK, LoginsKnowThePassword
<1>8. ASSUME NEW c \in Clients, handleLogout(c)
      PROVE  AccessInv'
    <2>1. PICK S \in SUBSET DOMAIN sessions : sessions' = [x \in S |-> sessions[x]]
        BY <1>8 DEF handleLogout, Without, AccessTypeOK
    <2> QED
        BY <1>8, <2>1, FewerSessions DEF handleLogout, AccessTypeOK, LoginsKnowThePassword
<1>9. ASSUME NEW t \in DOMAIN sessions, SessionExpires(t)
      PROVE  AccessInv'
    <2>1. sessions' = [sessions EXCEPT ![t] = [sessions[t] EXCEPT !.expired = TRUE]]
        BY <1>9 DEF SessionExpires
    <2>2. /\ sessions'[t].password = sessions[t].password /\ sessions'[t].late = sessions[t].late
          /\ sessions'[t] \in Session
        BY <2>1 DEF AccessTypeOK, Session
    <2> QED
        BY <1>9, <2>1, <2>2
        DEF SessionExpires, AccessTypeOK, LoginsKnowThePassword, SessionsKnowThePassword
<1>10. CASE UNCHANGED accessVars
    BY <1>10 DEF accessVars, AccessTypeOK, LoginsKnowThePassword, SessionsKnowThePassword
<1> QED
    BY <1>1, <1>2, <1>3, <1>4, <1>5, <1>6, <1>7, <1>8, <1>9, <1>10 DEF AccessNext, Password

\* Every session on record was opened with the password in force, or by a login that had read the
\* one before the change: whatever the number of browsers and however their requests interleave
\* (handleLoginSubmit against RotatePasswordSession).
THEOREM SessionsFollowThePassword == AccessSpec => []SessionsKnowThePassword
<1>1. AccessInv => SessionsKnowThePassword
    BY DEF AccessInv
<1> QED
    BY <1>1, InitAccessInv, StepAccessInv, PTL DEF AccessSpec

-----------------------------------------------------------------------------
(* The limiter.                                                            *)

Failures == [count : Nat, older : SUBSET Addresses, old : BOOLEAN, locked : BOOLEAN]

Records(recs) == DOMAIN recs \subseteq Addresses /\ recs \in [DOMAIN recs -> Failures]

LimiterTypeOK ==
    /\ Records(byIP)
    /\ login \in [Logins -> Addresses \cup {Out}]
    /\ lockout \in [Addresses -> {"none", "lasts", "cut"}]
    /\ early \in [Addresses -> SUBSET Logins]

Coming(ip) == {l \in Logins : login[l] = ip}

LockedIn(recs, ip) == ip \in DOMAIN recs /\ recs[ip].locked

\* Of an address whose lockout lasts there is a record that says so, which no pruning may drop and
\* no failure may begin anew without cutting the lockout short.
LockoutIsOnRecord == \A ip \in Addresses : lockout[ip] = "lasts" => LockedIn(byIP, ip)

LimiterInv == LimiterTypeOK /\ LockoutIsOnRecord /\ FewComparedWhileShutOut

\* Deleting records changes nothing of those that stay but who failed before them.
LEMMA KeepKeeps ==
    ASSUME NEW recs, Records(recs), NEW ips, ips \subseteq DOMAIN recs
    PROVE  /\ Records(Keep(recs, ips)) /\ DOMAIN Keep(recs, ips) = ips
           /\ \A ip \in ips : /\ Keep(recs, ips)[ip].locked = recs[ip].locked
                              /\ Keep(recs, ips)[ip].old = recs[ip].old
                              /\ Keep(recs, ips)[ip].older = recs[ip].older \cap ips
BY DEF Records, Keep, Failures

\* Pruning spares the record of a lockout that is not over, unless it is the oldest at the limit.
LEMMA PruneSpares ==
    ASSUME Records(byIP)
    PROVE  /\ Records(prune(byIP)) /\ DOMAIN prune(byIP) \subseteq DOMAIN byIP
           /\ \A ip \in DOMAIN prune(byIP) : /\ prune(byIP)[ip].locked = byIP[ip].locked
                                             /\ prune(byIP)[ip].old = byIP[ip].old
           /\ \A ip : LockedIn(byIP, ip) /\ ip \notin CrowdedOut => LockedIn(prune(byIP), ip)
<1>. DEFINE valid == {ip \in DOMAIN byIP : ~byIP[ip].old \/ byIP[ip].locked}
            kept  == Keep(byIP, valid)
            rest  == {ip \in DOMAIN kept : kept[ip].older # {}}
<1>1. /\ Records(kept) /\ DOMAIN kept = valid
      /\ \A ip \in valid : /\ kept[ip].locked = byIP[ip].locked
                           /\ kept[ip].old = byIP[ip].old
                           /\ kept[ip].older = byIP[ip].older \cap valid
  BY KeepKeeps
<1>. HIDE DEF kept
<1>2. /\ Records(Keep(kept, rest)) /\ DOMAIN Keep(kept, rest) = rest
      /\ \A ip \in rest : /\ Keep(kept, rest)[ip].locked = kept[ip].locked
                          /\ Keep(kept, rest)[ip].old = kept[ip].old
  BY <1>1, KeepKeeps
<1>3. \/ prune(byIP) = kept
      \/ ~(Cardinality(valid) < MaxEntries) /\ prune(byIP) = Keep(kept, rest)
  BY <1>1 DEF prune, kept
<1>4. \A ip : LockedIn(byIP, ip) => ip \in valid
  BY DEF LockedIn
<1>5. \A ip \in valid : ~(Cardinality(valid) < MaxEntries) /\ ip \notin CrowdedOut => ip \in rest
  BY <1>1 DEF CrowdedOut
<1>. QED  BY <1>1, <1>2, <1>3, <1>4, <1>5 DEF LockedIn

\* One failure more on a record: what is locked stays so.
LEMMA CountedOne ==
    ASSUME NEW r \in Failures
    PROVE  Counted(r) \in Failures /\ (r.locked => Counted(r).locked)
<1>1. Least(r.count + 1, MaxFailures) \in Nat
  BY LimiterAssumption DEF Least, Failures
<1>2. (r.locked \/ r.count + 1 >= MaxFailures) \in BOOLEAN
  OBVIOUS
<1>. QED  BY <1>1, <1>2 DEF Counted, Failures

\* Failing once more: of any other address nothing changes, and of this one a lockout stays on
\* record unless its record is past its window.
LEMMA FailKeeps ==
    ASSUME NEW recs, Records(recs), NEW ip \in Addresses
    PROVE  /\ Records(fail(recs, ip))
           /\ \A a : a # ip /\ LockedIn(recs, a) => LockedIn(fail(recs, ip), a)
           /\ ip \in DOMAIN fail(recs, ip)
           /\ LockedIn(recs, ip) /\ ~recs[ip].old => fail(recs, ip)[ip].locked
<1>1. CASE Begun(recs, ip)
  <2>1. ip \in DOMAIN recs /\ recs[ip] \in Failures
    BY <1>1 DEF Begun, Records
  <2>2. fail(recs, ip) = [recs EXCEPT ![ip] = Counted(recs[ip])]
    BY <1>1 DEF fail
  <2>. QED  BY <2>1, <2>2, CountedOne DEF Records, LockedIn
<1>2. CASE ~Begun(recs, ip)
  <2>. DEFINE rest == reset(recs, ip)
              new  == Counted(NewRecord(DOMAIN rest))
  <2>1. /\ Records(rest) /\ DOMAIN rest = DOMAIN recs \ {ip}
        /\ \A a \in DOMAIN rest : rest[a].locked = recs[a].locked
    BY KeepKeeps DEF reset
  <2>2. fail(recs, ip) = [a \in DOMAIN rest \cup {ip} |-> IF a = ip THEN new ELSE rest[a]]
    BY <1>2 DEF fail
  <2>3. NewRecord(DOMAIN rest) \in Failures
    BY <2>1 DEF NewRecord, Failures, Records
  <2>4. new \in Failures
    BY <2>3, CountedOne
  <2>5. LockedIn(recs, ip) => recs[ip].old
    BY <1>2 DEF Begun, LockedIn
  <2>. HIDE DEF rest, new
  <2>. QED  BY <2>1, <2>2, <2>4, <2>5 DEF Records, LockedIn
<1>. QED  BY <1>1, <1>2

\* A lockout lasts on while it is not among those cut short.
LEMMA CutShortCuts ==
    ASSUME LimiterTypeOK, NEW ips
    PROVE  /\ CutShort(ips) \in [Addresses -> {"none", "lasts", "cut"}]
           /\ \A ip \in Addresses :
                 CutShort(ips)[ip] = "lasts" => lockout[ip] = "lasts" /\ ip \notin ips
BY DEF CutShort, LimiterTypeOK

\* A login that ends is no longer on its way, and of no other address does anything change.
LEMMA OneEnds ==
    ASSUME LimiterTypeOK, NEW l \in Logins, login[l] # Out, login' = [login EXCEPT ![l] = Out]
    PROVE  /\ login[l] \in Addresses /\ login' \in [Logins -> Addresses \cup {Out}]
           /\ \A a \in Addresses : Coming(a)' = Coming(a) \ {l}
<1>1. \A k \in Logins : login'[k] = IF k = l THEN Out ELSE login[k]
  BY DEF LimiterTypeOK
<1>2. \A a \in Addresses, k \in Logins : login'[k] = a <=> login[k] = a /\ k # l
  BY <1>1, LimiterAssumption
<1>. QED  BY <1>1, <1>2 DEF LimiterTypeOK, Coming

LEMMA InitLimiterInv == LimiterInit => LimiterInv
BY DEF LimiterInit, LimiterInv, LimiterTypeOK, LockoutIsOnRecord, FewComparedWhileShutOut, Records

LEMMA StepLimiterInv == LimiterInv /\ [LimiterNext]_limiterVars => LimiterInv'
<1> SUFFICES ASSUME LimiterInv, [LimiterNext]_limiterVars PROVE LimiterInv'
  OBVIOUS
<1>. USE DEF LimiterInv
<1>1. /\ LimiterTypeOK /\ Records(byIP) /\ LockoutIsOnRecord
      /\ \A a \in Addresses : lockout[a] = "lasts" => Coming(a) \subseteq early[a]
  BY DEF LimiterTypeOK, FewComparedWhileShutOut, Coming
<1>2. ASSUME \A a \in Addresses : (lockout[a] = "lasts")' => (Coming(a) \subseteq early[a])'
      PROVE  FewComparedWhileShutOut'
  BY <1>2 DEF FewComparedWhileShutOut, Coming
<1>3. ASSUME NEW l \in Logins, NEW ip \in Addresses, AskLimiter(l, ip) PROVE LimiterInv'
  <2>1. /\ byIP' = prune(byIP) /\ login[l] = Out /\ UNCHANGED early
        /\ login' = IF blocked(byIP', ip) THEN login ELSE [login EXCEPT ![l] = ip]
        /\ lockout' = CutShort(CrowdedOut)
    BY <1>3 DEF AskLimiter
  <2>2. LimiterTypeOK'
    BY <1>1, <2>1, PruneSpares, CutShortCuts DEF LimiterTypeOK
  <2>3. LockoutIsOnRecord'
    BY <1>1, <2>1, PruneSpares, CutShortCuts DEF LockoutIsOnRecord, LockedIn
  <2>4. ASSUME NEW a \in Addresses, (lockout[a] = "lasts")'
        PROVE  (Coming(a) \subseteq early[a])'
    <3>1. lockout[a] = "lasts" /\ LockedIn(byIP', a)
      BY <1>1, <2>1, <2>3, <2>4, CutShortCuts DEF LockoutIsOnRecord, LockedIn
    <3>2. login'[l] = a => login' = login
      BY <1>1, <2>1, <3>1, LimiterAssumption DEF LimiterTypeOK, blocked, LockedIn
    <3>3. Coming(a)' \subseteq Coming(a)
      BY <1>1, <2>1, <3>2 DEF Coming, LimiterTypeOK
    <3>. QED  BY <1>1, <2>1, <3>1, <3>3
  <2>. QED  BY <1>2, <2>2, <2>3, <2>4
<1>4. ASSUME NEW l \in Logins, WrongPassword(l) PROVE LimiterInv'
  <2>. DEFINE ip         == login[l]
              remembered == CutShort(CrowdedOut \cup Replaced(ip))
              begins     == byIP'[ip].locked /\ remembered[ip] # "lasts"
  <2>1. /\ byIP' = fail(prune(byIP), ip) /\ login[l] # Out /\ login' = [login EXCEPT ![l] = Out]
        /\ lockout' = IF begins THEN [remembered EXCEPT ![ip] = "lasts"] ELSE remembered
        /\ early' = [early EXCEPT ![ip] = (IF begins THEN Coming(ip) ELSE early[ip]) \ {l}]
    BY <1>4 DEF WrongPassword, Told, Coming
  <2>2. /\ ip \in Addresses /\ login' \in [Logins -> Addresses \cup {Out}]
        /\ \A a \in Addresses : Coming(a)' = Coming(a) \ {l}
    BY <1>1, <2>1, OneEnds
  <2>3. /\ remembered \in [Addresses -> {"none", "lasts", "cut"}]
        /\ \A a \in Addresses : remembered[a] = "lasts" =>
              lockout[a] = "lasts" /\ a \notin CrowdedOut /\ a \notin Replaced(ip)
    BY <1>1, CutShortCuts
  <2>. HIDE DEF remembered
  <2>4. /\ Records(byIP') /\ ip \in DOMAIN byIP'
        /\ \A a : a # ip /\ LockedIn(prune(byIP), a) => LockedIn(byIP', a)
        /\ LockedIn(prune(byIP), ip) /\ ~prune(byIP)[ip].old => byIP'[ip].locked
    BY <1>1, <2>1, <2>2, PruneSpares, FailKeeps
  <2>5. \A a \in Addresses : remembered[a] = "lasts" => LockedIn(byIP', a)
    <3>. SUFFICES ASSUME NEW a \in Addresses, remembered[a] = "lasts"
                  PROVE  LockedIn(byIP', a)
      OBVIOUS
    <3>1. LockedIn(byIP, a) /\ LockedIn(prune(byIP), a)
      BY <1>1, <2>3, PruneSpares DEF LockoutIsOnRecord
    <3>2. CASE a = ip
      <4>1. ~byIP[ip].old
        BY <2>3, <3>1, <3>2 DEF Replaced, LockedIn
      <4>2. ~prune(byIP)[ip].old
        BY <1>1, <3>1, <3>2, <4>1, PruneSpares DEF LockedIn
      <4>. QED  BY <2>4, <3>1, <3>2, <4>2 DEF LockedIn
    <3>. QED  BY <2>4, <3>1, <3>2
  <2>6. LimiterTypeOK'
    <3>1. lockout' \in [Addresses -> {"none", "lasts", "cut"}]
      BY <2>1, <2>2, <2>3
    <3>2. early' \in [Addresses -> SUBSET Logins]
      BY <1>1, <2>1, <2>2 DEF LimiterTypeOK, Coming
    <3>. QED  BY <2>2, <2>4, <3>1, <3>2 DEF LimiterTypeOK
  <2>7. \A a \in Addresses : (lockout[a] = "lasts")' =>
            \/ remembered[a] = "lasts" /\ (a = ip => ~begins)
            \/ a = ip /\ begins
    BY <2>1, <2>2, <2>3
  <2>8. LockoutIsOnRecord'
    BY <2>4, <2>5, <2>7 DEF LockoutIsOnRecord, LockedIn
  <2>9. ASSUME NEW a \in Addresses, (lockout[a] = "lasts")'
        PROVE  (Coming(a) \subseteq early[a])'
    <3>1. CASE remembered[a] = "lasts" /\ (a = ip => ~begins)
      <4>1. Coming(a) \subseteq early[a]
        BY <1>1, <2>3, <3>1
      <4>2. early'[a] = IF a = ip THEN early[a] \ {l} ELSE early[a]
        BY <1>1, <2>1, <3>1 DEF LimiterTypeOK
      <4>. QED  BY <2>2, <4>1, <4>2
    <3>2. CASE a = ip /\ begins
      <4>1. early'[a] = Coming(a) \ {l}
        BY <1>1, <2>1, <3>2 DEF LimiterTypeOK
      <4>. QED  BY <2>2, <4>1
    <3>. QED  BY <2>7, <2>9, <3>1, <3>2
  <2>. QED  BY <1>2, <2>6, <2>8, <2>9
<1>5. ASSUME NEW l \in Logins, RightPassword(l) PROVE LimiterInv'
  <2>. DEFINE ip == login[l]
  <2>1. /\ byIP' = reset(byIP, ip) /\ login[l] # Out /\ login' = [login EXCEPT ![l] = Out]
        /\ lockout' = [lockout EXCEPT ![ip] = "none"] /\ early' = [early EXCEPT ![ip] = {}]
    BY <1>5 DEF RightPassword, Told
  <2>2. /\ ip \in Addresses /\ login' \in [Logins -> Addresses \cup {Out}]
        /\ \A a \in Addresses : Coming(a)' = Coming(a) \ {l}
    BY <1>1, <2>1, OneEnds
  <2>3. /\ Records(byIP') /\ DOMAIN byIP' = DOMAIN byIP \ {ip}
        /\ \A a \in DOMAIN byIP' : byIP'[a].locked = byIP[a].locked
    BY <1>1, <2>1, KeepKeeps DEF reset
  <2>4. \A a \in Addresses : (lockout[a] = "lasts")' =>
            a # ip /\ lockout[a] = "lasts" /\ early'[a] = early[a]
    BY <1>1, <2>1, <2>2 DEF LimiterTypeOK
  <2>5. LimiterTypeOK'
    BY <1>1, <2>1, <2>2, <2>3 DEF LimiterTypeOK
  <2>6. LockoutIsOnRecord'
    BY <1>1, <2>3, <2>4 DEF LockoutIsOnRecord, LockedIn
  <2>. QED  BY <1>1, <1>2, <2>2, <2>4, <2>5, <2>6
<1>6. ASSUME NEW ip \in Addresses, LockoutEnds(ip) PROVE LimiterInv'
  <2>1. /\ UNCHANGED login
        /\ lockout' = [lockout EXCEPT ![ip] = "none"] /\ early' = [early EXCEPT ![ip] = {}]
    BY <1>6 DEF LockoutEnds
  <2>2. /\ Records(byIP') /\ DOMAIN byIP' = DOMAIN byIP
        /\ \A a \in DOMAIN byIP : a # ip => byIP'[a].locked = byIP[a].locked
    BY <1>1, <1>6 DEF LockoutEnds, Records, Failures
  <2>3. \A a \in Addresses : (lockout[a] = "lasts")' =>
            a # ip /\ lockout[a] = "lasts" /\ early'[a] = early[a]
    BY <1>1, <2>1 DEF LimiterTypeOK
  <2>4. LimiterTypeOK'
    BY <1>1, <2>1, <2>2 DEF LimiterTypeOK
  <2>5. LockoutIsOnRecord'
    BY <1>1, <2>2, <2>3 DEF LockoutIsOnRecord, LockedIn
  <2>6. \A a : Coming(a)' = Coming(a)
    BY <2>1 DEF Coming
  <2>. QED  BY <1>1, <1>2, <2>3, <2>4, <2>5, <2>6
<1>7. ASSUME NEW ip \in DOMAIN byIP, WindowPasses(ip) PROVE LimiterInv'
  <2>1. Records(byIP') /\ \A a : LockedIn(byIP, a) => LockedIn(byIP', a)
    BY <1>1, <1>7 DEF WindowPasses, Records, Failures, LockedIn
  <2>2. UNCHANGED <<login, lockout, early>>
    BY <1>7 DEF WindowPasses
  <2>. QED
    BY <1>1, <2>1, <2>2 DEF LimiterTypeOK, LockoutIsOnRecord, FewComparedWhileShutOut, LockedIn
<1>8. ASSUME NEW l \in Logins, LookupFails(l) PROVE LimiterInv'
  <2>1. /\ byIP' = byIP /\ login[l] # Out /\ login' = [login EXCEPT ![l] = Out]
        /\ lockout' = lockout /\ early' = [early EXCEPT ![login[l]] = early[login[l]] \ {l}]
    BY <1>8 DEF LookupFails, Told
  <2>2. /\ login[l] \in Addresses /\ login' \in [Logins -> Addresses \cup {Out}]
        /\ \A a \in Addresses : Coming(a)' = Coming(a) \ {l}
    BY <1>1, <2>1, OneEnds
  <2>3. /\ early' \in [Addresses -> SUBSET Logins]
        /\ \A a \in Addresses : early[a] \ {l} \subseteq early'[a]
    BY <1>1, <2>1, <2>2 DEF LimiterTypeOK
  <2>4. LimiterTypeOK' /\ LockoutIsOnRecord'
    BY <1>1, <2>1, <2>2, <2>3 DEF LimiterTypeOK, LockoutIsOnRecord, Records, LockedIn
  <2>. QED  BY <1>1, <1>2, <2>1, <2>2, <2>3, <2>4
<1>9. CASE UNCHANGED limiterVars
  BY <1>9 DEF limiterVars, LimiterTypeOK, LockoutIsOnRecord, FewComparedWhileShutOut, Records,
              LockedIn
<1>. QED  BY <1>3, <1>4, <1>5, <1>6, <1>7, <1>8, <1>9 DEF LimiterNext

\* However many requests ask the limiter and tell it at the same time, while a lockout lasts only
\* those that were comparing a password of the address when it began can still do so, unless a
\* right password ended it or the limiter itself cut it short: at its limit, or by a failure past
\* the window of the record.
THEOREM ShutOutMeansShutOut == LimiterSpec => []FewComparedWhileShutOut
<1>1. LimiterInv => FewComparedWhileShutOut
  BY DEF LimiterInv
<1>. QED  BY <1>1, InitLimiterInv, StepLimiterInv, PTL DEF LimiterSpec

-----------------------------------------------------------------------------
(* The forms of the settings: what one saves no other undoes.              *)

Row == [identity : Values, label : Values, channel : Values, raw : Values,
        token : {"none", "valid", "revoked"}, applied : Hashes, access : Lists]
FormState ==
    [pc : {"ready", "reload"}] \cup [pc : {"identity", "rename"}, copy : Row]
    \cup [pc : {"swap"}, list : Lists] \cup [pc : {"revoke"}, known : SUBSET TokenIds]

SettingsTypeOK ==
    /\ row \in Row
    /\ tokens \in [TokenIds -> {"not yet", "valid", "expired", "revoked"}]
    /\ accessList \in Lists
    /\ form \in [Forms -> FormState]
    /\ wrote \in [access : Lists, applied : Hashes]
    /\ raced \in BOOLEAN
    /\ refused \subseteq TokenIds \cup {Legacy}

RowIsWhatWasSaved == row.access = wrote.access /\ row.applied = wrote.applied

\* Until two saves meet at most one form reloads the list, and it holds the saved one.
CacheFollows ==
    ~raced =>
        /\ \A f, g \in Reloading : f = g
        /\ \A f \in Forms : Doing(f, "swap") => form[f].list = row.access
        /\ Reloading = {} => accessList = row.access

\* A revoked token stays so: an id is not given twice.
RevokedStays ==
    /\ \A t \in refused \ {Legacy} : tokens[t] = "revoked"
    /\ Legacy \in refused => row.token # "valid"

\* What a form is about to revoke was made: else it would be reported, and made later.
KnownWereMade ==
    \A f \in Forms : Doing(f, "revoke") => \A t \in form[f].known : tokens[t] # "not yet"

SettingsInv ==
    SettingsTypeOK /\ RowIsWhatWasSaved /\ CacheFollows /\ RevokedStays /\ KnownWereMade

-----------------------------------------------------------------------------
\* The invariant says what the property does.
LEMMA SettingsInvImplies == SettingsInv => SettingsStay
BY SettingsAssumption
DEF SettingsInv, SettingsTypeOK, RowIsWhatWasSaved, CacheFollows, RevokedStays, SettingsStay,
    VerifyInstanceAPIToken, Legacy

LEMMA InitSettingsInv == SettingsInit => SettingsInv
<1> SUFFICES ASSUME SettingsInit
             PROVE  SettingsInv
    OBVIOUS
<1>1. SettingsTypeOK /\ RowIsWhatWasSaved
    BY SettingsAssumption
    DEF SettingsInit, SettingsTypeOK, RowIsWhatWasSaved, Row, FormState, Rest
<1>2. CacheFollows /\ RevokedStays /\ KnownWereMade
    BY DEF SettingsInit, CacheFollows, RevokedStays, KnownWereMade, Reloading, Doing, Rest
<1> QED
    BY <1>1, <1>2 DEF SettingsInv

\* The forms are what they were but for f, which goes on to a state of a form.
LEMMA FormMoves ==
    ASSUME SettingsTypeOK, NEW f \in Forms, NEW next \in FormState, Goes(f, next)
    PROVE  /\ form' \in [Forms -> FormState]
           /\ form'[f] = next
           /\ \A g \in Forms \ {f} : form'[g] = form[g]
BY DEF SettingsTypeOK, Goes

\* A step that changes neither the list saved nor who reloads leaves the cache to its reader.
LEMMA CacheUndisturbed ==
    ASSUME CacheFollows, row'.access = row.access, UNCHANGED <<accessList, raced>>,
           \A g \in Forms : \/ form'[g] = form[g]
                            \/ /\ form[g].pc \notin {"reload", "swap"}
                               /\ form'[g].pc \notin {"reload", "swap"}
    PROVE  CacheFollows'
BY DEF CacheFollows, Reloading, Doing

\* What revoking some tokens does to each.
LEMMA RevokedTokens ==
    ASSUME NEW ts, tokens' = Revoked(ts)
    PROVE  \A t \in TokenIds :
               \/ tokens[t] # "not yet" /\ tokens'[t] = "revoked"
               \/ tokens'[t] = tokens[t] /\ (t \in ts => tokens[t] = "not yet")
BY DEF Revoked

\* No token is unmade, and no form begins to revoke.
LEMMA KnownStayMade ==
    ASSUME KnownWereMade,
           \A t \in TokenIds : tokens'[t] = tokens[t] \/ tokens'[t] # "not yet",
           \A g \in Forms : form'[g] = form[g] \/ form'[g].pc # "revoke",
           \A g \in Forms : Doing(g, "revoke") => form[g].known \subseteq TokenIds
    PROVE  KnownWereMade'
BY DEF KnownWereMade, Doing

LEMMA StepSettingsInv == SettingsInv /\ [SettingsNext]_settingsVars => SettingsInv'
<1> SUFFICES ASSUME SettingsInv, [SettingsNext]_settingsVars
             PROVE  SettingsInv'
    OBVIOUS
<1>a. SettingsTypeOK /\ RowIsWhatWasSaved /\ CacheFollows /\ RevokedStays /\ KnownWereMade
    BY DEF SettingsInv
<1>b. \A g \in Forms : Doing(g, "revoke") => form[g].known \subseteq TokenIds
    BY <1>a DEF SettingsTypeOK, FormState, Doing
<1>c. Legacy \notin TokenIds
    BY SettingsAssumption DEF Legacy
<1>1. ASSUME NEW f \in Forms, NEW page \in {"identity", "rename"}, OpenRow(f, page)
      PROVE  SettingsInv'
    <2> DEFINE next == [pc |-> page, copy |-> row]
    <2>1. next \in FormState /\ Goes(f, next)
        BY <1>1, <1>a DEF OpenRow, SettingsTypeOK, FormState
    <2>2. /\ form' \in [Forms -> FormState] /\ form'[f] = next
          /\ \A g \in Forms \ {f} : form'[g] = form[g]
        BY <2>1, <1>a, FormMoves
    <2>3. CacheFollows'
        BY <1>1, <1>a, <2>2, CacheUndisturbed DEF OpenRow, Ready
    <2>4. SettingsTypeOK'
        BY <1>1, <1>a, <2>2, <2>3 DEF OpenRow, SettingsTypeOK
    <2>5. RowIsWhatWasSaved'
        BY <1>1, <1>a, <2>2, <2>3 DEF OpenRow, RowIsWhatWasSaved
    <2>6. RevokedStays'
        BY <1>1, <1>a, <2>2, <2>3 DEF OpenRow, RevokedStays
    <2>7. KnownWereMade'
        BY <1>1, <1>a, <2>2, <2>3, <1>b, KnownStayMade DEF OpenRow
    <2> QED
        BY <2>4, <2>5, <2>6, <2>7, <2>3 DEF SettingsInv
<1>2. ASSUME NEW f \in Forms, NEW v \in Values, NEW w \in Values, SaveSettings(f, v, w)
      PROVE  SettingsInv'
    <2>1. Rest \in FormState /\ Goes(f, Rest) /\ form[f].copy \in Row
        BY <1>2, <1>a DEF SaveSettings, SettingsTypeOK, FormState, Rest, Doing
    <2>2. /\ form' \in [Forms -> FormState] /\ form'[f] = Rest
          /\ \A g \in Forms \ {f} : form'[g] = form[g]
        BY <2>1, <1>a, FormMoves
    <2>3. /\ row' \in Row /\ row'.access = row.access /\ row'.applied = row.applied
          /\ row'.token = form[f].copy.token
        BY <1>2, <1>a, <2>1 DEF SaveSettings, ColumnsSaved, Edited, SettingsTypeOK, Row
    <2>4. CacheFollows'
        BY <1>2, <1>a, <2>2, <2>3, CacheUndisturbed DEF SaveSettings, Rest, Doing
    <2>5. SettingsTypeOK'
        BY <1>2, <1>a, <2>2, <2>3, <2>4 DEF SaveSettings, SettingsTypeOK
    <2>6. RowIsWhatWasSaved'
        BY <1>2, <1>a, <2>2, <2>3, <2>4 DEF SaveSettings, RowIsWhatWasSaved
    <2>7. RevokedStays'
        BY <1>2, <1>a, <2>2, <2>3, <2>4 DEF SaveSettings, RevokedStays
    <2>8. KnownWereMade'
        BY <1>2, <1>a, <2>2, <2>3, <2>4, <1>b, KnownStayMade DEF SaveSettings, Rest
    <2> QED
        BY <2>5, <2>6, <2>7, <2>8, <2>4 DEF SettingsInv
<1>3. ASSUME NEW f \in Forms, NEW v \in Values, SaveRawConfig(f, v) \/ SaveUpdateChannel(f, v)
      PROVE  SettingsInv'
    <2>1. /\ row' \in Row /\ row'.access = row.access /\ row'.applied = row.applied
          /\ row'.token = row.token
        BY <1>3, <1>a DEF SaveRawConfig, SaveUpdateChannel, SettingsTypeOK, Row
    <2>2. CacheFollows'
        BY <1>3, <1>a, <2>1, CacheUndisturbed DEF SaveRawConfig, SaveUpdateChannel
    <2>3. SettingsTypeOK'
        BY <1>3, <1>a, <2>1, <2>2 DEF SaveRawConfig, SaveUpdateChannel, SettingsTypeOK
    <2>4. RowIsWhatWasSaved'
        BY <1>3, <1>a, <2>1, <2>2 DEF SaveRawConfig, SaveUpdateChannel, RowIsWhatWasSaved
    <2>5. RevokedStays'
        BY <1>3, <1>a, <2>1, <2>2 DEF SaveRawConfig, SaveUpdateChannel, RevokedStays
    <2>6. KnownWereMade'
        BY <1>3, <1>a, <2>1, <2>2, <1>b, KnownStayMade DEF SaveRawConfig, SaveUpdateChannel
    <2> QED
        BY <2>3, <2>4, <2>5, <2>6, <2>2 DEF SettingsInv
<1>4. ASSUME NEW f \in Forms, NEW l \in Lists, SaveAccessWhitelist(f, l)
      PROVE  SettingsInv'
    <2> DEFINE next == [pc |-> "reload"]
    <2>1. next \in FormState /\ Goes(f, next)
        BY <1>4 DEF SaveAccessWhitelist, FormState
    <2>2. /\ form' \in [Forms -> FormState] /\ form'[f] = next
          /\ \A g \in Forms \ {f} : form'[g] = form[g]
        BY <2>1, <1>a, FormMoves
    <2>3. /\ row' \in Row /\ row'.access = l /\ row'.applied = row.applied
          /\ row'.token = row.token
        BY <1>4, <1>a DEF SaveAccessWhitelist, SettingsTypeOK, Row
    <2>4. CacheFollows'
        <3> SUFFICES ASSUME ~raced'
                     PROVE  CacheFollows'
            BY DEF CacheFollows
        <3>1. Reloading = {}
            BY <1>4 DEF SaveAccessWhitelist
        <3>2. Reloading' = {f}
            BY <3>1, <2>2 DEF Reloading, Doing
        <3>3. \A g \in Forms : form'[g].pc # "swap"
            BY <3>1, <2>2 DEF Reloading, Doing
        <3> QED
            BY <3>2, <3>3 DEF CacheFollows, Doing
    <2>5. SettingsTypeOK'
        BY <1>4, <1>a, <2>2, <2>3, <2>4 DEF SaveAccessWhitelist, SettingsTypeOK
    <2>6. RowIsWhatWasSaved'
        BY <1>4, <1>a, <2>2, <2>3, <2>4 DEF SaveAccessWhitelist, RowIsWhatWasSaved
    <2>7. RevokedStays'
        BY <1>4, <1>a, <2>2, <2>3, <2>4 DEF SaveAccessWhitelist, RevokedStays
    <2>8. KnownWereMade'
        BY <1>4, <1>a, <2>2, <2>3, <2>4, <1>b, KnownStayMade DEF SaveAccessWhitelist
    <2> QED
        BY <2>5, <2>6, <2>7, <2>8, <2>4 DEF SettingsInv
<1>5. ASSUME NEW f \in Forms, ReadList(f)
      PROVE  SettingsInv'
    <2>1. PICK l \in Lists : /\ Goes(f, [pc |-> "swap", list |-> l])
                             /\ (l = row.access /\ UNCHANGED raced) \/ raced'
        BY <1>5, <1>a, SettingsAssumption DEF ReadList, SettingsTypeOK, Row
    <2> DEFINE next == [pc |-> "swap", list |-> l]
    <2>2. next \in FormState
        BY DEF FormState
    <2>3. /\ form' \in [Forms -> FormState] /\ form'[f] = next
          /\ \A g \in Forms \ {f} : form'[g] = form[g]
        BY <2>1, <2>2, <1>a, FormMoves
    <2>4. CacheFollows'
        BY <1>5, <1>a, <2>1, <2>3 DEF ReadList, CacheFollows, Reloading, Doing
    <2>5. raced' \in BOOLEAN
        BY <1>5, <1>a DEF ReadList, SettingsTypeOK
    <2>6. SettingsTypeOK'
        BY <1>5, <1>a, <2>3, <2>4, <2>5 DEF ReadList, SettingsTypeOK
    <2>7. RowIsWhatWasSaved'
        BY <1>5, <1>a, <2>3, <2>4, <2>5 DEF ReadList, RowIsWhatWasSaved
    <2>8. RevokedStays'
        BY <1>5, <1>a, <2>3, <2>4, <2>5 DEF ReadList, RevokedStays
    <2>9. KnownWereMade'
        BY <1>5, <1>a, <2>3, <2>4, <2>5, <1>b, KnownStayMade DEF ReadList
    <2> QED
        BY <2>6, <2>7, <2>8, <2>9, <2>4 DEF SettingsInv
<1>6. ASSUME NEW f \in Forms, SwapList(f)
      PROVE  SettingsInv'
    <2>1. Rest \in FormState /\ Goes(f, Rest) /\ form[f].list \in Lists
        BY <1>6, <1>a DEF SwapList, SettingsTypeOK, FormState, Rest, Doing
    <2>2. /\ form' \in [Forms -> FormState] /\ form'[f] = Rest
          /\ \A g \in Forms \ {f} : form'[g] = form[g]
        BY <2>1, <1>a, FormMoves
    <2>3. CacheFollows'
        BY <1>6, <1>a, <2>2 DEF SwapList, CacheFollows, Reloading, Doing, Rest
    <2>4. SettingsTypeOK'
        BY <1>6, <1>a, <2>1, <2>2, <2>3 DEF SwapList, SettingsTypeOK
    <2>5. RowIsWhatWasSaved'
        BY <1>6, <1>a, <2>1, <2>2, <2>3 DEF SwapList, RowIsWhatWasSaved
    <2>6. RevokedStays'
        BY <1>6, <1>a, <2>1, <2>2, <2>3 DEF SwapList, RevokedStays
    <2>7. KnownWereMade'
        BY <1>6, <1>a, <2>1, <2>2, <2>3, <1>b, KnownStayMade DEF SwapList, Rest
    <2> QED
        BY <2>4, <2>5, <2>6, <2>7, <2>3 DEF SettingsInv
<1>7. ASSUME NEW f \in Forms, CreateInstanceToken(f)
      PROVE  SettingsInv'
    <2>1. PICK t \in TokenIds : /\ \A u \in 1..t : tokens[u] = "not yet" <=> u = t
                                /\ tokens' = [tokens EXCEPT ![t] = "valid"]
        BY <1>7 DEF CreateInstanceToken
    <2>2. t \in 1..t
        BY SettingsAssumption
    <2>3. tokens[t] = "not yet"
        BY <2>1, <2>2
    <2>4. \A u \in TokenIds :
              tokens'[u] = tokens[u] \/ (tokens[u] = "not yet" /\ tokens'[u] = "valid")
        BY <2>1, <2>3, <1>a DEF SettingsTypeOK
    <2>5. CacheFollows'
        BY <1>7, <1>a, CacheUndisturbed DEF CreateInstanceToken
    <2>6. SettingsTypeOK'
        BY <1>7, <1>a, <2>1, <2>3 DEF CreateInstanceToken, SettingsTypeOK
    <2>7. RowIsWhatWasSaved'
        BY <1>7, <1>a, <2>1, <2>3 DEF CreateInstanceToken, RowIsWhatWasSaved
    <2>8. RevokedStays'
        BY <1>7, <1>a, <2>4 DEF CreateInstanceToken, RevokedStays, SettingsTypeOK
    <2>9. KnownWereMade'
        BY <1>7, <1>a, <2>4, <1>b, KnownStayMade DEF CreateInstanceToken
    <2> QED
        BY <2>6, <2>7, <2>8, <2>9, <2>5 DEF SettingsInv
<1>8. ASSUME NEW f \in Forms, RevokeInstanceAPIToken(f)
      PROVE  SettingsInv'
    <2> DEFINE known == {t \in TokenIds : tokens[t] # "not yet"}
               next == [pc |-> "revoke", known |-> known]
    <2>1. next \in FormState /\ Goes(f, next)
        BY <1>8 DEF RevokeInstanceAPIToken, FormState
    <2>2. Ready(f) /\ UNCHANGED <<tokens, accessList, wrote, raced>>
        BY <1>8, Zenon DEF RevokeInstanceAPIToken
    <2> HIDE DEF known
    <2>3. /\ form' \in [Forms -> FormState] /\ form'[f] = next
          /\ \A g \in Forms \ {f} : form'[g] = form[g]
        BY <2>1, <1>a, FormMoves
    <2>4. /\ row' \in Row /\ row'.access = row.access /\ row'.applied = row.applied
          /\ row'.token # "valid"
        BY <1>8, <1>a DEF RevokeInstanceAPIToken, SettingsTypeOK, Row
    <2>5. CacheFollows'
        <3>1. form[f].pc = "ready" /\ form'[f].pc = "revoke"
            BY <2>2, <2>3 DEF Ready
        <3> QED
            BY <1>8, <1>a, <2>3, <2>4, <3>1, CacheUndisturbed DEF RevokeInstanceAPIToken
    <2>6. SettingsTypeOK'
        BY <1>8, <1>a, <2>3, <2>4, <2>5 DEF RevokeInstanceAPIToken, SettingsTypeOK
    <2>7. RowIsWhatWasSaved'
        BY <1>8, <1>a, <2>3, <2>4, <2>5 DEF RevokeInstanceAPIToken, RowIsWhatWasSaved
    <2>8. RevokedStays'
        BY <1>8, <1>a, <2>3, <2>4, <2>5 DEF RevokeInstanceAPIToken, RevokedStays
    <2>9. KnownWereMade'
        <3>1. \A t \in known : tokens[t] # "not yet"
            BY DEF known
        <3>2. form'[f].known = known
            BY <2>3
        <3> QED
            BY <1>a, <2>2, <2>3, <3>1, <3>2 DEF KnownWereMade, Doing
    <2> QED
        BY <2>6, <2>7, <2>8, <2>9, <2>5 DEF SettingsInv
<1>9. ASSUME NEW f \in Forms, RevokeAllInstanceTokens(f)
      PROVE  SettingsInv'
    <2>1. Rest \in FormState /\ Goes(f, Rest) /\ form[f].known \subseteq TokenIds
        BY <1>9, <1>a DEF RevokeAllInstanceTokens, SettingsTypeOK, FormState, Rest, Doing
    <2>2. /\ form' \in [Forms -> FormState] /\ form'[f] = Rest
          /\ \A g \in Forms \ {f} : form'[g] = form[g]
        BY <2>1, <1>a, FormMoves
    <2>3. \A t \in TokenIds :
              tokens'[t] = tokens[t] \/ (tokens[t] # "not yet" /\ tokens'[t] = "revoked")
        BY <1>9, RevokedTokens DEF RevokeAllInstanceTokens
    <2>4. /\ Doing(f, "revoke") /\ UNCHANGED row
          /\ \/ refused' = refused
             \/ refused' = refused \cup form[f].known /\ tokens' = Revoked(TokenIds)
        BY <1>9, Zenon DEF RevokeAllInstanceTokens
    <2>5. \A t \in form[f].known : t \in refused' => t \in refused \/ tokens'[t] = "revoked"
        BY <1>a, <2>1, <2>4, RevokedTokens DEF KnownWereMade
    <2>6. CacheFollows'
        BY <1>9, <1>a, <2>2, CacheUndisturbed DEF RevokeAllInstanceTokens, Rest, Doing
    <2>7. SettingsTypeOK'
        BY <1>9, <1>a, <2>1, <2>2, <2>6 DEF RevokeAllInstanceTokens, Revoked, SettingsTypeOK
    <2>8. RowIsWhatWasSaved'
        BY <1>9, <1>a, <2>1, <2>2, <2>6 DEF RevokeAllInstanceTokens, RowIsWhatWasSaved
    <2>9. RevokedStays'
        BY <1>a, <1>c, <2>1, <2>3, <2>4, <2>5 DEF RevokedStays, SettingsTypeOK
    <2>10. KnownWereMade'
        <3>1. \A g \in Forms : form'[g] = form[g] \/ form'[g].pc # "revoke"
            BY <2>2 DEF Rest
        <3>2. \A t \in TokenIds : tokens'[t] = tokens[t] \/ tokens'[t] # "not yet"
            BY <2>3
        <3> QED
            BY <1>a, <1>b, <3>1, <3>2, KnownStayMade
    <2> QED
        BY <2>7, <2>8, <2>9, <2>10, <2>6 DEF SettingsInv
<1>10. ASSUME NEW f \in Forms, NEW t \in TokenIds, RevokeInstanceToken(f, t)
       PROVE  SettingsInv'
    <2>1. \A u \in TokenIds :
              \/ tokens[u] # "not yet" /\ tokens'[u] = "revoked"
              \/ tokens'[u] = tokens[u] /\ (u = t => tokens[u] = "not yet")
        BY <1>10, RevokedTokens DEF RevokeInstanceToken
    <2>2. CacheFollows'
        BY <1>10, <1>a, CacheUndisturbed DEF RevokeInstanceToken
    <2>3. SettingsTypeOK'
        BY <1>10, <1>a, <2>2 DEF RevokeInstanceToken, Revoked, SettingsTypeOK
    <2>4. RowIsWhatWasSaved'
        BY <1>10, <1>a, <2>2 DEF RevokeInstanceToken, RowIsWhatWasSaved
    <2>5. RevokedStays'
        BY <1>10, <1>a, <1>c, <2>1 DEF RevokeInstanceToken, RevokedStays, SettingsTypeOK
    <2>6. KnownWereMade'
        BY <1>10, <1>a, <2>2, <1>b, KnownStayMade DEF RevokeInstanceToken, Revoked
    <2> QED
        BY <2>3, <2>4, <2>5, <2>6, <2>2 DEF SettingsInv
<1>11. ASSUME NEW h \in Hashes, SetAppliedConfigHash(h)
       PROVE  SettingsInv'
    <2>1. /\ row' \in Row /\ row'.access = row.access /\ row'.token = row.token
          /\ row'.applied = h
        BY <1>11, <1>a DEF SetAppliedConfigHash, SettingsTypeOK, Row
    <2>2. CacheFollows'
        BY <1>11, <1>a, <2>1, CacheUndisturbed DEF SetAppliedConfigHash
    <2>3. SettingsTypeOK'
        BY <1>11, <1>a, <2>1, <2>2 DEF SetAppliedConfigHash, SettingsTypeOK
    <2>4. RowIsWhatWasSaved'
        BY <1>11, <1>a, <2>1, <2>2 DEF SetAppliedConfigHash, RowIsWhatWasSaved
    <2>5. RevokedStays'
        BY <1>11, <1>a, <2>1, <2>2 DEF SetAppliedConfigHash, RevokedStays
    <2>6. KnownWereMade'
        BY <1>11, <1>a, <2>1, <2>2, <1>b, KnownStayMade DEF SetAppliedConfigHash
    <2> QED
        BY <2>3, <2>4, <2>5, <2>6, <2>2 DEF SettingsInv
<1>12. ASSUME NEW t \in TokenIds, TokenExpires(t)
       PROVE  SettingsInv'
    <2>1. \A u \in TokenIds :
              tokens'[u] = tokens[u] \/ (u = t /\ tokens[u] = "valid" /\ tokens'[u] = "expired")
        BY <1>12, <1>a DEF TokenExpires, SettingsTypeOK
    <2>2. CacheFollows'
        BY <1>12, <1>a, CacheUndisturbed DEF TokenExpires
    <2>3. SettingsTypeOK'
        BY <1>12, <1>a, <2>2 DEF TokenExpires, SettingsTypeOK
    <2>4. RowIsWhatWasSaved'
        BY <1>12, <1>a, <2>2 DEF TokenExpires, RowIsWhatWasSaved
    <2>5. RevokedStays'
        BY <1>12, <1>a, <2>2 DEF TokenExpires, RevokedStays
    <2>6. KnownWereMade'
        BY <1>12, <1>a, <2>1, <1>b, KnownStayMade DEF TokenExpires
    <2> QED
        BY <2>3, <2>4, <2>5, <2>6, <2>2 DEF SettingsInv
<1>13. CASE UNCHANGED settingsVars
    BY <1>13, <1>a
    DEF settingsVars, SettingsInv, SettingsTypeOK, RowIsWhatWasSaved, CacheFollows, RevokedStays,
        KnownWereMade, Reloading, Doing
<1> QED
    BY <1>1, <1>2, <1>3, <1>4, <1>5, <1>6, <1>7, <1>8, <1>9, <1>10, <1>11, <1>12, <1>13
    DEF SettingsNext

\* What a form saves is not undone by another: the access list and the applied hash are the last
\* ones saved, requests are checked against the saved list unless two saves met, and a token
\* reported revoked is refused (SaveSettings, reloadAccess, RevokeAllInstanceTokens).
THEOREM SavesOutliveOtherForms == SettingsSpec => []SettingsStay
BY SettingsInvImplies, InitSettingsInv, StepSettingsInv, PTL DEF SettingsSpec

-----------------------------------------------------------------------------
(* The instances.                                                          *)

InstanceRow == [there : {"yes", "not yet", "no more"}, name : InstanceNames, health : Health,
        succeeded : BOOLEAN]
Copy == [health : Health, succeeded : BOOLEAN]
Stage == {"todo", "asked", "done", "offline", "degraded", "healthy"}
Alert == {"instance_down", "instance_up"}
Refresh == [pc : {"idle", "locking", "asking"},
            copy : UNION {[S -> Copy] : S \in SUBSET InstanceIds},
            state : UNION {[S -> Stage] : S \in SUBSET InstanceIds},
            cancelled : BOOLEAN]

FleetTypeOK ==
    /\ instances \in [InstanceIds -> InstanceRow]
    /\ refreshMu \in Callers \cup {Nobody}
    /\ refresh \in [Callers -> Refresh]
    /\ told \in [InstanceIds -> Seq(Alert)]

OneRefresh == \A c \in Callers : refresh[c].pc = "asking" <=> refreshMu = c

\* While a refresh asks, the row of an instance it has not done is what it was when listed, or gone.
\* Only the mutex makes it so: a second refresh would write the rows the first one copied.
CopyIsTheRow ==
    \A c \in Callers : refresh[c].pc = "asking" =>
        /\ DOMAIN refresh[c].copy = DOMAIN refresh[c].state
        /\ \A i \in DOMAIN refresh[c].state :
              /\ instances[i].there # "not yet"
              /\ i \in LiveInstances /\ refresh[c].state[i] # "done" =>
                    /\ refresh[c].copy[i].health = instances[i].health
                    /\ refresh[c].copy[i].succeeded = instances[i].succeeded

\* Nothing was said of an instance that is not there, or not checked yet.
SilentAtFirst ==
    \A i \in InstanceIds :
        /\ Len(told[i]) <= 2
        /\ i \notin LiveInstances \/ instances[i].health = "unknown" => told[i] = <<>>

FleetInv == FleetTypeOK /\ OneRefresh /\ CopyIsTheRow /\ SilentAtFirst /\ AlertsMatchHealth

-----------------------------------------------------------------------------
(* Lemmas.                                                                  *)

\* No row changes and nothing is said.
LEMMA NothingSaid ==
    ASSUME SilentAtFirst, AlertsMatchHealth, UNCHANGED <<instances, told>>
    PROVE  SilentAtFirst' /\ AlertsMatchHealth'
BY DEF SilentAtFirst, AlertsMatchHealth, LiveInstances

\* One row changes, or what was said of it, and they agree again.
LEMMA OneSaid ==
    ASSUME FleetTypeOK, SilentAtFirst, AlertsMatchHealth,
           NEW i \in InstanceIds, NEW w \in Seq(Alert), told' = [told EXCEPT ![i] = w],
           \A j \in InstanceIds \ {i} : instances'[j] = instances[j],
           Len(w) <= 2, Len(w) = 2 => w[1] # w[2],
           w # <<>> => (w[Len(w)] = "instance_down" <=> instances'[i].health = "offline"),
           instances'[i].there = "yes" /\ instances'[i].health \in {"healthy", "degraded"} =>
               instances'[i].succeeded,
           instances'[i].there # "yes" \/ instances'[i].health = "unknown" => w = <<>>
    PROVE  SilentAtFirst' /\ AlertsMatchHealth' /\ told' \in [InstanceIds -> Seq(Alert)]
<1>1. told'[i] = w /\ \A j \in InstanceIds \ {i} : told'[j] = told[j]
    BY DEF FleetTypeOK
<1>2. told' \in [InstanceIds -> Seq(Alert)]
    BY DEF FleetTypeOK
<1>3. SilentAtFirst'
    BY <1>1 DEF SilentAtFirst, LiveInstances
<1>4. AlertsMatchHealth'
    BY <1>1 DEF AlertsMatchHealth, LiveInstances
<1> QED
    BY <1>2, <1>3, <1>4

\* The copy of a refresh follows the rows as long as neither changes for what it has not done.
LEMMA CopyKept ==
    ASSUME CopyIsTheRow, UNCHANGED instances,
           \A c \in Callers : refresh'[c].pc = "asking" =>
               /\ refresh[c].pc = "asking"
               /\ refresh'[c].copy = refresh[c].copy
               /\ DOMAIN refresh'[c].state = DOMAIN refresh[c].state
               /\ \A i \in DOMAIN refresh[c].state :
                     refresh'[c].state[i] # "done" => refresh[c].state[i] # "done"
    PROVE  CopyIsTheRow'
BY DEF CopyIsTheRow, LiveInstances

\* A caller's refresh becomes r, the others stay as they were.
LEMMA RefreshMoves ==
    ASSUME FleetTypeOK, NEW c \in Callers, NEW r \in Refresh, refresh' = [refresh EXCEPT ![c] = r]
    PROVE  /\ refresh' \in [Callers -> Refresh] /\ refresh'[c] = r
           /\ \A k \in Callers \ {c} : refresh'[k] = refresh[k]
BY DEF FleetTypeOK

LEMMA IdleIsARefresh == Idle \in Refresh
<1>1. Nothing \in [{} -> Copy] /\ Nothing \in [{} -> Stage]
    BY DEF Nothing
<1>2. Nothing \in UNION {[S -> Copy] : S \in SUBSET InstanceIds}
    BY <1>1
<1>3. Nothing \in UNION {[S -> Stage] : S \in SUBSET InstanceIds}
    BY <1>1
<1> QED
    BY <1>2, <1>3 DEF Idle, Refresh

\* What one step of one instance's check does to the refresh it is of.
LEMMA StepMoves ==
    ASSUME FleetTypeOK, NEW c \in Callers, NEW i \in DOMAIN refresh[c].state, NEW to \in Stage,
           Step(c, i, to)
    PROVE  /\ refresh' \in [Callers -> Refresh]
           /\ refresh'[c].pc = refresh[c].pc /\ refresh'[c].copy = refresh[c].copy
           /\ refresh'[c].state = [refresh[c].state EXCEPT ![i] = to]
           /\ \A k \in Callers \ {c} : refresh'[k] = refresh[k]
<1> DEFINE r == [refresh[c] EXCEPT !.state = [@ EXCEPT ![i] = to]]
<1>1. refresh[c] \in Refresh
    BY DEF FleetTypeOK
<1>2. PICK S \in SUBSET InstanceIds : refresh[c].state \in [S -> Stage]
    BY <1>1 DEF Refresh
<1>3. [refresh[c].state EXCEPT ![i] = to] \in [S -> Stage]
    BY <1>2
<1>4. r \in Refresh
    BY <1>1, <1>3 DEF Refresh
<1>5. refresh' = [refresh EXCEPT ![c] = r]
    BY <1>1 DEF Step, Refresh
<1>6. r.pc = refresh[c].pc /\ r.copy = refresh[c].copy
      /\ r.state = [refresh[c].state EXCEPT ![i] = to]
    BY <1>1 DEF Refresh
<1> HIDE DEF r
<1> QED
    BY <1>4, <1>5, <1>6, RefreshMoves

\* What is kept of what was said when an alert is added.
LEMMA LastTwoOfOneMore ==
    ASSUME NEW s \in Seq(Alert), Len(s) <= 2, NEW x \in Alert
    PROVE  LET words == LastTwo(s \o <<x>>)
           IN /\ words \in Seq(Alert) /\ Len(words) \in {1, 2}
              /\ words[Len(words)] = x
              /\ Len(words) = 2 => s # <<>> /\ words[1] = s[Len(s)]
<1> DEFINE w == s \o <<x>>
<1>1. Len(s) \in Nat
    BY LenProperties
<1>2. \A n \in Nat : n <= 2 => n \in {0, 1, 2}
    OBVIOUS
<1>3. Len(s) \in {0, 1, 2}
    BY <1>1, <1>2
<1>4. w \in Seq(Alert) /\ Len(w) = Len(s) + 1 /\ w[Len(s) + 1] = x
      /\ \A k \in 1..Len(s) : w[k] = s[k]
    OBVIOUS
<1> HIDE DEF w
<1>5. CASE Len(s) = 2
    <2>1. LastTwo(w) = SubSeq(w, 2, 3)
        BY <1>4, <1>5 DEF LastTwo
    <2>2. /\ SubSeq(w, 2, 3) \in Seq(Alert) /\ Len(SubSeq(w, 2, 3)) = 2
          /\ SubSeq(w, 2, 3)[1] = w[2] /\ SubSeq(w, 2, 3)[2] = w[3]
        BY <1>4, <1>5, SubSeqProperties
    <2>3. s # <<>>
        BY <1>5
    <2> QED
        BY <1>4, <1>5, <2>1, <2>2, <2>3 DEF w
<1>6. CASE Len(s) \in {0, 1}
    <2>1. LastTwo(w) = SubSeq(w, 1, Len(w))
        <3>1. ~(Len(w) > 2)
            BY <1>4, <1>6
        <3> QED
            BY <3>1 DEF LastTwo
    <2>2. LastTwo(w) = w
        BY <1>4, <2>1, SubSeqFull
    <2>3. Len(s) = 1 => s # <<>>
        OBVIOUS
    <2> QED
        BY <1>4, <1>6, <2>2, <2>3 DEF w
<1> QED
    BY <1>3, <1>5, <1>6

LEMMA LastTwoOfNoMore ==
    ASSUME NEW s \in Seq(Alert), Len(s) <= 2
    PROVE  LastTwo(s \o <<>>) = s
<1>1. s \o <<>> = s
    BY ConcatEmptySeq
<1>2. LastTwo(s) = SubSeq(s, 1, Len(s))
    <2>1. Len(s) \in Nat
        BY LenProperties
    <2>2. ~(Len(s) > 2)
        BY <2>1
    <2> QED
        BY <2>2 DEF LastTwo
<1> QED
    BY <1>1, <1>2, SubSeqFull

LEMMA InitFleetInv == FleetInit => FleetInv
<1> SUFFICES ASSUME FleetInit
             PROVE  FleetInv
    OBVIOUS
<1>1. NoInstance("not yet") \in InstanceRow
    BY FleetAssumption DEF NoInstance, NewInstance, InstanceRow, Health
<1>2. /\ instances \in [InstanceIds -> InstanceRow] /\ LiveInstances = {}
      /\ refresh \in [Callers -> Refresh] /\ \A c \in Callers : refresh[c].pc = "idle"
      /\ told \in [InstanceIds -> Seq(Alert)] /\ \A i \in InstanceIds : told[i] = <<>>
    <2>1. \A i \in InstanceIds : instances[i].there = "not yet"
        BY DEF FleetInit, NoInstance, NewInstance
    <2> QED
        BY <1>1, <2>1, IdleIsARefresh, EmptySeq DEF FleetInit, LiveInstances, Idle
<1>3. Len(<<>>) <= 2
    OBVIOUS
<1> QED
    BY <1>2, <1>3, FleetAssumption
    DEF FleetInit, FleetInv, FleetTypeOK, OneRefresh, CopyIsTheRow, SilentAtFirst, AlertsMatchHealth

LEMMA StepFleetInv == FleetInv /\ [FleetNext]_fleetVars => FleetInv'
<1> SUFFICES ASSUME FleetInv, [FleetNext]_fleetVars
             PROVE  FleetInv'
    OBVIOUS
<1>a. FleetTypeOK /\ OneRefresh /\ CopyIsTheRow /\ SilentAtFirst /\ AlertsMatchHealth
    BY DEF FleetInv
<1>1. ASSUME NEW c \in Callers, AskRefresh(c)
      PROVE  FleetInv'
    <2> DEFINE r == [refresh[c] EXCEPT !.pc = "locking"]
    <2>1. r \in Refresh /\ r.pc = "locking"
        BY <1>a DEF FleetTypeOK, Refresh
    <2>2. refresh' = [refresh EXCEPT ![c] = r]
        BY <1>1 DEF AskRefresh
    <2> HIDE DEF r
    <2>3. /\ refresh' \in [Callers -> Refresh] /\ refresh'[c] = r
          /\ \A k \in Callers \ {c} : refresh'[k] = refresh[k]
        BY <1>a, <2>1, <2>2, RefreshMoves
    <2>4. UNCHANGED <<instances, refreshMu, told>> /\ refresh[c].pc = "idle"
        BY <1>1 DEF AskRefresh
    <2>5. CopyIsTheRow'
        BY <1>a, <2>1, <2>3, <2>4, CopyKept
    <2>6. SilentAtFirst' /\ AlertsMatchHealth'
        BY <1>a, <2>4, NothingSaid
    <2> QED
        BY <1>a, <2>1, <2>3, <2>4, <2>5, <2>6 DEF FleetInv, FleetTypeOK, OneRefresh
<1>2. ASSUME NEW c \in Callers, LockAndList(c)
      PROVE  FleetInv'
    <2>1. UNCHANGED <<instances, told>> /\ refresh[c].pc = "locking" /\ refreshMu = Nobody
        BY <1>2 DEF LockAndList, LockFree
    <2>2. SilentAtFirst' /\ AlertsMatchHealth'
        BY <1>a, <2>1, NothingSaid
    <2>3. \A k \in Callers : refresh[k].pc # "asking"
        BY <1>a, <2>1, FleetAssumption DEF OneRefresh
    <2>4. CASE refresh' = [refresh EXCEPT ![c] = Idle] /\ UNCHANGED refreshMu
        <3>1. /\ refresh' \in [Callers -> Refresh] /\ refresh'[c] = Idle
              /\ \A k \in Callers \ {c} : refresh'[k] = refresh[k]
            BY <1>a, <2>4, IdleIsARefresh, RefreshMoves
        <3>2. \A k \in Callers : refresh'[k].pc # "asking"
            BY <2>3, <3>1 DEF Idle
        <3> QED
            BY <1>a, <2>1, <2>2, <2>3, <2>4, <3>1, <3>2
            DEF FleetInv, FleetTypeOK, OneRefresh, CopyIsTheRow
    <2>5. CASE /\ refreshMu' = c
               /\ refresh' = [refresh EXCEPT ![c].pc = "asking", ![c].copy = ListInstances,
                                             ![c].state = [i \in LiveInstances |-> "todo"]]
        <3> DEFINE todo == [i \in LiveInstances |-> "todo"]
                   r == [refresh[c] EXCEPT !.pc = "asking", !.copy = ListInstances, !.state = todo]
        <3>1. LiveInstances \in SUBSET InstanceIds
            BY DEF LiveInstances
        <3>2. ListInstances \in [LiveInstances -> Copy]
            BY <1>a, <3>1 DEF ListInstances, FleetTypeOK, InstanceRow, Copy
        <3>3. todo \in [LiveInstances -> Stage]
            BY DEF Stage
        <3>4. /\ ListInstances \in UNION {[S -> Copy] : S \in SUBSET InstanceIds}
              /\ todo \in UNION {[S -> Stage] : S \in SUBSET InstanceIds}
            BY <3>1, <3>2, <3>3
        <3>5. refresh[c] \in Refresh
            BY <1>a DEF FleetTypeOK
        <3> HIDE DEF todo
        <3>6. r \in Refresh /\ r.pc = "asking" /\ r.copy = ListInstances /\ r.state = todo
            BY <3>4, <3>5 DEF Refresh
        <3>7. refresh' = [refresh EXCEPT ![c] = r]
            BY <2>5 DEF todo
        <3> HIDE DEF r
        <3>8. /\ refresh' \in [Callers -> Refresh] /\ refresh'[c] = r
              /\ \A k \in Callers \ {c} : refresh'[k] = refresh[k]
            BY <1>a, <3>6, <3>7, RefreshMoves
        <3>9. OneRefresh'
            BY <2>3, <2>5, <3>6, <3>8 DEF OneRefresh
        <3>10. DOMAIN todo = LiveInstances /\ DOMAIN ListInstances = LiveInstances
            BY DEF todo, ListInstances
        <3>11. \A i \in LiveInstances : /\ ListInstances[i].health = instances[i].health
                                        /\ ListInstances[i].succeeded = instances[i].succeeded
                                        /\ instances[i].there # "not yet"
            BY DEF ListInstances, LiveInstances
        <3>12. LiveInstances' = LiveInstances
            BY <2>1 DEF LiveInstances
        <3>13. CopyIsTheRow'
            BY <2>1, <2>3, <3>6, <3>8, <3>10, <3>11, <3>12 DEF CopyIsTheRow
        <3> QED
            BY <1>a, <2>1, <2>2, <2>5, <3>8, <3>9, <3>13 DEF FleetInv, FleetTypeOK
    <2> QED
        BY <1>2, <2>4, <2>5 DEF LockAndList
<1>3. ASSUME NEW c \in Callers, NEW i \in InstanceIds, NEW to \in Stage,
             refresh[c].pc = "asking", i \in DOMAIN refresh[c].state,
             refresh[c].state[i] # "done", Step(c, i, to), UNCHANGED <<instances, refreshMu, told>>
      PROVE  FleetInv'
    <2>1. /\ refresh' \in [Callers -> Refresh]
          /\ refresh'[c].pc = refresh[c].pc /\ refresh'[c].copy = refresh[c].copy
          /\ refresh'[c].state = [refresh[c].state EXCEPT ![i] = to]
          /\ \A k \in Callers \ {c} : refresh'[k] = refresh[k]
        BY <1>a, <1>3, StepMoves
    <2>2. CopyIsTheRow'
        BY <1>a, <1>3, <2>1, CopyKept
    <2>3. SilentAtFirst' /\ AlertsMatchHealth'
        BY <1>a, <1>3, NothingSaid
    <2> QED
        BY <1>a, <1>3, <2>1, <2>2, <2>3 DEF FleetInv, FleetTypeOK, OneRefresh
<1>4. ASSUME NEW c \in Callers, NEW i \in InstanceIds, Ask(c, i)
      PROVE  FleetInv'
    BY <1>3, <1>4 DEF Ask, Stage
<1>5. ASSUME NEW c \in Callers, NEW i \in InstanceIds, NEW got \in Health \ {"unknown"},
             Answer(c, i, got)
      PROVE  FleetInv'
    BY <1>3, <1>5 DEF Answer, Stage, Health
<1>6. ASSUME NEW c \in Callers, CancelBatch(c)
      PROVE  FleetInv'
    <2> DEFINE r == [refresh[c] EXCEPT !.cancelled = TRUE]
    <2>1. r \in Refresh /\ r.pc = refresh[c].pc
          /\ r.copy = refresh[c].copy /\ r.state = refresh[c].state
        BY <1>a DEF FleetTypeOK, Refresh
    <2>2. refresh' = [refresh EXCEPT ![c] = r]
        BY <1>6 DEF CancelBatch
    <2> HIDE DEF r
    <2>3. /\ refresh' \in [Callers -> Refresh] /\ refresh'[c] = r
          /\ \A k \in Callers \ {c} : refresh'[k] = refresh[k]
        BY <1>a, <2>1, <2>2, RefreshMoves
    <2>4. UNCHANGED <<instances, refreshMu, told>>
        BY <1>6 DEF CancelBatch
    <2>5. CopyIsTheRow'
        BY <1>a, <2>1, <2>3, <2>4, CopyKept
    <2>6. SilentAtFirst' /\ AlertsMatchHealth'
        BY <1>a, <2>4, NothingSaid
    <2> QED
        BY <1>a, <2>1, <2>3, <2>4, <2>5, <2>6 DEF FleetInv, FleetTypeOK, OneRefresh
<1>7. ASSUME NEW c \in Callers, EndRefresh(c)
      PROVE  FleetInv'
    <2>1. /\ refresh' \in [Callers -> Refresh] /\ refresh'[c] = Idle
          /\ \A k \in Callers \ {c} : refresh'[k] = refresh[k]
        BY <1>7, <1>a, IdleIsARefresh, RefreshMoves DEF EndRefresh
    <2>2. UNCHANGED <<instances, told>> /\ refreshMu' = Nobody /\ refreshMu = c
        BY <1>7, <1>a DEF EndRefresh, OneRefresh
    <2>3. \A k \in Callers : refresh'[k].pc # "asking"
        BY <1>a, <2>1, <2>2 DEF OneRefresh, Idle
    <2>4. SilentAtFirst' /\ AlertsMatchHealth'
        BY <1>a, <2>2, NothingSaid
    <2> QED
        BY <1>a, <2>1, <2>2, <2>3, <2>4, FleetAssumption
        DEF FleetInv, FleetTypeOK, OneRefresh, CopyIsTheRow
<1>8. ASSUME NEW c \in Callers, NEW i \in InstanceIds, NEW saved \in BOOLEAN, Persist(c, i, saved)
      PROVE  FleetInv'
    <2> DEFINE new == refresh[c].state[i]
               old == refresh[c].copy[i]
               alert == Transition(old.health, new)
               w == IF (~saved /\ alert # <<>>) \/ i \notin LiveInstances THEN <<>>
                    ELSE LastTwo(told[i] \o alert)
    <2>1. /\ refresh[c].pc = "asking" /\ i \in DOMAIN refresh[c].state /\ new \in Health
          /\ Step(c, i, "done") /\ UNCHANGED refreshMu
          /\ instances' = IF saved /\ i \in LiveInstances
                          THEN [instances EXCEPT ![i].health = new,
                                                 ![i].succeeded = old.succeeded \/ new # "offline"]
                          ELSE instances
        BY <1>8 DEF Persist, SaveHealth
    <2>2. told' = [told EXCEPT ![i] = w]
        BY <1>8, <1>a DEF Persist, SaveHealth, FleetTypeOK
    <2>3. /\ refresh' \in [Callers -> Refresh]
          /\ refresh'[c].pc = refresh[c].pc /\ refresh'[c].copy = refresh[c].copy
          /\ refresh'[c].state = [refresh[c].state EXCEPT ![i] = "done"]
          /\ \A k \in Callers \ {c} : refresh'[k] = refresh[k]
        BY <1>a, <2>1, StepMoves DEF Stage
    <2>4. i \in LiveInstances =>
              old.health = instances[i].health /\ old.succeeded = instances[i].succeeded
        BY <1>a, <2>1 DEF CopyIsTheRow, Health
    <2>5. /\ instances' \in [InstanceIds -> InstanceRow]
          /\ \A j \in InstanceIds : instances'[j].there = instances[j].there
          /\ \A j \in InstanceIds \ {i} : instances'[j] = instances[j]
          /\ saved /\ i \in LiveInstances =>
                /\ instances'[i].health = new
                /\ instances'[i].succeeded = (old.succeeded \/ new # "offline")
          /\ ~(saved /\ i \in LiveInstances) => instances' = instances
        BY <1>a, <2>1, <2>4 DEF FleetTypeOK, InstanceRow
    <2>6. CopyIsTheRow'
        <3>1. \A k \in Callers \ {c} : refresh'[k].pc # "asking"
            BY <1>a, <2>1, <2>3 DEF OneRefresh
        <3>2. /\ DOMAIN refresh'[c].copy = DOMAIN refresh'[c].state
              /\ DOMAIN refresh'[c].state = DOMAIN refresh[c].state
              /\ refresh'[c].state[i] = "done"
              /\ \A j \in DOMAIN refresh[c].state \ {i} : refresh'[c].state[j] = refresh[c].state[j]
            BY <1>a, <2>1, <2>3 DEF CopyIsTheRow
        <3>3. \A j \in DOMAIN refresh[c].state : j \in InstanceIds
            BY <1>a DEF FleetTypeOK, Refresh
        <3>4. \A j \in DOMAIN refresh[c].state :
                 /\ instances[j].there # "not yet"
                 /\ j \in LiveInstances /\ refresh[c].state[j] # "done" =>
                       /\ refresh[c].copy[j].health = instances[j].health
                       /\ refresh[c].copy[j].succeeded = instances[j].succeeded
            BY <1>a, <2>1 DEF CopyIsTheRow
        <3>5. ASSUME NEW j \in DOMAIN refresh[c].state
              PROVE  /\ instances'[j].there # "not yet"
                     /\ j \in LiveInstances' /\ refresh'[c].state[j] # "done" =>
                           /\ refresh'[c].copy[j].health = instances'[j].health
                           /\ refresh'[c].copy[j].succeeded = instances'[j].succeeded
            <4>1. CASE j = i
                BY <2>5, <3>2, <3>3, <3>4, <4>1
            <4>2. CASE j # i
                <5>1. /\ instances'[j] = instances[j]
                      /\ j \in LiveInstances' <=> j \in LiveInstances
                      /\ refresh'[c].state[j] = refresh[c].state[j]
                    BY <2>5, <3>2, <3>3, <3>5, <4>2 DEF LiveInstances
                <5> QED
                    BY <2>3, <3>4, <5>1
            <4> QED
                BY <4>1, <4>2
        <3> QED
            BY <3>1, <3>2, <3>5 DEF CopyIsTheRow
    <2>7. told[i] \in Seq(Alert) /\ Len(told[i]) <= 2 /\ LastTwo(told[i] \o <<>>) = told[i]
        BY <1>a, LastTwoOfNoMore DEF FleetTypeOK, SilentAtFirst
    <2>8. new \in {"offline", "degraded", "healthy"}
        <3>1. refresh[c] \in Refresh
            BY <1>a DEF FleetTypeOK
        <3>2. PICK S \in SUBSET InstanceIds : refresh[c].state \in [S -> Stage]
            BY <3>1 DEF Refresh
        <3>3. new \in Stage /\ new \in Health
            BY <2>1, <3>2
        <3> QED
            BY <3>3 DEF Stage, Health
    <2> DEFINE seen == instances'[i]
               Agree ==
              /\ w \in Seq(Alert) /\ Len(w) <= 2 /\ (Len(w) = 2 => w[1] # w[2])
              /\ w # <<>> => (w[Len(w)] = "instance_down" <=> seen.health = "offline")
              /\ seen.there = "yes" /\ seen.health \in {"healthy", "degraded"} => seen.succeeded
              /\ seen.there # "yes" \/ seen.health = "unknown" => w = <<>>
    <2>9. Agree
        <3> HIDE DEF new, old, seen
        <3>1. <<>> \in Seq(Alert) /\ Len(<<>>) = 0
            OBVIOUS
        <3>2. CASE i \notin LiveInstances
            <4>1. w = <<>>
                BY <3>2
            <4>2. seen.there # "yes"
                BY <2>5, <3>2 DEF LiveInstances, seen
            <4> HIDE DEF w, alert
            <4> QED
                BY <3>1, <4>1, <4>2
        <3>3. CASE i \in LiveInstances /\ ~saved
            <4>1. w \in {<<>>, told[i]}
                BY <2>7, <3>3
            <4>2. seen = instances[i] /\ seen.there = "yes"
                BY <2>5, <3>3 DEF LiveInstances, seen
            <4>3. seen.health = "unknown" => w = <<>>
                BY <1>a, <4>1, <4>2 DEF SilentAtFirst
            <4>4. /\ Len(told[i]) = 2 => told[i][1] # told[i][2]
                  /\ told[i] # <<>> =>
                        (told[i][Len(told[i])] = "instance_down" <=> seen.health = "offline")
                  /\ seen.health \in {"healthy", "degraded"} => seen.succeeded
                BY <1>a, <3>3, <4>2 DEF AlertsMatchHealth
            <4> HIDE DEF w, alert
            <4>5. CASE w = <<>>
                BY <3>1, <4>4, <4>5
            <4>6. CASE w = told[i]
                BY <2>7, <4>2, <4>3, <4>4, <4>6
            <4> QED
                BY <4>1, <4>5, <4>6
        <3>4. CASE i \in LiveInstances /\ saved
            <4>1. /\ seen.there = "yes" /\ seen.health = new
                  /\ seen.succeeded = (old.succeeded \/ new # "offline")
                BY <2>5, <3>4 DEF LiveInstances, seen
            <4>2. /\ seen.health # "unknown"
                  /\ seen.health \in {"healthy", "degraded"} => seen.succeeded
                BY <2>8, <4>1
            <4>3. /\ old.health = "unknown" => told[i] = <<>>
                  /\ told[i] # <<>> =>
                        (told[i][Len(told[i])] = "instance_down" <=> old.health = "offline")
                  /\ Len(told[i]) = 2 => told[i][1] # told[i][2]
                BY <1>a, <2>4, <3>4 DEF SilentAtFirst, AlertsMatchHealth
            <4>4. CASE alert = <<>>
                <5>1. w = told[i]
                    BY <2>7, <3>4, <4>4
                <5>2. old.health = "unknown" \/ (old.health = "offline" <=> new = "offline")
                    BY <4>4 DEF Transition
                <5> HIDE DEF w, alert
                <5> QED
                    BY <2>7, <4>1, <4>2, <4>3, <5>1, <5>2
            <4>5. ASSUME NEW x \in Alert, alert = <<x>>
                  PROVE  Agree
                <5>1. w = LastTwo(told[i] \o <<x>>)
                    BY <3>4, <4>5
                <5>2. /\ x = "instance_down" <=> new = "offline"
                      /\ x = "instance_down" <=> old.health # "offline"
                    BY <4>5 DEF Transition, Alert
                <5> HIDE DEF w, alert
                <5>3. /\ w \in Seq(Alert) /\ Len(w) \in {1, 2} /\ w[Len(w)] = x
                      /\ Len(w) = 2 => told[i] # <<>> /\ w[1] = told[i][Len(told[i])]
                    BY <2>7, <5>1, LastTwoOfOneMore
                <5> QED
                    BY <4>1, <4>2, <4>3, <5>2, <5>3 DEF Alert
            <4> QED
                BY <4>4, <4>5 DEF Transition, Alert
        <3> QED
            BY <3>2, <3>3, <3>4
    <2>10. SilentAtFirst' /\ AlertsMatchHealth' /\ told' \in [InstanceIds -> Seq(Alert)]
        <3> HIDE DEF w
        <3> QED
            BY <1>a, <2>2, <2>5, <2>9, OneSaid
    <2> QED
        BY <1>a, <2>1, <2>3, <2>5, <2>6, <2>10 DEF FleetInv, FleetTypeOK, OneRefresh
\* A row that is new or gone: nothing has been said of it.
<1>9. ASSUME NEW i \in InstanceIds, NEW seen \in InstanceRow,
             instances' = [instances EXCEPT ![i] = seen],
             told' = [told EXCEPT ![i] = <<>>], seen.succeeded \/ seen.health = "unknown",
             seen.there # "not yet",
             seen.there = "yes" =>
                 \A c \in Callers : refresh[c].pc = "asking" => i \notin DOMAIN refresh[c].state,
             UNCHANGED <<refreshMu, refresh>>
      PROVE  FleetInv'
    <2>1. /\ instances' \in [InstanceIds -> InstanceRow] /\ instances'[i] = seen
          /\ \A j \in InstanceIds \ {i} : instances'[j] = instances[j]
        BY <1>9, <1>a DEF FleetTypeOK
    <2> DEFINE w == <<>>
    <2>2. w \in Seq(Alert) /\ Len(w) = 0 /\ w = <<>>
        OBVIOUS
    <2>3. SilentAtFirst' /\ AlertsMatchHealth' /\ told' \in [InstanceIds -> Seq(Alert)]
        <3>1. told' = [told EXCEPT ![i] = w]
            BY <1>9
        <3>2. seen.there = "yes" /\ seen.health \in {"healthy", "degraded"} => seen.succeeded
            BY <1>9
        <3> HIDE DEF w
        <3>3. /\ Len(w) <= 2 /\ (Len(w) = 2 => w[1] # w[2])
              /\ w # <<>> => (w[Len(w)] = "instance_down" <=> instances'[i].health = "offline")
              /\ instances'[i].there # "yes" \/ instances'[i].health = "unknown" => w = <<>>
            BY <2>2
        <3>4. instances'[i].there = "yes" /\ instances'[i].health \in {"healthy", "degraded"} =>
                  instances'[i].succeeded
            BY <2>1, <3>2
        <3> QED
            BY <1>a, <2>1, <2>2, <3>1, <3>3, <3>4, OneSaid
    <2>4. \A c \in Callers : \A j \in DOMAIN refresh[c].state : j \in InstanceIds
        BY <1>a DEF FleetTypeOK, Refresh
    <2>5. \A j \in InstanceIds \ {i} : j \in LiveInstances' <=> j \in LiveInstances
        BY <2>1 DEF LiveInstances
    <2>6. i \in LiveInstances' <=> seen.there = "yes"
        BY <2>1 DEF LiveInstances
    <2>7. CopyIsTheRow'
        <3>1. ASSUME NEW c \in Callers, refresh[c].pc = "asking", NEW j \in DOMAIN refresh[c].state
              PROVE  /\ instances'[j].there # "not yet"
                     /\ j \in LiveInstances' /\ refresh[c].state[j] # "done" =>
                           /\ refresh[c].copy[j].health = instances'[j].health
                           /\ refresh[c].copy[j].succeeded = instances'[j].succeeded
            <4>1. CASE j = i
                BY <1>9, <2>1, <2>6, <3>1, <4>1
            <4>2. CASE j # i
                BY <1>a, <2>1, <2>4, <2>5, <3>1, <4>2 DEF CopyIsTheRow
            <4> QED
                BY <4>1, <4>2
        <3> QED
            BY <1>9, <1>a, <3>1 DEF CopyIsTheRow
    <2> QED
        BY <1>9, <1>a, <2>1, <2>3, <2>7 DEF FleetInv, FleetTypeOK, OneRefresh
<1>10. ASSUME NEW n \in InstanceNames, handleInstanceAdd(n)
       PROVE  FleetInv'
    <2>1. PICK i \in Fresh : instances' = [instances EXCEPT ![i] = NewInstance(n)]
        BY <1>10 DEF handleInstanceAdd, CreateInstance
    <2>2. i \in InstanceIds
        BY DEF Fresh
    <2>3. i \in InstanceIds /\ i \in 1..i
        BY <2>2, FleetAssumption
    <2>4. instances[i].there = "not yet"
        BY <2>3 DEF Fresh
    <2>5. told[i] = <<>>
        BY <1>a, <2>3, <2>4 DEF SilentAtFirst, LiveInstances
    <2>6. told' = [told EXCEPT ![i] = <<>>] /\ UNCHANGED <<refreshMu, refresh>>
        BY <1>10, <1>a, <2>5 DEF handleInstanceAdd, FleetTypeOK
    <2>7. /\ NewInstance(n) \in InstanceRow /\ NewInstance(n).health = "unknown"
          /\ NewInstance(n).there = "yes"
        BY DEF NewInstance, InstanceRow, Health
    <2>8. \A c \in Callers : refresh[c].pc = "asking" => i \notin DOMAIN refresh[c].state
        BY <1>a, <2>4 DEF CopyIsTheRow
    <2> QED
        BY <1>9, <2>1, <2>3, <2>6, <2>7, <2>8
<1>11. ASSUME NEW i \in InstanceIds, handleInstanceDelete(i)
       PROVE  FleetInv'
    <2>1. /\ NoInstance("no more") \in InstanceRow /\ NoInstance("no more").health = "unknown"
          /\ NoInstance("no more").there = "no more"
        BY FleetAssumption DEF NoInstance, NewInstance, InstanceRow, Health
    <2> QED
        BY <1>9, <1>11, <2>1 DEF handleInstanceDelete, DeleteInstance
<1>12. ASSUME NEW i \in InstanceIds, NEW n \in InstanceNames, handleInstanceRename(i, n)
       PROVE  FleetInv'
    <2>1. /\ instances' = [instances EXCEPT ![i].name = n]
          /\ UNCHANGED <<refreshMu, refresh, told>>
        BY <1>12 DEF handleInstanceRename, RenameInstance
    <2>2. /\ instances' \in [InstanceIds -> InstanceRow]
          /\ \A j \in InstanceIds : /\ instances'[j].there = instances[j].there
                                    /\ instances'[j].health = instances[j].health
                                    /\ instances'[j].succeeded = instances[j].succeeded
        BY <1>a, <2>1 DEF FleetTypeOK, InstanceRow
    <2>3. LiveInstances' = LiveInstances
        BY <2>2 DEF LiveInstances
    <2>4. SilentAtFirst' /\ AlertsMatchHealth'
        BY <1>a, <2>1, <2>2, <2>3 DEF SilentAtFirst, AlertsMatchHealth, LiveInstances
    <2>5. \A c \in Callers : \A j \in DOMAIN refresh[c].state : j \in InstanceIds
        BY <1>a DEF FleetTypeOK, Refresh
    <2>6. CopyIsTheRow'
        <3>1. ASSUME NEW c \in Callers, refresh[c].pc = "asking", NEW j \in DOMAIN refresh[c].state
              PROVE  /\ instances'[j].there # "not yet"
                     /\ j \in LiveInstances' /\ refresh[c].state[j] # "done" =>
                           /\ refresh[c].copy[j].health = instances'[j].health
                           /\ refresh[c].copy[j].succeeded = instances'[j].succeeded
            BY <1>a, <2>2, <2>3, <2>5, <3>1 DEF CopyIsTheRow
        <3> QED
            BY <1>a, <2>1, <3>1 DEF CopyIsTheRow
    <2> QED
        BY <1>a, <2>1, <2>2, <2>4, <2>6 DEF FleetInv, FleetTypeOK, OneRefresh
<1>13. CASE UNCHANGED fleetVars
    BY <1>13, <1>a
    DEF fleetVars, FleetInv, FleetTypeOK, OneRefresh, CopyIsTheRow, SilentAtFirst,
        AlertsMatchHealth, LiveInstances
<1> QED
    BY <1>1, <1>2, <1>4, <1>5, <1>6, <1>7, <1>8, <1>10, <1>11, <1>12, <1>13 DEF FleetNext

\* What the operator was told of an instance and what is on record agree, whatever the number of
\* instances, of operators asking for a refresh and of polls at a time: the mutex keeps a refresh's
\* copy the row it was read from (refreshInstanceHealth).
THEOREM AlertsFollowHealth == FleetSpec => []AlertsMatchHealth
<1>1. FleetInv => AlertsMatchHealth
    BY DEF FleetInv
<1> QED
    BY <1>1, InitFleetInv, StepFleetInv, PTL DEF FleetSpec

=============================================================================
