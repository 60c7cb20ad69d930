------------------------------- MODULE Access -------------------------------
(***************************************************************************)
(* Signing in: the login, the sessions it opens, and the change of         *)
(* password that ends them.  Requests run concurrently, and comparing a    *)
(* password is slow, so the user a request read may have changed when it   *)
(* writes.  Limiter models the limiter a login asks first.                 *)
(***************************************************************************)
EXTENDS Naturals, Sequences, FiniteSets
LOCAL INSTANCE SequencesExt

CONSTANTS
    Clients,        \* browsers, each with one request at a time
    Tokens,         \* the session tokens that may be held at once (a bound)
    Usernames,
    MaxPassword,    \* passwords are 0..MaxPassword, the last ones chosen later
    NoToken

ASSUME AccessAssumption == MaxPassword \in Nat /\ Usernames # {} /\ NoToken \notin Tokens

VARIABLES
    user,           \* the account: [name, hash]
    sessions,       \* token -> [password, late, expired] of the sessions on record
    cookie,         \* client -> the token it holds
    request         \* client -> what its request is at

accessVars == <<user, sessions, cookie, request>>

\* The password a session was opened with, and whether it was `late`, read before a change of it,
\* are history: no code looks at them.
SignedIn(t) == t \in DOMAIN sessions /\ ~sessions[t].expired
Unexpired == {t \in DOMAIN sessions : ~sessions[t].expired}
Without(gone) == [t \in DOMAIN sessions \ gone |-> sessions[t]]
Only(ts) == [t \in ts |-> sessions[t]]

NoRequest == [pc |-> "ready", password |-> 0, late |-> FALSE]
At(c, pc) == request[c].pc = pc
Done(c) == request' = [request EXCEPT ![c] = NoRequest]
\* Tokens are random: one is never drawn again while anyone holds it, and any other will do.
Unheld == {t \in Tokens : t \notin DOMAIN sessions /\ \A c \in Clients : cookie[c] # t}
newSessionToken == CHOOSE t \in Unheld : TRUE

-----------------------------------------------------------------------------
(* handleLoginSubmit, past the limiter: reads the user, compares, and opens *)
(* a session.                                                               *)

\* The user is read here; comparing takes its time.  A name nobody has is compared with a hash no
\* password has, and a password that does not match leaves nothing behind.
handleLoginSubmit(c, name, typed) ==
    /\ At(c, "ready")
    /\ name = user.name /\ typed = user.hash
    /\ request' = [request EXCEPT ![c] = [NoRequest EXCEPT !.pc = "open", !.password = typed]]
    /\ UNCHANGED <<user, sessions, cookie>>

\* CreateSession prunes what has expired, in a statement of its own.
NewSession(password, late) == [password |-> password, late |-> late, expired |-> FALSE]
CreateSession(c) ==
    /\ At(c, "open")
    /\ \/ LET t == newSessionToken
          IN /\ Unheld # {}
             /\ sessions' = [x \in Unexpired \cup {t} |->
                                IF x = t THEN NewSession(request[c].password, request[c].late)
                                ELSE sessions[x]]
             /\ cookie' = [cookie EXCEPT ![c] = t]
       \/ sessions' \in {sessions, Only(Unexpired)} /\ UNCHANGED cookie
    /\ Done(c)
    /\ UNCHANGED user

-----------------------------------------------------------------------------
(* requireAuth and the pages behind it.                                     *)

\* GetSession: a session past its time is deleted by the one who asks for it.
TurnedAway(c) ==
    /\ At(c, "ready") /\ cookie[c] \in DOMAIN sessions /\ ~SignedIn(cookie[c])
    /\ sessions' = Without({cookie[c]})
    /\ UNCHANGED <<user, cookie, request>>

\* A session that cannot be deleted outlives the cookie.
handleLogout(c) ==
    /\ At(c, "ready") /\ SignedIn(cookie[c])
    /\ sessions' \in {sessions, Without({cookie[c]})}
    /\ cookie' = [cookie EXCEPT ![c] = NoToken]
    /\ UNCHANGED <<user, request>>

\* Sessions are keyed by the user's id: a new name leaves them alone.
handleProfileIdentity(c, name) ==
    /\ At(c, "ready") /\ SignedIn(cookie[c])
    /\ user' = [user EXCEPT !.name = name]
    /\ UNCHANGED <<sessions, cookie, request>>

\* handleProfilePassword reads the user, compares, and writes; a wrong password ends it.
handleProfilePassword(c, current) ==
    /\ At(c, "ready") /\ SignedIn(cookie[c]) /\ current = user.hash
    /\ request' = [request EXCEPT ![c] = [NoRequest EXCEPT !.pc = "change", !.password = current]]
    /\ UNCHANGED <<user, sessions, cookie>>

\* One transaction: the hash, the end of every session, and one in their place.
RemainingOthers(c) == DOMAIN sessions \ {cookie[c]}    \* Mutant: only the changer's own ends.
Remaining(c) == {}
RotatePasswordSession(c, next) ==
    LET t == newSessionToken
    IN  /\ Unheld # {}
        /\ user' = [user EXCEPT !.hash = next]
        /\ sessions' = [x \in Remaining(c) \cup {t} |->
                            IF x = t THEN NewSession(next, FALSE) ELSE sessions[x]]
        /\ cookie' = [cookie EXCEPT ![c] = t]
        \* Logins that have read the old hash are not held up.
        /\ request' = [k \in Clients |->
                          IF k = c THEN NoRequest
                          ELSE [request[k] EXCEPT !.late = @ \/ At(k, "open")]]

ChangePassword(c, next) ==
    /\ At(c, "change") /\ next # request[c].password
    /\ RotatePasswordSession(c, next)
ChangeFails(c) ==
    /\ At(c, "change") /\ Done(c)
    /\ UNCHANGED <<user, sessions, cookie>>

SessionExpires(t) ==
    /\ ~sessions[t].expired
    /\ sessions' = [sessions EXCEPT ![t].expired = TRUE]
    /\ UNCHANGED <<user, cookie, request>>

-----------------------------------------------------------------------------
AccessInit ==
    /\ user = [name |-> CHOOSE name \in Usernames : TRUE, hash |-> 0]
    /\ sessions = [t \in {} |-> NewSession(0, FALSE)]
    /\ cookie = [c \in Clients |-> NoToken]
    /\ request = [c \in Clients |-> NoRequest]

AccessNext ==
    \/ \E c \in Clients :
          \/ \E name \in Usernames, p \in 0..MaxPassword : handleLoginSubmit(c, name, p)
          \/ \E name \in Usernames : handleProfileIdentity(c, name)
          \/ \E p \in 0..MaxPassword : handleProfilePassword(c, p) \/ ChangePassword(c, p)
          \/ CreateSession(c) \/ ChangeFails(c)
          \/ TurnedAway(c) \/ handleLogout(c)
    \/ \E t \in DOMAIN sessions : SessionExpires(t)

AccessSpec == AccessInit /\ [][AccessNext]_accessVars

-----------------------------------------------------------------------------
(* Properties.                                                              *)

\* Once a password is changed no session of before is left: every session on record was opened with
\* the password in force, but for a login that had already read the old one when the change was
\* written (handleLoginSubmit, RotatePasswordSession).
SessionsKnowThePassword ==
    \A t \in DOMAIN sessions : sessions[t].late \/ sessions[t].password = user.hash

=============================================================================
