------------------------------ MODULE Limiter -------------------------------
(***************************************************************************)
(* The login limiter: an address that fails too often is turned away for   *)
(* a while.  A login asks it before it compares the password and tells it  *)
(* after, and in between others may do the same.                           *)
(***************************************************************************)
EXTENDS Naturals, FiniteSets

CONSTANTS
    Logins,         \* the login requests that may run at the same time
    Addresses,
    MaxFailures,    \* the failures after which an address is turned away
    MaxEntries      \* maxLoginLimiterEntries

Out == "not comparing"

ASSUME LimiterAssumption ==
    /\ MaxFailures \in Nat \ {0} /\ MaxEntries \in Nat \ {0}
    /\ Out \notin Addresses

VARIABLES
    byIP,           \* address -> its record: [count, older, old, locked]
    login,          \* request -> the address whose password it is comparing, Out for no request
    \* History, which no request reads: of every address, on record or not,
    lockout,        \* whether five minutes have passed since the failure that shut it out: "none",
                    \* it "lasts", or the limiter itself "cut" it short (CutShort)
    early           \* the logins that were on their way when it began and have not ended

limiterVars == <<byIP, login, lockout, early>>

\* `older` are the addresses on record that failed first before this one did.  A record is `old`
\* once its own first failure is past the window, `locked` until its lockout is over.
NewRecord(older) == [count |-> 0, older |-> older, old |-> FALSE, locked |-> FALSE]

Least(m, n) == IF m <= n THEN m ELSE n

\* delete, of all records but those of ips.
Keep(recs, ips) == [ip \in ips |-> [recs[ip] EXCEPT !.older = @ \cap ips]]

\* Mutant: what is past its window is dropped, though its lockout is not over.
pruneByWindow(recs) == Keep(recs, {ip \in DOMAIN recs : ~recs[ip].old})

\* What is over is dropped; at the limit the oldest record goes too, whatever it says.
prune(recs) ==
    LET kept == Keep(recs, {ip \in DOMAIN recs : ~recs[ip].old \/ recs[ip].locked})
    IN IF Cardinality(DOMAIN kept) < MaxEntries THEN kept
       ELSE Keep(kept, {ip \in DOMAIN kept : kept[ip].older # {}})

blocked(recs, ip) == ip \in DOMAIN recs /\ recs[ip].locked

Counted(r) ==
    [r EXCEPT !.count = Least(@ + 1, MaxFailures),
              !.locked = @ \/ r.count + 1 >= MaxFailures]
Begun(recs, ip) == ip \in DOMAIN recs /\ ~recs[ip].old
reset(recs, ip) == Keep(recs, DOMAIN recs \ {ip})
fail(recs, ip) ==
    LET rest == reset(recs, ip) IN
    IF Begun(recs, ip) THEN [recs EXCEPT ![ip] = Counted(@)]
    ELSE [a \in DOMAIN rest \cup {ip} |->
             IF a = ip THEN Counted(NewRecord(DOMAIN rest)) ELSE rest[a]]

-----------------------------------------------------------------------------
(* The two ways in which the limiter forgets a lockout that is not over.    *)

\* The oldest of the records that are not over, when they are as many as there may be.
CrowdedOut ==
    LET kept == {ip \in DOMAIN byIP : ~byIP[ip].old \/ byIP[ip].locked}
    IN {ip \in kept : ~(Cardinality(kept) < MaxEntries) /\ byIP[ip].older \cap kept = {}}

\* The record of an address that fails again after its own window.
Replaced(ip) == {a \in {ip} \cap DOMAIN byIP : byIP[a].old}

CutShort(ips) ==
    [ip \in Addresses |->
        IF ip \in ips /\ lockout[ip] = "lasts" THEN "cut" ELSE lockout[ip]]

-----------------------------------------------------------------------------
(* handleLoginSubmit.                                                       *)

AskLimiter(l, ip) ==
    /\ login[l] = Out
    /\ byIP' = prune(byIP)
    /\ login' = IF blocked(byIP', ip) THEN login ELSE [login EXCEPT ![l] = ip]
    /\ lockout' = CutShort(CrowdedOut)
    /\ UNCHANGED early

Told(l, recs) ==
    /\ login[l] # Out
    /\ byIP' = recs
    /\ login' = [login EXCEPT ![l] = Out]

\* The failure that shuts the address out, or shuts it out again after its lockout was cut short,
\* is where the history of that lockout begins.
WrongPassword(l) ==
    LET ip == login[l]
        remembered == CutShort(CrowdedOut \cup Replaced(ip))
        begins == byIP'[ip].locked /\ remembered[ip] # "lasts"
    IN /\ Told(l, fail(prune(byIP), ip))
       /\ lockout' = IF begins THEN [remembered EXCEPT ![ip] = "lasts"] ELSE remembered
       /\ early' = [early EXCEPT ![ip] =
                       (IF begins THEN {k \in Logins : login[k] = ip} ELSE @) \ {l}]

\* A right password ends the lockout: that is what it is for.
RightPassword(l) ==
    /\ Told(l, reset(byIP, login[l]))
    /\ lockout' = [lockout EXCEPT ![login[l]] = "none"]
    /\ early' = [early EXCEPT ![login[l]] = {}]

\* The user cannot be looked up: the login ends with nothing compared and the limiter not told.
LookupFails(l) ==
    /\ Told(l, byIP)
    /\ early' = [early EXCEPT ![login[l]] = @ \ {l}]
    /\ UNCHANGED lockout

\* Five minutes pass since the last failure that shut the address out, whether or not its record
\* says so still; or a quarter of an hour since the first.
LockoutEnds(ip) ==
    /\ lockout[ip] # "none"
    /\ byIP' = [a \in DOMAIN byIP |->
                   IF a = ip THEN [byIP[a] EXCEPT !.locked = FALSE] ELSE byIP[a]]
    /\ lockout' = [lockout EXCEPT ![ip] = "none"]
    /\ early' = [early EXCEPT ![ip] = {}]
    /\ UNCHANGED login
WindowPasses(ip) ==
    /\ ~byIP[ip].old /\ \A a \in byIP[ip].older : byIP[a].old
    /\ byIP' = [byIP EXCEPT ![ip].old = TRUE]
    /\ UNCHANGED <<login, lockout, early>>

LimiterInit ==
    /\ byIP = [ip \in {} |-> NewRecord({})]
    /\ login = [l \in Logins |-> Out]
    /\ lockout = [ip \in Addresses |-> "none"]
    /\ early = [ip \in Addresses |-> {}]

LimiterNext ==
    \/ \E l \in Logins :
          \/ \E ip \in Addresses : AskLimiter(l, ip)
          \/ WrongPassword(l) \/ RightPassword(l) \/ LookupFails(l)
    \/ \E ip \in Addresses : LockoutEnds(ip)
    \/ \E ip \in DOMAIN byIP : WindowPasses(ip)

LimiterSpec == LimiterInit /\ [][LimiterNext]_limiterVars

-----------------------------------------------------------------------------
(* Properties.                                                              *)

\* While a lockout lasts, whether the address is on record or not, no login of it has its password
\* compared but those that were on their way when it began: a login asks and is told apart, and the
\* table is pruned in between (blocked, fail).  Excepted are a lockout that a right password has
\* ended and, by the two rules above and no other, one cut short: its record was the oldest when
\* the table was full, or a late failure replaced it past its window.
FewComparedWhileShutOut ==
    \A ip \in Addresses :
        lockout[ip] = "lasts" => {l \in Logins : login[l] = ip} \subseteq early[ip]

=============================================================================
