------------------------------ MODULE Settings ------------------------------
(***************************************************************************)
(* The settings row and the tokens other instances read this one with.     *)
(* Each form saves its own columns: some by writing them alone, two by     *)
(* reading the whole row and writing most of it back.  The access list is  *)
(* cached, so a save is followed by reading it again.                      *)
(***************************************************************************)
EXTENDS Naturals, Sequences, FiniteSets

CONSTANTS
    Forms,          \* the requests that may run at the same time
    Values,         \* what the identity, label, channel and raw columns may hold
    Hashes,         \* what the hash of the applied configuration may be
    Lists,          \* what the access list may hold
    Everyone,       \* the list that allows every address, an empty one too
    TokenIds        \* the scoped tokens, handed out in order: 1..n

ASSUME SettingsAssumption ==
    Everyone \in Lists /\ Values # {} /\ Hashes # {} /\ TokenIds \subseteq Nat \ {0}

VARIABLES
    row,            \* the settings row: [identity, label, channel, raw, token, applied, access]
    tokens,         \* id -> "not yet", "valid", "expired" or "revoked"
    accessList,     \* the cache every request is checked against
    form,           \* request -> what it is at
    wrote,          \* the access list and the applied hash last saved (history)
    raced,          \* a save met a reload of the list on its way, or the row was not read (history)
    refused         \* the tokens whose revocation was reported (history)

settingsVars == <<row, tokens, accessList, form, wrote, raced, refused>>

Legacy == 0                             \* the token kept in the row by older versions
Rest == [pc |-> "ready"]
Ready(f) == form[f].pc = "ready"
Doing(f, pc) == form[f].pc = pc
Goes(f, next) == form' = [form EXCEPT ![f] = next]

-----------------------------------------------------------------------------
(* Forms that read the row, change it and write it back.                    *)

\* handleSettingsIdentity and handleLocalInstanceRename.
OpenRow(f, page) ==
    /\ Ready(f)
    /\ Goes(f, [pc |-> page, copy |-> row])
    /\ UNCHANGED <<row, tokens, accessList, wrote, raced, refused>>

Edited(f, v, w) ==
    IF Doing(f, "identity") THEN [form[f].copy EXCEPT !.identity = v, !.label = w]
    ELSE [form[f].copy EXCEPT !.label = w]

\* The access list and the hash of the applied configuration are not among the columns written.
WholeCopy(copy) == copy         \* Mutant: the whole row is written back.
ColumnsSaved(copy) == [copy EXCEPT !.access = row.access, !.applied = row.applied]
SaveSettings(f, v, w) ==
    /\ Doing(f, "identity") \/ Doing(f, "rename")
    /\ row' = ColumnsSaved(Edited(f, v, w))
    \* A copy from before a revocation undoes it.
    /\ refused' = IF form[f].copy.token = "valid" THEN refused \ {Legacy} ELSE refused
    /\ Goes(f, Rest)
    /\ UNCHANGED <<tokens, accessList, wrote, raced>>

-----------------------------------------------------------------------------
(* Forms that write a column of their own.                                  *)

SaveRawConfig(f, v) ==
    /\ Ready(f)
    /\ row' = [row EXCEPT !.raw = v]
    /\ UNCHANGED <<tokens, accessList, form, wrote, raced, refused>>

SaveUpdateChannel(f, c) ==
    /\ Ready(f)
    /\ row' = [row EXCEPT !.channel = c]
    /\ UNCHANGED <<tokens, accessList, form, wrote, raced, refused>>

\* An apply records the hash of what it wrote.
SetAppliedConfigHash(v) ==
    /\ row' = [row EXCEPT !.applied = v]
    /\ wrote' = [wrote EXCEPT !.applied = v]
    /\ UNCHANGED <<tokens, accessList, form, raced, refused>>

-----------------------------------------------------------------------------
(* handleSettingsAccess saves the list, then reloadAccess reads the row and,*)
(* under the lock, replaces the cached one; a row it cannot read is an      *)
(* empty list.                                                              *)

Reloading == {f \in Forms : Doing(f, "reload") \/ Doing(f, "swap")}

SaveAccessWhitelist(f, l) ==
    /\ Ready(f)
    /\ row' = [row EXCEPT !.access = l]
    /\ wrote' = [wrote EXCEPT !.access = l]
    /\ raced' = (Reloading # {})
    /\ Goes(f, [pc |-> "reload"])
    /\ UNCHANGED <<tokens, accessList, refused>>

ReadList(f) ==
    /\ Doing(f, "reload")
    /\ \/ Goes(f, [pc |-> "swap", list |-> row.access]) /\ UNCHANGED raced
       \/ Goes(f, [pc |-> "swap", list |-> Everyone]) /\ raced' = TRUE
    /\ UNCHANGED <<row, tokens, accessList, wrote, refused>>

SwapList(f) ==
    /\ Doing(f, "swap")
    /\ accessList' = form[f].list
    /\ Goes(f, Rest)
    /\ UNCHANGED <<row, tokens, wrote, raced, refused>>

-----------------------------------------------------------------------------
(* Tokens.                                                                  *)

CreateInstanceToken(f) ==
    /\ Ready(f)
    /\ \E t \in TokenIds :
          /\ \A u \in 1..t : tokens[u] = "not yet" <=> u = t
          /\ tokens' = [tokens EXCEPT ![t] = "valid"]
    /\ UNCHANGED <<row, accessList, form, wrote, raced, refused>>

TokenExpires(t) ==
    /\ tokens[t] = "valid"
    /\ tokens' = [tokens EXCEPT ![t] = "expired"]
    /\ UNCHANGED <<row, accessList, form, wrote, raced, refused>>

Revoked(ts) ==
    [t \in TokenIds |-> IF t \in ts /\ tokens[t] # "not yet" THEN "revoked" ELSE tokens[t]]

\* Idempotent: a token that was never made is no error.
RevokeInstanceToken(f, t) ==
    /\ Ready(f)
    /\ tokens' = Revoked({t})
    /\ refused' = IF tokens[t] = "not yet" THEN refused ELSE refused \cup {t}
    /\ UNCHANGED <<row, accessList, form, wrote, raced>>

\* handleSettingsInstanceTokenRevoke writes the row, and then the tokens of their own.
RevokeInstanceAPIToken(f) ==
    /\ Ready(f)
    /\ row' = [row EXCEPT !.token = IF @ = "none" THEN @ ELSE "revoked"]
    /\ Goes(f, [pc |-> "revoke", known |-> {t \in TokenIds : tokens[t] # "not yet"}])
    /\ refused' = refused \cup {Legacy}
    /\ UNCHANGED <<tokens, accessList, wrote, raced>>

RevokeAllInstanceTokens(f) ==
    /\ Doing(f, "revoke")
    /\ \/ tokens' = Revoked(TokenIds) /\ refused' = refused \cup form[f].known
       \/ UNCHANGED <<tokens, refused>>
    /\ Goes(f, Rest)
    /\ UNCHANGED <<row, accessList, wrote, raced>>

VerifyInstanceAPIToken(t) ==
    IF t = Legacy THEN row.token = "valid" ELSE tokens[t] = "valid"

-----------------------------------------------------------------------------
SettingsInit ==
    /\ row \in [identity : Values, label : Values, channel : Values, raw : Values,
               token : {"none", "valid"}, applied : Hashes, access : {Everyone}]
    /\ tokens = [t \in TokenIds |-> "not yet"]
    /\ accessList = Everyone
    /\ form = [f \in Forms |-> Rest]
    /\ wrote = [access |-> row.access, applied |-> row.applied]
    /\ raced = FALSE
    /\ refused = {}

SettingsNext ==
    \/ \E f \in Forms :
          \/ OpenRow(f, "identity") \/ OpenRow(f, "rename")
          \/ \E v, w \in Values : SaveSettings(f, v, w)
          \/ \E v \in Values : SaveRawConfig(f, v) \/ SaveUpdateChannel(f, v)
          \/ \E l \in Lists : SaveAccessWhitelist(f, l)
          \/ ReadList(f) \/ SwapList(f)
          \/ CreateInstanceToken(f) \/ RevokeInstanceAPIToken(f) \/ RevokeAllInstanceTokens(f)
          \/ \E t \in TokenIds : RevokeInstanceToken(f, t)
    \/ \E h \in Hashes : SetAppliedConfigHash(h)
    \/ \E t \in TokenIds : TokenExpires(t)

SettingsSpec == SettingsInit /\ [][SettingsNext]_settingsVars

-----------------------------------------------------------------------------
(* Properties.                                                              *)

\* What a form saves is not undone by another: the access list and the applied hash are the last
\* ones saved whatever copies of the row other forms write back, requests are checked against the
\* saved list unless two saves overlapped or the row could not be read, and a token reported
\* revoked is refused (the row's own token unless a form wrote an older copy back).
SettingsStay ==
    /\ row.access = wrote.access /\ row.applied = wrote.applied
    /\ Reloading = {} /\ ~raced => accessList = row.access
    /\ \A t \in refused : ~VerifyInstanceAPIToken(t)

=============================================================================
