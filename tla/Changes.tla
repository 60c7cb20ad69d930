------------------------------ MODULE Changes -------------------------------
(***************************************************************************)
(* The Changes page: the configuration on disk beside the one the model    *)
(* renders to.  It shows their difference as hunks and, section by section,*)
(* what each file of the layout gains and loses; passwords are masked on   *)
(* both sides before they are compared.                                    *)
(*                                                                         *)
(* A text is a sequence of tokens: words, line ends and passwords.         *)
(***************************************************************************)
EXTENDS Naturals, Sequences, FiniteSets

CONSTANTS
    Texts,          \* what the files on disk may hold
    Layouts,        \* what the model may render to: a sequence of section bodies
    Passwords,      \* the tokens that are passwords
    Contexts        \* how many unchanged lines are kept around a change

IsSequence(s) == s \in Seq({s[k] : k \in DOMAIN s})

\* Texts are sequences of tokens, a layout has a section at least (the header is always rendered),
\* and a negative context is taken for none.
ASSUME ChangesAssumption ==
    /\ \A text \in Texts : IsSequence(text)
    /\ \A bodies \in Layouts : /\ IsSequence(bodies) /\ bodies # <<>>
                               /\ \A s \in DOMAIN bodies : IsSequence(bodies[s])
    /\ Contexts \subseteq Nat

VARIABLE page       \* [live, bodies, context, shown]: the two sides, and whether they are shown

MaskPasswords(text) ==
    [k \in DOMAIN text |-> IF text[k] \in Passwords THEN "masked" ELSE text[k]]

\* The elements of a sequence at some of its places, in their order.
Sifted(seq, places) ==
    LET upTo[k \in 0..Len(seq)] ==
            IF k = 0 THEN <<>>
            ELSE IF k \in places THEN Append(upTo[k - 1], seq[k]) ELSE upTo[k - 1]
    IN upTo[Len(seq)]

-----------------------------------------------------------------------------
(* The edit script of two sequences of lines.                               *)

EndsLine(token) == token \in {"lf", "crlf"}
TrimSuffix(text) ==
    IF EndsLine(text[Len(text)]) THEN SubSeq(text, 1, Len(text) - 1) ELSE text
AddToken(lines, token) ==
    IF EndsLine(token) THEN Append(lines, <<>>)
    ELSE [lines EXCEPT ![Len(lines)] = Append(@, token)]
splitLines(text) ==
    LET body == TrimSuffix(text)
        lines[k \in 0..Len(body)] ==
            IF k = 0 THEN << <<>> >> ELSE AddToken(lines[k - 1], body[k])
    IN IF text = <<>> THEN <<>> ELSE lines[Len(body)]

\* lengths[<<i, j>>]: the longest common subsequence of a from i on and b from j on.
Larger(m, n) == IF m >= n THEN m ELSE n
lengths(a, b) ==
    LET L[p \in (1..Len(a) + 1) \X (1..Len(b) + 1)] ==
            IF p[1] > Len(a) \/ p[2] > Len(b) THEN 0
            ELSE IF a[p[1]] = b[p[2]] THEN L[<<p[1] + 1, p[2] + 1>>] + 1
            ELSE Larger(L[<<p[1] + 1, p[2]>>], L[<<p[1], p[2] + 1>>])
    IN L

\* An edit: [op, text, oldLine, newLine], a line number 0 where the line is not.
Kept(a, i, j) == [op |-> " ", text |-> a[i], oldLine |-> i, newLine |-> j]
Deleted(a, i) == [op |-> "-", text |-> a[i], oldLine |-> i, newLine |-> 0]
Inserted(b, j) == [op |-> "+", text |-> b[j], oldLine |-> 0, newLine |-> j]

\* One turn of the loop over both texts; past the end of both it adds nothing.
NextEdit(a, b, L, s) ==
    LET keep == [i |-> s.i + 1, j |-> s.j + 1, out |-> Append(s.out, Kept(a, s.i, s.j))]
        delete == [i |-> s.i + 1, j |-> s.j, out |-> Append(s.out, Deleted(a, s.i))]
        insert == [i |-> s.i, j |-> s.j + 1, out |-> Append(s.out, Inserted(b, s.j))]
    IN IF s.i > Len(a) /\ s.j > Len(b) THEN s
       ELSE IF s.i > Len(a) THEN insert
       ELSE IF s.j > Len(b) THEN delete
       ELSE IF a[s.i] = b[s.j] THEN keep
       ELSE IF L[<<s.i + 1, s.j>>] >= L[<<s.i, s.j + 1>>] THEN delete ELSE insert

lcsScript(a, b) ==
    LET L == lengths(a, b)
        at[k \in 0..Len(a) + Len(b)] ==
            IF k = 0 THEN [i |-> 1, j |-> 1, out |-> <<>>] ELSE NextEdit(a, b, L, at[k - 1])
    IN at[Len(a) + Len(b)].out

-----------------------------------------------------------------------------
(* Hunks: the changes of a script and the lines around them.                *)

buildHunk(seg) ==
    LET old == Sifted(seg, {k \in DOMAIN seg : seg[k].op # "+"})
        new == Sifted(seg, {k \in DOMAIN seg : seg[k].op # "-"})
    IN [oldStart |-> IF old = <<>> THEN 0 ELSE old[1].oldLine, oldCount |-> Len(old),
        newStart |-> IF new = <<>> THEN 0 ELSE new[1].newLine, newCount |-> Len(new),
        lines |-> [k \in DOMAIN seg |-> [op |-> seg[k].op, text |-> seg[k].text]]]

\* The places of a script around its changes; where a run of them starts, and where it ends.
Around(script, context) ==
    {k \in DOMAIN script :
        \E c \in DOMAIN script : script[c].op # " " /\ k <= c + context /\ c <= k + context}
Starts(keep) == {k \in keep : k - 1 \notin keep}
End(keep, start) == CHOOSE e \in keep : start <= e /\ start..e \subseteq keep /\ e + 1 \notin keep

hunks(script, context) ==
    LET keep == Around(script, context)
        starts == Sifted([k \in DOMAIN script |-> k], Starts(keep))
    IN [h \in DOMAIN starts |-> buildHunk(SubSeq(script, starts[h], End(keep, starts[h])))]

Diff(oldText, newText, context) ==
    IF oldText = newText THEN <<>>
    ELSE hunks(lcsScript(splitLines(oldText), splitLines(newText)), context)

\* The lines of all hunks that are added, or removed.
LinesMarked(hs, op) ==
    UNION {{h} \X {k \in DOMAIN hs[h].lines : hs[h].lines[k].op = op} : h \in DOMAIN hs}
Stat(hs) == [added |-> Cardinality(LinesMarked(hs, "+")),
             removed |-> Cardinality(LinesMarked(hs, "-"))]

-----------------------------------------------------------------------------
(* The same difference, section by section.                                 *)

Logical(bodies) ==
    LET text[s \in 0..Len(bodies)] == IF s = 0 THEN <<>> ELSE text[s - 1] \o bodies[s]
    IN text[Len(bodies)]

\* The line ends of the sections up to one, and the section a line of the candidate belongs to.
LineEnds(bodies, s) ==
    Cardinality(UNION {{t} \X {k \in DOMAIN bodies[t] : EndsLine(bodies[t][k])} : t \in 1..s})
lineOf(bodies, line) ==
    LET reach == {s \in DOMAIN bodies : line <= LineEnds(bodies, s)}
    IN IF reach = {} THEN Len(bodies) ELSE CHOOSE s \in reach : \A t \in reach : s <= t

\* Mutant: the section a deletion is charged to is not moved along.
OwnersBehind(script, bodies) ==
    [k \in DOMAIN script |->
        IF script[k].newLine > 0 THEN lineOf(bodies, script[k].newLine) ELSE 1]

\* A deletion belongs to the section of the line of the candidate before it.
Owners(script, bodies) ==
    LET Before(k) == {c \in 1..k : script[c].newLine > 0}
        last(k) == CHOOSE c \in Before(k) : \A d \in Before(k) : d <= c
    IN [k \in DOMAIN script |->
           IF Before(k) = {} THEN 1 ELSE lineOf(bodies, script[last(k)].newLine)]

StatusOf(stat, hasEqual) ==
    CASE stat.added = 0 /\ stat.removed = 0 -> "unchanged"
      [] stat.added # 0 /\ stat.removed = 0 /\ ~hasEqual -> "added"
      [] stat.added = 0 /\ stat.removed # 0 /\ ~hasEqual -> "removed"
      [] OTHER -> "modified"

\* What the page says of one section, of whose lines these are the edits.
FileChange(perSec, context) ==
    LET stat == Stat(hunks(perSec, context))
    IN [stat |-> stat, hunks |-> hunks(perSec, context),
        status |-> StatusOf(stat, \E k \in DOMAIN perSec : perSec[k].op = " ")]

SectionDiff(oldText, bodies, context) ==
    LET script == lcsScript(splitLines(oldText), splitLines(Logical(bodies)))
        owners == Owners(script, bodies)
        perSec(s) == Sifted(script, {k \in DOMAIN script : owners[k] = s})
    IN [s \in DOMAIN bodies |-> FileChange(perSec(s), context)]

-----------------------------------------------------------------------------
(* The page.                                                                *)

LiveText == MaskPasswords(page.live)
Candidate == [s \in DOMAIN page.bodies |-> MaskPasswords(page.bodies[s])]
Hunks == Diff(LiveText, Logical(Candidate), page.context)
Files == SectionDiff(LiveText, Candidate, page.context)
Identical == Hunks = <<>>
InSync == page.live = Logical(page.bodies)      \* the hashes of the unmasked texts agree

ChangesInit ==
    page \in [live : {<<>>}, bodies : Layouts, context : Contexts, shown : {FALSE}]

\* The files change by hand or by an apply, the candidate by an edit of the model.
FilesChange == \E t \in Texts : page' = [page EXCEPT !.live = t, !.shown = FALSE]
ModelChanges == \E b \in Layouts : page' = [page EXCEPT !.bodies = b, !.shown = FALSE]
handleChanges == ~page.shown /\ page' = [page EXCEPT !.shown = TRUE]
ChangesNext == FilesChange \/ ModelChanges \/ handleChanges
ChangesSpec == ChangesInit /\ [][ChangesNext]_page

-----------------------------------------------------------------------------
(* Properties.                                                              *)

\* What `patch` makes of the old lines: those between the hunks as they are.
Until(h, out) ==
    IF h.newCount > 0 THEN h.newStart - 1 - Len(out.new) ELSE h.oldStart - 1 - out.taken
PatchedBy(old, h, out) ==
    LET in == Sifted(h.lines, {k \in DOMAIN h.lines : h.lines[k].op # "-"})
    IN [new |-> out.new \o SubSeq(old, out.taken + 1, out.taken + Until(h, out))
                       \o [k \in DOMAIN in |-> in[k].text],
        taken |-> out.taken + Until(h, out) + h.oldCount]
Patched(old, hs) ==
    LET out[h \in 0..Len(hs)] ==
            IF h = 0 THEN [new |-> <<>>, taken |-> 0] ELSE PatchedBy(old, hs[h], out[h - 1])
        all == out[Len(hs)]
    IN all.new \o SubSeq(old, all.taken + 1, Len(old))

\* The common subsequences of two sequences of lines, as their pairs of places.
Alignments(a, b) ==
    {S \in SUBSET {p \in (DOMAIN a) \X (DOMAIN b) : a[p[1]] = b[p[2]]} :
        \A p, q \in S : p = q \/ (p[1] < q[1] /\ p[2] < q[2]) \/ (q[1] < p[1] /\ q[2] < p[2])}

Total(files, field) ==
    LET sum[s \in 0..Len(files)] == IF s = 0 THEN 0 ELSE sum[s - 1] + files[s].stat[field]
    IN sum[Len(files)]

\* The lines of a section, as it stands in the candidate.
OwnLines(s) ==
    LET new == splitLines(Logical(Candidate))
    IN Sifted(new, {k \in DOMAIN new : lineOf(Candidate, k) = s})
StandsIn(run, lines) == \E k \in 0..Len(lines) - Len(run) : SubSeq(lines, k + 1, k + Len(run)) = run

\* What the page shows is the difference: its hunks turn the lines on disk into the lines of the
\* candidate with as few changes as possible, there is none only where the lines agree, the
\* sections' counts add up to the whole, a section called unchanged stands in one piece in the file
\* on disk and one called added shares nothing with it, and a candidate in sync shows no change
\* (splitLines, lcsScript, hunks, buildHunk, SectionDiff and handleChanges).
DiffIsFaithful ==
    LET old == splitLines(LiveText)
        new == splitLines(Logical(Candidate))
        stat == Stat(Hunks)
        files == Files
    IN page.shown =>
          /\ Patched(old, Hunks) = new
          /\ Identical <=> old = new
          /\ \A S \in Alignments(old, new) : Len(new) - Cardinality(S) >= stat.added
          /\ Total(files, "added") = stat.added /\ Total(files, "removed") = stat.removed
          /\ \A s \in DOMAIN files :
                /\ files[s].status = "unchanged" => StandsIn(OwnLines(s), old)
                /\ files[s].status = "added" => files[s].stat.added = Len(OwnLines(s))
          /\ InSync => Identical

=============================================================================
