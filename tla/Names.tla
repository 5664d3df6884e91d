-------------------------------- MODULE Names --------------------------------
(***************************************************************************)
(* Free text turned into rows. Two resolvers look a name up by trigram     *)
(* similarity, each in several statements outside any transaction:         *)
(*  - operators.Resolve folds an operator's name into the operators table; *)
(*  - the destnorm worker resolves the destinations that vessels reported  *)
(*    to ports, while the gazetteer is being seeded.                       *)
(* Operators also form an ownership tree, which a trigger guards and two   *)
(* recursive queries walk.                                                 *)
(*                                                                         *)
(* Abstractions.                                                           *)
(*  - Texts are model values; how alike two of them are is a constant      *)
(*    table, in percent, and so are the words of a destination.            *)
(*  - Aliases are a set: their order is never read.                        *)
(*  - A destination is looked up word by word, the three queries about a   *)
(*    word in one step.                                                    *)
(*  - The trigger's walk is one step. The model has no step for a walk     *)
(*    that never ends, which it does once there is a cycle above.          *)
(*                                                                         *)
(* Bounds: a cast bounds the parts that move, calls of Resolve, faults,    *)
(* changes of a parent and seedings; maxDepth may be smaller than the      *)
(* code's 10.                                                              *)
(***************************************************************************)
EXTENDS Integers, Sequences, FiniteSets

CONSTANTS
  Clients, Inputs,          \* callers of Resolve, and what they call it with
  Fold,                     \* Fold[n]: lower(n)
  Similarity,               \* Similarity[n][m] in percent
  maxDepth,                 \* hierarchy.go
  Reports,                  \* <<vessel, destination>> pairs that vessels may report
  Words,                    \* Words[d]: what candidates yields for d
  junk, abbrevLike,         \* destinations and words
  Ports, PortNames,         \* ports, and what Seed may say of them
  None, Casts

matchThreshold == 50
reviewThreshold == 30
confLocode == 95
confSubseq == 75
minTrigram == 40
minStore == 30

ASSUME NamesAssumption ==
  /\ maxDepth \in Nat
  /\ None \notin Nat /\ None \notin Ports \cup Reports \cup PortNames
  /\ \A r \in Reports : Words[r[2]] \in Seq(STRING)
  /\ \A n \in PortNames :
       /\ n.length \in Nat
       /\ \A r \in Reports : \A k \in DOMAIN Words[r[2]] : n.similarity[Words[r[2]][k]] \in 0 .. 100
  /\ \A n, m \in Inputs :
       /\ Similarity[n][m] \in 0 .. 100 /\ Similarity[n][m] = Similarity[m][n]
       /\ Fold[n] = Fold[m] => Similarity[n][m] = 100

VARIABLES
  cast, faults, calls, moves, seeds,
  operators,  \* sequence of rows, by id
  reviews,    \* operator_review_queue: inputs with a candidate
  client,     \* where each caller's Resolve is
  unsure,     \* operators whose creator had not seen a similar one, or failed
  updates,    \* uncommitted updates of a parent
  crossed,    \* some two of them overlapped
  gazetteer,  \* ports: names by port, None if it is not there
  reported,   \* pairs the scan's query finds
  hints,      \* destination_hints: best port and confidence by pair
  scan,       \* the scan's rows, the one it is at, and what it has found
  sure        \* pairs resolved under the gazetteer as it is

resolving == <<calls, reviews, client, unsure>>
owning == <<moves, updates, crossed>>
scanning == <<seeds, gazetteer, reported, hints, scan, sure>>
vars == <<cast, faults, operators, resolving, owning, scanning>>

Idle == [at |-> "idle", name |-> None, seen |-> {}, cand |-> None]
NoScan == [rows |-> {}, pair |-> None, words |-> <<>>, port |-> None, best |-> 0, clean |-> TRUE]

Init ==
  /\ cast \in Casts /\ faults = 0 /\ calls = 0 /\ moves = 0 /\ seeds = 0
  /\ operators = <<>> /\ reviews = {} /\ client = [c \in Clients |-> Idle]
  /\ unsure = {} /\ updates = {} /\ crossed = FALSE
  /\ gazetteer = [p \in Ports |-> None] /\ reported = {}
  /\ hints = [r \in Reports |-> None] /\ scan = NoScan /\ sure = {}

-----------------------------------------------------------------------------
(* Resolve.                                                                *)

Ids == DOMAIN operators

\* Exact match on canonical or an alias, whatever the case.
IsKnownAs(o, n) == \E a \in {o.canonical} \cup o.aliases : Fold[a] = Fold[n]

\* Candidates of the trigram query: `%` keeps those above the review floor.
Alike(n) == {i \in Ids : Similarity[operators[i].canonical][n] >= reviewThreshold}

Likeness(i, n) == Similarity[operators[i].canonical][n]

At(c, step) == client[c].at = step

Goes(c, step) == client' = [client EXCEPT ![c].at = step]

\* Resolve returns.
Done(c) == client' = [client EXCEPT ![c] = Idle]

Exact(c) ==
  /\ At(c, "idle") /\ calls < cast.calls /\ calls' = calls + 1
  /\ \E n \in Inputs :
       client' = IF \E i \in Ids : IsKnownAs(operators[i], n)
                   THEN client
                   ELSE [client EXCEPT ![c] = [Idle EXCEPT !.at = "trigram", !.name = n]]
  /\ UNCHANGED <<cast, faults, operators, reviews, unsure, owning, scanning>>

\* The closest candidate, if it is close enough, is the answer.
Trigram(c) ==
  /\ At(c, "trigram")
  /\ LET n == client[c].name
         Goto(step, cand) ==
           client' = [client EXCEPT ![c] = [at |-> step, name |-> n, seen |-> Ids, cand |-> cand]]
     IN \/ Alike(n) = {} /\ Goto("create", None)
        \/ \E i \in Alike(n) :
             /\ \A k \in Alike(n) : Likeness(i, n) >= Likeness(k, n)
             /\ Goto(IF Likeness(i, n) >= matchThreshold THEN "alias" ELSE "create", i)
  /\ UNCHANGED <<cast, faults, operators, calls, reviews, unsure, owning, scanning>>

AddAlias(c) ==
  /\ At(c, "alias")
  /\ LET n == client[c].name
     IN operators' =
          [operators EXCEPT ![client[c].cand].aliases =
             IF IsKnownAs(operators[client[c].cand], n) THEN @ ELSE @ \cup {n}]
  /\ Done(c)
  /\ UNCHANGED <<cast, faults, calls, reviews, unsure, owning, scanning>>

\* Mutant: only a candidate that is not even alike is reviewed.
ToReviewNone(c) == client[c].cand = None

\* A candidate in the grey zone is queued for review.
ToReview(c) == client[c].cand # None

\* ON CONFLICT (canonical) the row that is there is the one created.
Create(c) ==
  /\ At(c, "create")
  /\ LET n == client[c].name
         new == \A i \in Ids : operators[i].canonical # n
     IN /\ operators' = IF new
             THEN Append(operators, [canonical |-> n, aliases |-> {}, parent |-> None])
             ELSE operators
        /\ unsure' = IF new /\ ~(Alike(n) \subseteq client[c].seen)
             THEN unsure \cup {Len(operators) + 1} ELSE unsure
  /\ IF ToReview(c) THEN Goes(c, "review") ELSE Done(c)
  /\ UNCHANGED <<cast, faults, calls, reviews, owning, scanning>>

QueueReview(c) ==
  /\ At(c, "review") /\ reviews' = reviews \cup {<<client[c].name, client[c].cand>>}
  /\ Done(c)
  /\ UNCHANGED <<cast, faults, operators, calls, unsure, owning, scanning>>

\* A statement fails. An operator created before stays.
ResolveFails(c) ==
  /\ client[c].at # "idle" /\ faults < cast.faults /\ faults' = faults + 1
  /\ unsure' = unsure \cup {i \in Ids : At(c, "review") /\ operators[i].canonical = client[c].name}
  /\ Done(c)
  /\ UNCHANGED <<cast, operators, calls, reviews, owning, scanning>>

Resolve(c) ==
  Exact(c) \/ Trigram(c) \/ AddAlias(c) \/ Create(c) \/ QueueReview(c) \/ ResolveFails(c)

-----------------------------------------------------------------------------
(* The ownership tree.                                                     *)

ParentOf(i) == IF i = None THEN None ELSE operators[i].parent

\* The d-th owner above i, or None.
Owner(i, d) ==
  LET up[k \in 0 .. d] == IF k = 0 THEN i ELSE ParentOf(up[k - 1])
  IN up[d]

\* AncestorChain: the operator and its owners, with their depths.
AncestorChain(i) ==
  {<<Owner(i, d), d>> : d \in {k \in 0 .. maxDepth : Owner(i, k) # None}}

\* Mutant: the depth guard is off by one.
GroupShort(g) ==
  LET down[d \in 0 .. maxDepth] ==
        IF d = 0 THEN {g} ELSE {i \in Ids : operators[i].parent \in down[d - 1]}
  IN UNION {down[d] \X {d} : d \in 0 .. maxDepth - 1}

\* VesselsByGroup: the operators of the group whose vessels are returned. Each
\* round joins the children of the rows found in the last.
Group(g) ==
  LET down[d \in 0 .. maxDepth] ==
        IF d = 0 THEN {g} ELSE {i \in Ids : operators[i].parent \in down[d - 1]}
  IN UNION {down[d] \X {d} : d \in 0 .. maxDepth}

\* Mutant: only the immediate owner is looked at.
RejectsLoop(i, p) == p = i \/ ParentOf(p) = i

\* The trigger: would the edge from i to p close a loop?
RejectsCycle(i, p) == \E d \in 0 .. Len(operators) : Owner(p, d) = i

Ends(p) == Owner(p, Len(operators)) = None

\* An UPDATE locks its row; the trigger sees what is committed.
SetParent(i, p) ==
  /\ moves < cast.moves /\ moves' = moves + 1
  /\ \A u \in updates : u[1] # i
  /\ Ends(p) /\ ~RejectsCycle(i, p)
  /\ updates' = updates \cup {<<i, p>>}
  /\ crossed' = (crossed \/ updates # {})
  /\ UNCHANGED <<cast, faults, operators, resolving, scanning>>

CommitParent(u) ==
  /\ updates' = updates \ {u}
  /\ operators' = [operators EXCEPT ![u[1]].parent = u[2]]
  /\ UNCHANGED <<cast, faults, moves, crossed, resolving, scanning>>

-----------------------------------------------------------------------------
(* The destination scan.                                                   *)

\* Mutant: the last candidate stays, however weak.
considerLast(found, p, c) == IF p # None THEN [found EXCEPT !.port = p, !.best = c] ELSE found

\* The stronger candidate, the first of equals.
consider(found, p, c) ==
  IF p # None /\ c > found.best THEN [found EXCEPT !.port = p, !.best = c] ELSE found

Here == {p \in Ports : gazetteer[p] # None}

\* The ports a query's ORDER BY may put first: least by key.
FirstBy(ports, key) ==
  LET first == {p \in ports : \A q \in ports : key[p] <= key[q]}
  IN IF first = {} THEN {None} ELSE first

Locode(w) ==
  LET found == {p \in Here : gazetteer[p].un_locode = w}
  IN IF found = {} THEN {None} ELSE found

Sim(p, w) == gazetteer[p].similarity[w]

\* ORDER BY sim DESC, length(name).
Nearest(w) ==
  LET near == {p \in Here : Sim(p, w) >= reviewThreshold}
      length == [p \in Here |-> gazetteer[p].length]
  IN FirstBy({p \in near : \A q \in near : Sim(q, w) <= Sim(p, w)}, length)

\* The shortest name that holds the word's letters in their order.
Subsequence(w) ==
  LET key == [p \in Here |-> gazetteer[p].length]
  IN FirstBy({p \in Here : w \in gazetteer[p].spells}, key)

\* What the three lookups of a word may add to what was found.
Look(found, w) ==
  {LET byTrigram == consider(consider(found, l, confLocode),
                             IF t # None /\ Sim(t, w) >= minTrigram THEN t ELSE None,
                             IF t # None THEN Sim(t, w) ELSE 0)
   IN IF w \in abbrevLike THEN consider(byTrigram, s, confSubseq) ELSE byTrigram :
     l \in Locode(w), t \in Nearest(w), s \in Subsequence(w)}

\* The scan's query.
StartScan ==
  /\ "destinations" \in cast.parts /\ scan.rows = {} /\ reported # {}
  /\ scan' = [NoScan EXCEPT !.rows = reported]
  /\ UNCHANGED <<cast, faults, operators, resolving, owning, seeds, gazetteer, reported, hints, sure>>

NextPair ==
  /\ scan.pair = None
  /\ \E r \in scan.rows :
       scan' = [NoScan EXCEPT !.rows = scan.rows, !.pair = r,
                              !.words = IF r[2] \in junk THEN <<>> ELSE Words[r[2]]]
  /\ UNCHANGED <<cast, faults, operators, resolving, owning, seeds, gazetteer, reported, hints, sure>>

LookUp ==
  /\ scan.words # <<>>
  /\ \E found \in Look(scan, Head(scan.words)) :
       scan' = [found EXCEPT !.words = Tail(@)]
  /\ UNCHANGED <<cast, faults, operators, resolving, owning, seeds, gazetteer, reported, hints, sure>>

\* Unresolved strings are recorded too, with no port.
Upsert ==
  /\ scan.pair # None /\ scan.words = <<>>
  /\ LET ok == scan.best >= minStore
     IN hints' = [hints EXCEPT ![scan.pair] =
                    [port |-> IF ok THEN scan.port ELSE None,
                     confidence |-> IF ok THEN scan.best ELSE 0]]
  /\ sure' = IF scan.clean THEN sure \cup {scan.pair} ELSE sure
  /\ scan' = [NoScan EXCEPT !.rows = scan.rows \ {scan.pair}]
  /\ UNCHANGED <<cast, faults, operators, resolving, owning, seeds, gazetteer, reported>>

\* A query or an upsert fails, and the scan with it.
ScanFails ==
  /\ scan.rows # {} /\ faults < cast.faults /\ faults' = faults + 1
  /\ scan' = NoScan
  /\ UNCHANGED <<cast, operators, resolving, owning, seeds, gazetteer, reported, hints, sure>>

ReportDestination ==
  /\ "destinations" \in cast.parts
  /\ \E r \in Reports \ reported : reported' = reported \cup {r}
  /\ UNCHANGED <<cast, faults, operators, resolving, owning, seeds, gazetteer, hints, scan, sure>>

\* A report leaves the lookback.
Expire ==
  /\ \E r \in reported : reported' = reported \ {r}
  /\ UNCHANGED <<cast, faults, operators, resolving, owning, seeds, gazetteer, hints, scan, sure>>

\* Seed adds ports and renames them.
Seed ==
  /\ seeds < cast.seeds /\ seeds' = seeds + 1
  /\ \E p \in Ports, n \in PortNames : gazetteer' = [gazetteer EXCEPT ![p] = n]
  /\ sure' = {} /\ scan' = [scan EXCEPT !.clean = FALSE]
  /\ UNCHANGED <<cast, faults, operators, resolving, owning, reported, hints>>

-----------------------------------------------------------------------------
Next ==
  \/ \E c \in Clients : Resolve(c)
  \/ \E i, p \in Ids : SetParent(i, p)
  \/ \E u \in updates : CommitParent(u)
  \/ StartScan \/ NextPair \/ LookUp \/ Upsert \/ ScanFails
  \/ ReportDestination \/ Expire \/ Seed

Spec == Init /\ [][Next]_vars

-----------------------------------------------------------------------------
(* Properties.                                                             *)

\* "Instead of silently merging or forking operators": of two operators with alike
\* names the later one waits for review and is not so close that it should have
\* been folded, unless its creator overlapped another or failed before the review.
ForksAreReviewed ==
  \A j \in Ids \ unsure : \A i \in 1 .. j - 1 :
    Likeness(i, operators[j].canonical) >= reviewThreshold =>
      /\ Likeness(i, operators[j].canonical) < matchThreshold
      /\ \/ \E r \in reviews : r[1] = operators[j].canonical
         \/ \E c \in Clients : At(c, "review") /\ client[c].name = operators[j].canonical

\* The trigger keeps ownership free of cycles, as long as no two updates overlap.
OwnershipIsTree == ~crossed => \A i \in Ids : Owner(i, Len(operators)) = None

\* The two recursive queries agree, cycles and the depth limit included: an operator
\* is in a group, at some depth, where the group is among its owners.
GroupsMatchChains ==
  \A g, i \in Ids, d \in 0 .. maxDepth :
    <<i, d>> \in Group(g) <=> <<g, d>> \in AncestorChain(i)

\* What any of the signals says of a destination.
Signals(d) ==
  LET words == {Words[d][k] : k \in DOMAIN Words[d]}
  IN {s \in Here \X (1 .. 100) : \E w \in words :
        \/ gazetteer[s[1]].un_locode = w /\ s[2] = confLocode
        \/ s[2] = Sim(s[1], w) /\ s[2] >= minTrigram
        \/ w \in gazetteer[s[1]].spells /\ w \in abbrevLike /\ s[2] = confSubseq}

\* A hint written under the gazetteer as it is names a port that no signal beats,
\* over scans that fail half-way and are repeated; junk names none.
HintsAreBest ==
  \A r \in sure :
    LET d == r[2]
        signals == IF d \in junk THEN {} ELSE Signals(d)
        h == hints[r]
    IN IF signals = {} THEN h.port = None /\ h.confidence = 0
       ELSE /\ <<h.port, h.confidence>> \in signals
            /\ \A s \in signals : s[2] <= h.confidence
=============================================================================
