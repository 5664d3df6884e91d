----------------------------- MODULE NamesProofs -----------------------------
(***************************************************************************)
(* Operators and destinations, for any names, ports and similarities.      *)
(*  - Forks: a call that is about to create has chosen the nearest of the  *)
(*    operators it saw (Chosen), so it queues a review or is unsure.       *)
(*  - Ownership: every chain ends, and an update that waits leads to an    *)
(*    owner that is not below the row it moves (Tree). A chain that ends   *)
(*    visits no operator twice, so it ends within as many steps as there   *)
(*    are operators, which is as far as the trigger looks.                 *)
(*  - Groups: by depth, the rows of a round are those so far below.        *)
(*  - Hints: what a scan has found is the best that the words it has       *)
(*    looked up give (Found), unless the gazetteer changed meanwhile.      *)
(* Induction over depths is by the least number that fails (EveryNat).     *)
(***************************************************************************)
EXTENDS Names, TLAPS, FiniteSetTheorems, NaturalsInduction

USE DEF matchThreshold, reviewThreshold

Row == [canonical : Inputs, aliases : SUBSET Inputs, parent : Nat \cup {None}]

Call == [at : {"idle", "trigram", "alias", "create", "review"}, name : Inputs \cup {None},
         seen : SUBSET Nat, cand : Nat \cup {None}]

Rows == operators \in Seq(Row) /\ \A i \in Ids : operators[i].parent \in Ids \cup {None}

\* A call in progress has a name and, to add an alias, an operator.
Sound(k) ==
  /\ k.seen \subseteq Ids /\ k.cand \in Ids \cup {None}
  /\ k.at # "idle" => k.name \in Inputs
  /\ k.at = "alias" => k.cand \in Ids

Calls == client \in [Clients -> Call] /\ \A c \in Clients : Sound(client[c])

Typed == Rows /\ Calls /\ updates \subseteq Ids \X Ids

-----------------------------------------------------------------------------
(* Rows stay: operators are added, and their names never change.           *)

\* Places of rows are numbers, and what is there is a row.
LEMMA RowFacts ==
  ASSUME Rows
  PROVE  /\ Ids = 1 .. Len(operators) /\ Len(operators) \in Nat
         /\ \A i \in Ids : i \in Nat /\ i # None /\ operators[i] \in Row
<1>1. operators \in Seq(Row)
  BY DEF Rows
<1>2. Ids = 1 .. Len(operators) /\ Len(operators) \in Nat /\ \A i \in Ids : operators[i] \in Row
  BY <1>1 DEF Ids
<1>3. None \notin Nat
  BY NamesAssumption
<1> QED
  BY <1>2, <1>3

\* A row put at the end leaves the others where they are.
LEMMA RowAdded ==
  ASSUME Rows, NEW n \in Inputs,
         operators' = Append(operators, [canonical |-> n, aliases |-> {}, parent |-> None])
  PROVE  /\ Rows' /\ Ids' = Ids \cup {Len(operators) + 1} /\ Len(operators) + 1 \notin Ids
         /\ \A i \in Ids : operators'[i] = operators[i]
         /\ operators'[Len(operators) + 1] = [canonical |-> n, aliases |-> {}, parent |-> None]
<1> DEFINE new == [canonical |-> n, aliases |-> {}, parent |-> None]
<1>1. new \in Row /\ operators \in Seq(Row) /\ Len(operators) \in Nat
  BY DEF Row, Rows
<1> HIDE DEF new
<1>2. operators' = Append(operators, new)
  BY DEF new
<1>3. /\ operators' \in Seq(Row) /\ Len(operators') = Len(operators) + 1
      /\ \A i \in 1 .. Len(operators) : operators'[i] = operators[i]
      /\ operators'[Len(operators) + 1] = new
  BY <1>1, <1>2
<1>4. DOMAIN operators = 1 .. Len(operators) /\ DOMAIN operators' = 1 .. Len(operators')
  BY <1>1, <1>3
<1>5. /\ Ids' = Ids \cup {Len(operators) + 1} /\ Len(operators) + 1 \notin Ids
      /\ \A i \in Ids : operators'[i] = operators[i]
  BY <1>1, <1>3, <1>4 DEF Ids
<1>6. ASSUME NEW i \in Ids'
      PROVE  operators'[i].parent \in Ids' \cup {None}
  <2>1. CASE i \in Ids
    BY <1>5, <2>1 DEF Rows
  <2>2. CASE i = Len(operators) + 1
    BY <1>3, <2>2 DEF new
  <2> QED
    BY <1>5, <2>1, <2>2
<1>7. Rows'
  BY <1>3, <1>6 DEF Rows
<1> QED
  BY <1>3, <1>5, <1>7 DEF new

\* Another row with an owner that is there may take the place of one.
LEMMA RowReplaced ==
  ASSUME Rows, NEW k \in Ids, NEW row \in Row, row.parent \in Ids \cup {None},
         operators' = [operators EXCEPT ![k] = row]
  PROVE  /\ Rows' /\ Ids' = Ids /\ operators'[k] = row
         /\ \A i \in Ids \ {k} : operators'[i] = operators[i]
<1>1. operators \in Seq(Row) /\ k \in 1 .. Len(operators)
  BY RowFacts DEF Rows
<1>2. operators' \in Seq(Row) /\ Len(operators') = Len(operators)
  BY <1>1
<1>3. Ids' = Ids /\ operators'[k] = row /\ \A i \in Ids \ {k} : operators'[i] = operators[i]
  BY <1>1, <1>2 DEF Ids
<1>4. ASSUME NEW i \in Ids
      PROVE  operators'[i].parent \in Ids \cup {None}
  BY <1>3 DEF Rows
<1> QED
  BY <1>2, <1>3, <1>4 DEF Rows

\* A change of aliases leaves names and owners alone.
LEMMA AliasAdded ==
  ASSUME Typed, NEW c \in Clients, AddAlias(c)
  PROVE  /\ Rows' /\ Ids' = Ids
         /\ \A i \in Ids : /\ operators'[i].canonical = operators[i].canonical
                           /\ operators'[i].parent = operators[i].parent
<1> DEFINE k == client[c].cand
           old == operators[k].aliases
           with == IF IsKnownAs(operators[k], client[c].name) THEN old ELSE old \cup {client[c].name}
<1>1. k \in Ids /\ client[c].name \in Inputs
  BY DEF Typed, Calls, Sound, AddAlias, At
<1>2. operators \in Seq(Row) /\ operators[k] \in Row
  BY <1>1, RowFacts DEF Typed, Rows
<1>3. with \in SUBSET Inputs
  BY <1>1, <1>2 DEF Row
<1>4. operators' = [operators EXCEPT ![k] = [operators[k] EXCEPT !.aliases = with]]
  BY DEF AddAlias
<1> HIDE DEF k, with
<1> DEFINE row == [operators[k] EXCEPT !.aliases = with]
<1>5. /\ row \in Row /\ row.canonical = operators[k].canonical
      /\ row.parent = operators[k].parent
  BY <1>2, <1>3 DEF Row
<1> HIDE DEF row
<1>6. operators' = [operators EXCEPT ![k] = row]
  BY <1>4 DEF row
<1>7. Rows /\ row.parent \in Ids \cup {None}
  BY <1>1, <1>5 DEF Typed, Rows
<1>8. /\ Rows' /\ Ids' = Ids /\ operators'[k] = row
      /\ \A i \in Ids \ {k} : operators'[i] = operators[i]
  BY <1>1, <1>5, <1>6, <1>7, RowReplaced
<1> QED
  BY <1>5, <1>8

\* A commit sets the owner of one row.
LEMMA ParentSet ==
  ASSUME Typed, NEW u \in updates, CommitParent(u)
  PROVE  /\ Rows' /\ Ids' = Ids /\ u[1] \in Ids /\ u[2] \in Ids
         /\ operators'[u[1]].canonical = operators[u[1]].canonical
         /\ operators'[u[1]].parent = u[2]
         /\ \A i \in Ids \ {u[1]} : operators'[i] = operators[i]
<1>1. u[1] \in Ids /\ u[2] \in Ids
  BY DEF Typed
<1>2. operators \in Seq(Row) /\ operators[u[1]] \in Row /\ u[2] \in Nat
  BY <1>1, RowFacts DEF Typed, Rows
<1> DEFINE row == [operators[u[1]] EXCEPT !.parent = u[2]]
<1>3. /\ row \in Row /\ row.canonical = operators[u[1]].canonical /\ row.parent = u[2]
  BY <1>2 DEF Row
<1>4. operators' = [operators EXCEPT ![u[1]] = row]
  BY DEF CommitParent
<1> HIDE DEF row
<1>5. Rows /\ row.parent \in Ids \cup {None}
  BY <1>1, <1>3 DEF Typed
<1>6. /\ Rows' /\ Ids' = Ids /\ operators'[u[1]] = row
      /\ \A i \in Ids \ {u[1]} : operators'[i] = operators[i]
  BY <1>1, <1>3, <1>4, <1>5, RowReplaced
<1> QED
  BY <1>1, <1>3, <1>6

\* Operators stay, under their names.
LEMMA NamesStay ==
  ASSUME Typed, [Next]_vars
  PROVE  /\ Rows' /\ Ids \subseteq Ids'
         /\ \A i \in Ids : operators'[i].canonical = operators[i].canonical
<1>1. CASE operators' = operators
  BY <1>1 DEF Typed, Rows, Ids
<1>2. ASSUME NEW c \in Clients, Create(c)
      PROVE  /\ Rows' /\ Ids \subseteq Ids'
             /\ \A i \in Ids : operators'[i].canonical = operators[i].canonical
  <2>1. client[c].name \in Inputs
    BY <1>2 DEF Typed, Calls, Sound, Create, At
  <2>2. \/ operators' = operators
        \/ operators' = Append(operators, [canonical |-> client[c].name, aliases |-> {}, parent |-> None])
    BY <1>2 DEF Create
  <2> QED
    BY <1>1, <2>1, <2>2, RowAdded DEF Typed
<1>3. ASSUME NEW c \in Clients, AddAlias(c)
      PROVE  /\ Rows' /\ Ids \subseteq Ids'
             /\ \A i \in Ids : operators'[i].canonical = operators[i].canonical
  BY <1>3, AliasAdded
<1>4. ASSUME NEW u \in updates, CommitParent(u)
      PROVE  /\ Rows' /\ Ids \subseteq Ids'
             /\ \A i \in Ids : operators'[i].canonical = operators[i].canonical
  BY <1>4, ParentSet
<1> QED
  BY <1>1, <1>2, <1>3, <1>4
  DEF Next, vars, resolving, owning, scanning, Resolve, Exact, Trigram, QueueReview, ResolveFails,
      SetParent, StartScan, NextPair, LookUp, Upsert, ScanFails, ReportDestination, Expire, Seed

\* How alike an operator is to a name is a number.
LEMMA LikenessIsNumber ==
  ASSUME Rows, NEW i \in Ids, NEW n \in Inputs
  PROVE  Likeness(i, n) \in 0 .. 100
<1>1. operators[i].canonical \in Inputs
  BY RowFacts DEF Row
<1> QED
  BY <1>1, NamesAssumption DEF Likeness

\* What the trigram query may decide: a candidate is given an alias, or an operator
\* is created; then none is close enough, and there is a candidate if any is alike.
Decides(n, step, cand) ==
  /\ step \in {"alias", "create"} /\ cand \in Ids \cup {None}
  /\ step = "alias" => cand \in Ids
  /\ step = "create" => \A i \in Alike(n) : cand # None /\ Likeness(i, n) < matchThreshold

\* The trigram query looks at every operator.
LEMMA TrigramDecides ==
  ASSUME Rows, Calls, NEW c \in Clients, Trigram(c), NEW n, n = client[c].name
  PROVE  /\ n \in Inputs
         /\ \E step, cand :
              /\ Decides(n, step, cand)
              /\ client' = [client EXCEPT ![c] = [at |-> step, name |-> n, seen |-> Ids, cand |-> cand]]
<1> DEFINE Goto(step, cand) ==
      client' = [client EXCEPT ![c] = [at |-> step, name |-> n, seen |-> Ids, cand |-> cand]]
<1>1. \/ Alike(n) = {} /\ Goto("create", None)
      \/ \E i \in Alike(n) :
           /\ \A k \in Alike(n) : Likeness(i, n) >= Likeness(k, n)
           /\ Goto(IF Likeness(i, n) >= matchThreshold THEN "alias" ELSE "create", i)
  BY DEF Trigram
<1> HIDE DEF Goto
<1>2. n \in Inputs
  BY DEF Trigram, At, Calls, Sound
<1>3. ASSUME Alike(n) = {}, Goto("create", None)
      PROVE  \E step, cand : Decides(n, step, cand) /\ Goto(step, cand)
  BY <1>3 DEF Decides
<1>4. ASSUME NEW i \in Alike(n), \A k \in Alike(n) : Likeness(i, n) >= Likeness(k, n),
             Goto(IF Likeness(i, n) >= matchThreshold THEN "alias" ELSE "create", i)
      PROVE  \E step, cand : Decides(n, step, cand) /\ Goto(step, cand)
  <2>1. i \in Ids /\ i # None
    BY RowFacts DEF Alike
  <2>2. ASSUME NEW k \in Alike(n)
        PROVE  Likeness(k, n) \in 0 .. 100
    <3>1. k \in Ids
      BY DEF Alike
    <3> QED
      BY <1>2, <3>1, LikenessIsNumber
  <2>3. CASE Likeness(i, n) >= matchThreshold
    BY <1>4, <2>1, <2>3 DEF Decides
  <2>4. CASE ~(Likeness(i, n) >= matchThreshold)
    <3>1. Goto("create", i)
      BY <1>4, <2>4
    <3>2. ASSUME NEW k \in Alike(n)
          PROVE  Likeness(k, n) < matchThreshold
      <4>1. PICK a, b : a = Likeness(k, n) /\ b = Likeness(i, n)
        OBVIOUS
      <4>2. a \in 0 .. 100 /\ b \in 0 .. 100
        BY <2>2, <4>1
      <4>3. b >= a /\ ~(b >= matchThreshold)
        BY <1>4, <2>4, <4>1
      <4> QED
        BY <4>1, <4>2, <4>3
    <3>3. Decides(n, "create", i)
      BY <2>1, <3>2 DEF Decides
    <3> QED
      BY <3>1, <3>3
  <2> QED
    BY <2>3, <2>4
<1> QED
  BY <1>1, <1>2, <1>3, <1>4 DEF Goto

\* Sound calls stay sound when operators are added, and may take each other's place.
LEMMA CallReplaced ==
  ASSUME Calls, Ids \subseteq Ids', NEW c \in Clients, NEW k \in Call, Sound(k),
         client' = [client EXCEPT ![c] = k]
  PROVE  Calls'
  BY DEF Calls, Sound

\* Every step leaves the calls sound.
LEMMA StepKeepsCalls ==
  ASSUME Typed, [Next]_vars
  PROVE  Calls'
<1>1. Ids \subseteq Ids' /\ Ids \subseteq Nat /\ Calls
  BY NamesStay, RowFacts DEF Typed
<1>2. CASE UNCHANGED client
  BY <1>1, <1>2 DEF Calls, Sound
<1>3. ASSUME NEW c \in Clients, Done(c)
      PROVE  Calls'
  <2>1. client' = [client EXCEPT ![c] = Idle] /\ Idle \in Call /\ Sound(Idle)
    BY <1>3 DEF Done, Idle, Call, Sound
  <2> QED
    BY <1>1, <2>1, CallReplaced
<1>4. ASSUME NEW c \in Clients, Exact(c), client' # client
      PROVE  Calls'
  <2>1. PICK n \in Inputs : client' = [client EXCEPT ![c] = [Idle EXCEPT !.at = "trigram", !.name = n]]
    BY <1>4 DEF Exact
  <2> DEFINE k == [Idle EXCEPT !.at = "trigram", !.name = n]
  <2>2. k \in Call /\ Sound(k)
    BY DEF Idle, Sound, Call
  <2> QED
    BY <1>1, <2>1, <2>2, CallReplaced
<1>5. ASSUME NEW c \in Clients, Trigram(c), NEW n, n = client[c].name
      PROVE  Calls'
  <2>1. n \in Inputs /\ \E step, cand :
          /\ Decides(n, step, cand)
          /\ client' = [client EXCEPT ![c] = [at |-> step, name |-> n, seen |-> Ids, cand |-> cand]]
    BY <1>5, TrigramDecides DEF Typed
  <2>2. PICK step, cand :
          /\ Decides(n, step, cand)
          /\ client' = [client EXCEPT ![c] = [at |-> step, name |-> n, seen |-> Ids, cand |-> cand]]
    BY <2>1
  <2> DEFINE k == [at |-> step, name |-> n, seen |-> Ids, cand |-> cand]
  <2>3. k \in Call
    BY <1>1, <2>1, <2>2 DEF Call, Decides
  <2>4. Sound(k)
    BY <2>1, <2>2 DEF Sound, Decides
  <2> QED
    BY <1>1, <2>2, <2>3, <2>4, CallReplaced
<1>6. ASSUME NEW c \in Clients, Create(c), Goes(c, "review")
      PROVE  Calls'
  <2> DEFINE k == [client[c] EXCEPT !.at = "review"]
  <2>1. k \in Call /\ Sound(k)
    BY <1>1, <1>6 DEF Calls, Sound, Call, Create, At
  <2>2. client' = [client EXCEPT ![c] = k]
    BY <1>6 DEF Goes
  <2> QED
    BY <1>1, <2>1, <2>2, CallReplaced
<1> QED
  BY <1>2, <1>3, <1>4, <1>5, <1>6
  DEF Next, vars, resolving, owning, scanning, Resolve, Create, AddAlias, QueueReview, ResolveFails,
      SetParent, CommitParent, StartScan, NextPair, LookUp, Upsert, ScanFails, ReportDestination,
      Expire, Seed

\* Initial states are typed.
LEMMA InitTyped == Init => Typed
<1> SUFFICES ASSUME Init PROVE Typed
  OBVIOUS
<1>1. Rows /\ Ids = {}
  BY DEF Init, Rows, Ids
<1>2. Idle \in Call /\ Sound(Idle)
  BY DEF Idle, Call, Sound
<1> QED
  BY <1>1, <1>2 DEF Init, Typed, Calls

\* So is the result of every step.
LEMMA StepKeepsTyped ==
  ASSUME Typed, [Next]_vars
  PROVE  Typed'
<1>1. Rows' /\ Calls' /\ Ids \subseteq Ids'
  BY NamesStay, StepKeepsCalls
<1>2. updates \subseteq Ids' \X Ids'
  BY <1>1 DEF Typed
<1>3. ASSUME NEW i \in Ids, NEW p \in Ids, SetParent(i, p)
      PROVE  updates' \subseteq Ids' \X Ids'
  BY <1>1, <1>2, <1>3 DEF SetParent
<1>4. ASSUME NEW u \in updates, CommitParent(u)
      PROVE  updates' \subseteq Ids' \X Ids'
  BY <1>2, <1>4 DEF CommitParent
<1>5. updates' = updates => updates' \subseteq Ids' \X Ids'
  BY <1>2
<1>6. updates' \subseteq Ids' \X Ids'
  BY <1>3, <1>4, <1>5 DEF Next, vars, resolving, owning, scanning, Resolve, Exact, Trigram, AddAlias,
     Create, QueueReview, ResolveFails, StartScan, NextPair, LookUp, Upsert, ScanFails,
     ReportDestination, Expire, Seed
<1> QED
  BY <1>1, <1>6 DEF Typed

-----------------------------------------------------------------------------
(* Forks are reviewed.  A caller about to create an operator has, among    *)
(* those it saw, a candidate if any is alike, and none close enough to     *)
(* take its name; those it did not see make the new one unsure.            *)

Chosen ==
  \A c \in Clients : At(c, "create") =>
    \A i \in Alike(client[c].name) \cap client[c].seen :
      client[c].cand # None /\ Likeness(i, client[c].name) < matchThreshold

\* An operator's name is in the review queue, or about to be.
Awaits(n) ==
  \/ \E r \in reviews : r[1] = n
  \/ \E c \in Clients : At(c, "review") /\ client[c].name = n

\* How alike an operator is to a name never changes.
LEMMA LikenessStays ==
  ASSUME Typed, [Next]_vars, NEW i \in Ids, NEW n \in Inputs
  PROVE  /\ Likeness(i, n)' = Likeness(i, n) /\ Likeness(i, n) \in 0 .. 100
<1>1. /\ i \in Ids' /\ operators'[i].canonical = operators[i].canonical
      /\ Likeness(i, n) \in 0 .. 100
  BY NamesStay, LikenessIsNumber DEF Typed
<1> QED
  BY <1>1 DEF Likeness

\* A statement of one call leaves the others alone.
LEMMA OthersStay ==
  ASSUME Typed, NEW b \in Clients, Resolve(b), NEW c \in Clients, c # b
  PROVE  client'[c] = client[c]
<1>1. client \in [Clients -> Call]
  BY DEF Typed, Calls
<1>2. ASSUME NEW k, client' = [client EXCEPT ![b] = k]
      PROVE  client'[c] = client[c]
  BY <1>1, <1>2
<1>3. CASE Exact(b)
  BY <1>2, <1>3 DEF Exact
<1>4. CASE Trigram(b)
  BY <1>2, <1>4 DEF Trigram
<1>5. CASE Done(b)
  BY <1>2, <1>5 DEF Done
<1>6. CASE Goes(b, "review")
  BY <1>1, <1>6 DEF Goes
<1> QED
  BY <1>3, <1>4, <1>5, <1>6 DEF Resolve, AddAlias, Create, QueueReview, ResolveFails

\* Every step keeps the choice of those about to create.
LEMMA StepKeepsChosen ==
  ASSUME Typed, Chosen, [Next]_vars
  PROVE  Chosen'
<1> SUFFICES ASSUME NEW c \in Clients, At(c, "create")', NEW k, k = client'[c], NEW n, n = k.name,
                    NEW i \in k.seen, Likeness(i, n)' >= reviewThreshold
             PROVE  k.cand # None /\ Likeness(i, n)' < matchThreshold
  BY DEF Chosen, Alike, Likeness
<1>1. CASE k = client[c]
  <2>1. n \in Inputs /\ i \in Ids /\ At(c, "create")
    BY <1>1 DEF At, Typed, Calls, Sound
  <2>2. i \in Alike(n) /\ Likeness(i, n)' = Likeness(i, n)
    <3>1. Likeness(i, n)' = Likeness(i, n)
      BY <2>1, LikenessStays
    <3> QED
      BY <2>1, <3>1 DEF Alike, Likeness
  <2> QED
    BY <1>1, <2>1, <2>2 DEF Chosen
<1>2. CASE Trigram(c)
  <2>1. PICK m : m = client[c].name
    OBVIOUS
  <2>2. m \in Inputs /\ \E step, cand :
          /\ Decides(m, step, cand)
          /\ client' = [client EXCEPT ![c] = [at |-> step, name |-> m, seen |-> Ids, cand |-> cand]]
    BY <1>2, <2>1, TrigramDecides DEF Typed
  <2>3. PICK step, cand :
          /\ Decides(m, step, cand)
          /\ client' = [client EXCEPT ![c] = [at |-> step, name |-> m, seen |-> Ids, cand |-> cand]]
    BY <2>2
  <2>4. k = [at |-> step, name |-> m, seen |-> Ids, cand |-> cand] /\ k.at = "create"
    BY <2>3 DEF At, Typed, Calls
  <2>5. i \in Ids /\ n = m /\ k.cand = cand /\ step = "create"
    BY <2>4
  <2>6. i \in Alike(n) /\ Likeness(i, n)' = Likeness(i, n)
    <3>1. Likeness(i, n)' = Likeness(i, n)
      BY <2>2, <2>5, LikenessStays
    <3> QED
      BY <2>5, <3>1 DEF Alike, Likeness
  <2> QED
    BY <2>3, <2>5, <2>6 DEF Decides
<1>3. CASE Resolve(c) /\ ~Trigram(c)
  <2>1. client \in [Clients -> Call]
    BY DEF Typed, Calls
  <2>2. k.at = "create"
    BY DEF At
  <2>3. ~Done(c)
    BY <2>1, <2>2 DEF Done, Idle
  <2>4. ~Goes(c, "review")
    BY <2>1, <2>2 DEF Goes, Call
  <2>5. CASE Exact(c)
    <3>1. CASE client' = client
      BY <1>1, <3>1
    <3>2. ASSUME NEW m \in Inputs, client' = [client EXCEPT ![c] = [Idle EXCEPT !.at = "trigram", !.name = m]]
          PROVE  FALSE
      BY <2>1, <2>2, <3>2 DEF Idle
    <3> QED
      BY <2>5, <3>1, <3>2 DEF Exact
  <2> QED
    BY <1>3, <2>3, <2>4, <2>5 DEF Resolve, AddAlias, Create, QueueReview, ResolveFails
<1>4. (\E b \in Clients : Resolve(b)) \/ client' = client
  BY DEF Next, vars, resolving, owning, scanning, SetParent, CommitParent, StartScan, NextPair,
         LookUp, Upsert, ScanFails, ReportDestination, Expire, Seed
<1> QED
  BY <1>1, <1>2, <1>3, <1>4, OthersStay

\* A name that awaits review does until its caller fails.
LEMMA AwaitsStays ==
  ASSUME Typed, [Next]_vars, NEW n, Awaits(n)
  PROVE  \/ Awaits(n)'
         \/ \E c \in Clients : ResolveFails(c) /\ At(c, "review") /\ client[c].name = n
<1>1. reviews \subseteq reviews'
  BY DEF Next, vars, resolving, owning, scanning, Resolve, Exact, Trigram, AddAlias, Create,
         QueueReview, ResolveFails, SetParent, CommitParent, StartScan, NextPair, LookUp, Upsert,
         ScanFails, ReportDestination, Expire, Seed
<1>2. ASSUME NEW c \in Clients, At(c, "review"), client[c].name = n
      PROVE  \/ Awaits(n)'
             \/ ResolveFails(c)
  <2>1. CASE client'[c] = client[c]
    BY <1>2, <2>1 DEF Awaits, At
  <2>2. CASE QueueReview(c)
    <3>1. <<n, client[c].cand>> \in reviews'
      BY <1>2, <2>2 DEF QueueReview
    <3> QED
      BY <3>1 DEF Awaits
  <2>3. ~Exact(c) /\ ~Trigram(c) /\ ~AddAlias(c) /\ ~Create(c)
    BY <1>2 DEF Exact, Trigram, AddAlias, Create, At
  <2>4. (\E b \in Clients : Resolve(b)) \/ client' = client
    BY DEF Next, vars, resolving, owning, scanning, SetParent, CommitParent, StartScan, NextPair,
           LookUp, Upsert, ScanFails, ReportDestination, Expire, Seed
  <2>5. Resolve(c) => QueueReview(c) \/ ResolveFails(c)
    BY <2>3 DEF Resolve
  <2> QED
    BY <2>1, <2>2, <2>4, <2>5, OthersStay
<1> QED
  BY <1>1, <1>2 DEF Awaits

\* A step adds an operator only when its creator's choice is made.
LEMMA StepReviewsForks ==
  ASSUME Typed, Chosen, ForksAreReviewed, [Next]_vars
  PROVE  ForksAreReviewed'
<1> SUFFICES ASSUME NEW j \in Ids' \ unsure', NEW i \in 1 .. j - 1, NEW n, n = operators'[j].canonical,
                    Likeness(i, n)' >= reviewThreshold
             PROVE  Likeness(i, n)' < matchThreshold /\ Awaits(n)'
  BY DEF ForksAreReviewed, Awaits
<1>1. unsure \subseteq unsure'
  <2>1. \A c \in Clients : Create(c) \/ ResolveFails(c) => unsure \subseteq unsure'
    BY DEF Create, ResolveFails
  <2> QED
    BY <2>1 DEF Next, vars, resolving, owning, scanning, Resolve, Exact, Trigram, AddAlias,
           QueueReview, SetParent, CommitParent, StartScan, NextPair, LookUp, Upsert, ScanFails,
           ReportDestination, Expire, Seed
<1>2. CASE j \in Ids
  <2>1. n = operators[j].canonical /\ n \in Inputs /\ i \in Ids /\ j \notin unsure
    BY <1>1, <1>2, NamesStay, RowFacts DEF Typed, Row
  <2>2. Likeness(i, n)' = Likeness(i, n)
    BY <2>1, LikenessStays
  <2>3. Likeness(i, n) < matchThreshold /\ Awaits(n)
    BY <1>2, <2>1, <2>2 DEF ForksAreReviewed, Awaits
  <2>4. ASSUME NEW c \in Clients, ResolveFails(c), At(c, "review"), client[c].name = n
        PROVE  FALSE
    BY <1>2, <2>1, <2>4 DEF ResolveFails
  <2> QED
    BY <2>2, <2>3, <2>4, AwaitsStays
<1>3. ASSUME NEW c \in Clients, Create(c), j \notin Ids
      PROVE  Likeness(i, n)' < matchThreshold /\ Awaits(n)'
  <2>1. client[c].name \in Inputs /\ At(c, "create")
    BY <1>3 DEF Create, At, Typed, Calls, Sound
  <2>2. /\ operators' = Append(operators, [canonical |-> client[c].name, aliases |-> {}, parent |-> None])
        /\ \A k \in Ids : operators[k].canonical # client[c].name
    <3>1. operators' # operators
      BY <1>3 DEF Ids
    <3> QED
      BY <1>3, <3>1 DEF Create
  <2>3. j = Len(operators) + 1 /\ n = client[c].name /\ i \in Ids
    BY <1>3, <2>1, <2>2, RowAdded, RowFacts DEF Typed
  <2>4. Alike(n) \subseteq client[c].seen
    BY <1>3, <2>2, <2>3 DEF Create
  <2>5. Likeness(i, n)' = Likeness(i, n) /\ i \in Alike(n)
    BY <2>1, <2>3, LikenessStays DEF Alike, Likeness
  <2>6. client[c].cand # None /\ Likeness(i, n) < matchThreshold
    BY <2>1, <2>3, <2>4, <2>5 DEF Chosen
  <2>7. Goes(c, "review")
    BY <1>3, <2>6 DEF Create, ToReview
  <2>8. client'[c].at = "review" /\ client'[c].name = n
    BY <2>3, <2>7 DEF Goes, Typed, Calls, Call
  <2> QED
    BY <2>5, <2>6, <2>8 DEF Awaits, At
<1>4. (\E c \in Clients : Create(c)) \/ Ids' = Ids
  <2>1. ASSUME NEW c \in Clients, AddAlias(c)
        PROVE  Ids' = Ids
    BY <2>1, AliasAdded
  <2>2. ASSUME NEW u \in updates, CommitParent(u)
        PROVE  Ids' = Ids
    BY <2>2, ParentSet
  <2>3. operators' = operators => Ids' = Ids
    BY DEF Ids
  <2> QED
    BY <2>1, <2>2, <2>3
    DEF Next, vars, resolving, owning, scanning, Resolve, Exact, Trigram, QueueReview, ResolveFails,
        SetParent, StartScan, NextPair, LookUp, Upsert, ScanFails, ReportDestination, Expire, Seed
<1> QED
  BY <1>2, <1>3, <1>4

\* Of two operators with alike names the later one waits for review, and is not so
\* close that it should have been folded (operators.Resolve).
THEOREM ForksAreReviewedHolds == Spec => []ForksAreReviewed
<1>1. Init => Typed /\ Chosen /\ ForksAreReviewed
  BY InitTyped DEF Init, Chosen, ForksAreReviewed, At, Idle, Ids
<1>2. Typed /\ Chosen /\ ForksAreReviewed /\ [Next]_vars => (Typed /\ Chosen /\ ForksAreReviewed)'
  BY StepKeepsTyped, StepKeepsChosen, StepReviewsForks
<1> QED
  BY <1>1, <1>2, PTL DEF Spec

-----------------------------------------------------------------------------
(* Chains of owners.  Owner is defined by recursion; these lemmas say what *)
(* a chain is step by step, for any rows.                                  *)

\* Of numbers, one is least.
LEMMA LeastOf ==
  ASSUME NEW S \in SUBSET Nat, S # {}
  PROVE  \E j \in S : \A i \in S : j <= i
<1>1. PICK j \in S : \A i \in S : <<i, j>> \notin OpToRel(<, Nat)
  BY WFMin, NatLessThanWellFounded, Zenon
<1>2. \A i \in S : ~(i < j)
  BY <1>1, Zenon DEF OpToRel
<1> QED
  BY <1>2

\* What holds of 0 and is kept by + 1 holds of every number.
LEMMA EveryNat ==
  ASSUME NEW S \in SUBSET Nat, 0 \in S, \A d \in S : d + 1 \in S
  PROVE  \A d \in Nat : d \in S
<1> SUFFICES ASSUME Nat \ S # {}
             PROVE  FALSE
  OBVIOUS
<1>1. PICK j \in Nat \ S : \A i \in Nat \ S : j <= i
  BY LeastOf
<1>2. j # 0 /\ j - 1 \in Nat /\ j - 1 < j
  OBVIOUS
<1>3. j - 1 \in S
  BY <1>1, <1>2
<1>4. (j - 1) + 1 \in S
  BY <1>3
<1> QED
  BY <1>4

ParentIn(rows, i) == IF i = None THEN None ELSE rows[i].parent

OwnerIn(rows, i, d) ==
  LET up[k \in 0 .. d] == IF k = 0 THEN i ELSE ParentIn(rows, up[k - 1])
  IN up[d]

\* f lists i and its owners up to the d-th.
IsWalk(rows, i, d, f) ==
  f = [k \in 0 .. d |-> IF k = 0 THEN i ELSE ParentIn(rows, f[k - 1])]

\* Owner in the rows of the table, before and after a step.
LEMMA OwnerIsIn ==
  ASSUME NEW i, NEW d
  PROVE  Owner(i, d) = OwnerIn(operators, i, d) /\ Owner(i, d)' = OwnerIn(operators', i, d)
  BY DEF Owner, OwnerIn, ParentOf, ParentIn

\* Every number of owners can be listed.
LEMMA WalkExists ==
  ASSUME NEW rows, NEW i
  PROVE  \A d \in Nat : \E f : IsWalk(rows, i, d, f)
<1> DEFINE S == {d \in Nat : \E f : IsWalk(rows, i, d, f)}
<1>1. 0 \in S
  <2>1. IsWalk(rows, i, 0, [k \in 0 .. 0 |-> i])
    BY DEF IsWalk
  <2> QED
    BY <2>1
<1>2. ASSUME NEW d \in S
      PROVE  d + 1 \in S
  <2>1. d \in Nat
    OBVIOUS
  <2>2. PICK f : IsWalk(rows, i, d, f)
    OBVIOUS
  <2> DEFINE g == [k \in 0 .. d + 1 |-> IF k = d + 1 THEN ParentIn(rows, f[d]) ELSE f[k]]
  <2>3. ASSUME NEW k \in 0 .. d + 1
        PROVE  g[k] = IF k = 0 THEN i ELSE ParentIn(rows, g[k - 1])
    <3>1. CASE k = d + 1
      BY <2>1, <3>1
    <3>2. CASE k # d + 1
      <4>1. k \in 0 .. d /\ g[k] = f[k] /\ (k # 0 => g[k - 1] = f[k - 1])
        BY <2>1, <3>2
      <4>2. f[k] = IF k = 0 THEN i ELSE ParentIn(rows, f[k - 1])
        BY <2>2, <4>1 DEF IsWalk
      <4> QED
        BY <4>1, <4>2
    <3> QED
      BY <3>1, <3>2
  <2> HIDE DEF g
  <2>4. g = [k \in 0 .. d + 1 |-> g[k]]
    BY DEF g
  <2>5. IsWalk(rows, i, d + 1, g)
    BY <2>3, <2>4 DEF IsWalk
  <2> QED
    BY <2>1, <2>5
<1> HIDE DEF S
<1>3. \A d \in Nat : d \in S
  <2>1. S \in SUBSET Nat
    BY DEF S
  <2> QED
    BY <1>1, <1>2, <2>1, EveryNat
<1> QED
  BY <1>3 DEF S

\* The d-th owner is the last of a list.
LEMMA OwnerIsWalk ==
  ASSUME NEW rows, NEW i, NEW d \in Nat
  PROVE  \E f : IsWalk(rows, i, d, f) /\ OwnerIn(rows, i, d) = f[d]
<1> DEFINE up == CHOOSE f : IsWalk(rows, i, d, f)
<1>1. IsWalk(rows, i, d, up)
  BY WalkExists, Zenon
<1>2. OwnerIn(rows, i, d) = up[d]
  BY Zenon DEF OwnerIn, IsWalk
<1> QED
  BY <1>1, <1>2, Zenon

\* Two lists agree as far as the shorter one goes.
LEMMA WalksAgree ==
  ASSUME NEW rows, NEW i, NEW d \in Nat, NEW e \in Nat, d <= e, NEW f, NEW g,
         IsWalk(rows, i, d, f), IsWalk(rows, i, e, g)
  PROVE  \A k \in 0 .. d : f[k] = g[k]
<1> DEFINE S == {k \in Nat : k <= d => f[k] = g[k]}
<1>0. /\ \A k \in 0 .. d : f[k] = IF k = 0 THEN i ELSE ParentIn(rows, f[k - 1])
      /\ \A k \in 0 .. e : g[k] = IF k = 0 THEN i ELSE ParentIn(rows, g[k - 1])
  BY DEF IsWalk
<1>1. 0 \in S
  BY <1>0
<1>2. ASSUME NEW k \in S
      PROVE  k + 1 \in S
  <2>1. CASE k + 1 <= d
    <3>1. k + 1 \in 0 .. d /\ k + 1 \in 0 .. e /\ k + 1 # 0 /\ (k + 1) - 1 = k /\ f[k] = g[k]
      BY <2>1
    <3>2. f[k + 1] = ParentIn(rows, f[k]) /\ g[k + 1] = ParentIn(rows, g[k])
      BY <1>0, <3>1
    <3> QED
      BY <3>1, <3>2
  <2> QED
    BY <2>1
<1> HIDE DEF S
<1>3. \A k \in Nat : k \in S
  <2>1. S \in SUBSET Nat
    BY DEF S
  <2> QED
    BY <1>1, <1>2, <2>1, EveryNat
<1> QED
  BY <1>3 DEF S

\* A chain begins with the operator, and each of it is the owner of the one before.
LEMMA OwnerSteps ==
  ASSUME NEW rows, NEW i
  PROVE  /\ OwnerIn(rows, i, 0) = i
         /\ \A d \in Nat : OwnerIn(rows, i, d + 1) = ParentIn(rows, OwnerIn(rows, i, d))
<1>1. OwnerIn(rows, i, 0) = i
  <2>1. PICK f : IsWalk(rows, i, 0, f) /\ OwnerIn(rows, i, 0) = f[0]
    BY OwnerIsWalk
  <2> QED
    BY <2>1 DEF IsWalk
<1>2. ASSUME NEW d \in Nat
      PROVE  OwnerIn(rows, i, d + 1) = ParentIn(rows, OwnerIn(rows, i, d))
  <2>1. d + 1 \in Nat
    OBVIOUS
  <2>2. PICK f : IsWalk(rows, i, d, f) /\ OwnerIn(rows, i, d) = f[d]
    BY OwnerIsWalk
  <2>3. PICK g : IsWalk(rows, i, d + 1, g) /\ OwnerIn(rows, i, d + 1) = g[d + 1]
    BY <2>1, OwnerIsWalk
  <2>4. g[d + 1] = ParentIn(rows, g[d])
    BY <2>3 DEF IsWalk
  <2>5. f[d] = g[d]
    BY <2>1, <2>2, <2>3, WalksAgree
  <2> QED
    BY <2>2, <2>3, <2>4, <2>5
<1> QED
  BY <1>1, <1>2

\* The next owner in a chain.
LEMMA OwnerNext ==
  ASSUME NEW rows, NEW i, NEW d \in Nat, NEW o, OwnerIn(rows, i, d) = o
  PROVE  OwnerIn(rows, i, d + 1) = ParentIn(rows, o)
  BY OwnerSteps

\* The chain of an owner is the rest of the chain.
LEMMA OwnerAdds ==
  ASSUME NEW rows, NEW i, NEW a \in Nat
  PROVE  \A d \in Nat : OwnerIn(rows, OwnerIn(rows, i, a), d) = OwnerIn(rows, i, a + d)
<1> DEFINE S == {d \in Nat : OwnerIn(rows, OwnerIn(rows, i, a), d) = OwnerIn(rows, i, a + d)}
<1>1. 0 \in S
  BY OwnerSteps
<1>2. ASSUME NEW d \in S
      PROVE  d + 1 \in S
  <2>1. d \in Nat /\ d + 1 \in Nat /\ a + d \in Nat /\ a + (d + 1) = (a + d) + 1
    OBVIOUS
  <2>2. OwnerIn(rows, OwnerIn(rows, i, a), d + 1) = ParentIn(rows, OwnerIn(rows, OwnerIn(rows, i, a), d))
    BY <2>1, OwnerSteps
  <2>3. OwnerIn(rows, i, (a + d) + 1) = ParentIn(rows, OwnerIn(rows, i, a + d))
    BY <2>1, OwnerSteps
  <2> QED
    BY <2>1, <2>2, <2>3
<1> HIDE DEF S
<1>3. \A d \in Nat : d \in S
  <2>1. S \in SUBSET Nat
    BY DEF S
  <2> QED
    BY <1>1, <1>2, <2>1, EveryNat
<1> QED
  BY <1>3 DEF S

\* A chain that has ended has no more owners.
LEMMA OwnerStaysNone ==
  ASSUME NEW rows, NEW i, NEW a \in Nat, OwnerIn(rows, i, a) = None
  PROVE  \A d \in Nat : a <= d => OwnerIn(rows, i, d) = None
<1> DEFINE S == {d \in Nat : OwnerIn(rows, None, d) = None}
<1>1. 0 \in S
  BY OwnerSteps
<1>2. ASSUME NEW d \in S
      PROVE  d + 1 \in S
  <2>1. OwnerIn(rows, None, d) = None /\ d \in Nat /\ d + 1 \in Nat
    OBVIOUS
  <2>2. OwnerIn(rows, None, d + 1) = ParentIn(rows, OwnerIn(rows, None, d))
    BY <2>1, OwnerSteps
  <2>3. OwnerIn(rows, None, d + 1) = None
    BY <2>1, <2>2 DEF ParentIn
  <2> QED
    BY <2>1, <2>3
<1> HIDE DEF S
<1>3. \A d \in Nat : d \in S
  <2>1. S \in SUBSET Nat
    BY DEF S
  <2> QED
    BY <1>1, <1>2, <2>1, EveryNat
<1>4. ASSUME NEW d \in Nat, a <= d
      PROVE  OwnerIn(rows, i, d) = None
  <2>1. d - a \in Nat /\ a + (d - a) = d
    BY <1>4
  <2>2. OwnerIn(rows, i, a + (d - a)) = OwnerIn(rows, None, d - a)
    BY <2>1, OwnerAdds
  <2> QED
    BY <1>3, <2>1, <2>2 DEF S
<1> QED
  BY <1>4

\* Chains stay among the operators.
LEMMA OwnerIsThere ==
  ASSUME Rows, NEW i \in Ids \cup {None}
  PROVE  \A d \in Nat : OwnerIn(operators, i, d) \in Ids \cup {None}
<1> DEFINE S == {d \in Nat : OwnerIn(operators, i, d) \in Ids \cup {None}}
<1>1. 0 \in S
  BY OwnerSteps
<1>2. ASSUME NEW d \in S
      PROVE  d + 1 \in S
  <2>1. OwnerIn(operators, i, d + 1) = ParentIn(operators, OwnerIn(operators, i, d))
    BY OwnerSteps
  <2>2. ParentIn(operators, OwnerIn(operators, i, d)) \in Ids \cup {None}
    BY DEF ParentIn, Rows
  <2> QED
    BY <2>1, <2>2
<1> HIDE DEF S
<1>3. \A d \in Nat : d \in S
  <2>1. S \in SUBSET Nat
    BY DEF S
  <2> QED
    BY <1>1, <1>2, <2>1, EveryNat
<1> QED
  BY <1>3 DEF S

\* A chain that ends does so within as many steps as there are operators: longer, it
\* would pass one of them twice, and then for ever.
LEMMA ChainIsShort ==
  ASSUME Rows, NEW i \in Ids, NEW e \in Nat, OwnerIn(operators, i, e) = None
  PROVE  OwnerIn(operators, i, Len(operators)) = None
<1> DEFINE n == Len(operators)
           S == {d \in Nat : OwnerIn(operators, i, d) = None}
<1>1. n \in Nat /\ Ids = 1 .. n
  BY RowFacts
<1>2. PICK j \in S : \A d \in S : j <= d
  <2>1. S \in SUBSET Nat /\ S # {}
    OBVIOUS
  <2> QED
    BY <2>1, LeastOf
<1>3. CASE j <= n
  BY <1>1, <1>2, <1>3, OwnerStaysNone
<1>4. CASE n < j
  <2> DEFINE f == [k \in 0 .. n |-> OwnerIn(operators, i, k)]
  <2>1. f \in [0 .. n -> 1 .. n]
    <3>1. ASSUME NEW k \in 0 .. n
          PROVE  OwnerIn(operators, i, k) \in 1 .. n
      <4>1. k \in Nat /\ k \notin S
        BY <1>1, <1>2, <1>4
      <4>2. OwnerIn(operators, i, k) \in Ids \cup {None}
        BY <4>1, OwnerIsThere
      <4> QED
        BY <1>1, <4>1, <4>2
    <3> QED
      BY <3>1
  <2>2. /\ IsFiniteSet(0 .. n) /\ IsFiniteSet(1 .. n)
        /\ Cardinality(1 .. n) < Cardinality(0 .. n)
    <3>1. /\ IsFiniteSet(0 .. n) /\ IsFiniteSet(1 .. n)
          /\ Cardinality(0 .. n) = n - 0 + 1
          /\ Cardinality(1 .. n) = IF 1 > n THEN 0 ELSE n - 1 + 1
      BY <1>1, FS_Interval
    <3> QED
      BY <1>1, <3>1
  <2> HIDE DEF f, n
  <2>3. PICK x, y \in 0 .. n : x # y /\ f[x] = f[y]
    BY <2>1, <2>2, FS_PigeonHole
  <2>4. ASSUME NEW a \in 0 .. n, NEW b \in 0 .. n, a < b, f[a] = f[b]
        PROVE  FALSE
    <3>1. a \in Nat /\ b \in Nat /\ j \in Nat /\ b < j
      BY <1>1, <1>2, <1>4, <2>4
    <3>2. PICK c \in Nat : b + c = j
      <4>1. j - b \in Nat /\ b + (j - b) = j
        BY <3>1
      <4> QED
        BY <4>1
    <3>3. OwnerIn(operators, i, a) = OwnerIn(operators, i, b)
      BY <2>4 DEF f
    <3>4. OwnerIn(operators, OwnerIn(operators, i, a), c) = OwnerIn(operators, i, a + c)
      BY <3>1, <3>2, OwnerAdds
    <3>5. OwnerIn(operators, OwnerIn(operators, i, b), c) = OwnerIn(operators, i, b + c)
      BY <3>1, <3>2, OwnerAdds
    <3>6. OwnerIn(operators, i, a + c) = None
      BY <1>2, <3>2, <3>3, <3>4, <3>5
    <3>7. a + c \in S /\ a + c < j
      BY <2>4, <3>1, <3>2, <3>6
    <3> QED
      BY <1>2, <3>1, <3>2, <3>7
  <2>5. x < y \/ y < x
    BY <1>1, <2>3
  <2> QED
    BY <2>3, <2>4, <2>5
<1>5. j \in Nat
  BY <1>2
<1> QED
  BY <1>1, <1>3, <1>4, <1>5

\* Two tables that differ in the owner of i alone have the same chain above k, up to i.
LEMMA SameUntil ==
  ASSUME Rows, NEW rows, NEW i, NEW k \in Ids \cup {None},
         \A x \in Ids \ {i} : rows[x].parent = operators[x].parent
  PROVE  \A d \in Nat :
           (\A b \in 0 .. d - 1 : OwnerIn(operators, k, b) # i) =>
              OwnerIn(rows, k, d) = OwnerIn(operators, k, d)
<1> DEFINE Avoids(d) == \A b \in 0 .. d - 1 : OwnerIn(operators, k, b) # i
           S == {d \in Nat : Avoids(d) => OwnerIn(rows, k, d) = OwnerIn(operators, k, d)}
<1>1. 0 \in S
  BY OwnerSteps
<1>2. ASSUME NEW d \in S
      PROVE  d + 1 \in S
  <2> SUFFICES ASSUME Avoids(d + 1)
               PROVE  OwnerIn(rows, k, d + 1) = OwnerIn(operators, k, d + 1)
    OBVIOUS
  <2>1. d \in Nat /\ d \in 0 .. (d + 1) - 1 /\ 0 .. d - 1 \subseteq 0 .. (d + 1) - 1
    OBVIOUS
  <2>2. OwnerIn(operators, k, d) # i /\ OwnerIn(rows, k, d) = OwnerIn(operators, k, d)
    BY <2>1
  <2>3. OwnerIn(operators, k, d) \in Ids \cup {None}
    BY <2>1, OwnerIsThere
  <2>4. ParentIn(rows, OwnerIn(rows, k, d)) = ParentIn(operators, OwnerIn(operators, k, d))
    BY <2>2, <2>3 DEF ParentIn
  <2>5. /\ OwnerIn(rows, k, d + 1) = ParentIn(rows, OwnerIn(rows, k, d))
        /\ OwnerIn(operators, k, d + 1) = ParentIn(operators, OwnerIn(operators, k, d))
    BY <2>1, OwnerSteps
  <2> QED
    BY <2>4, <2>5
<1> HIDE DEF S
<1>3. \A d \in Nat : d \in S
  <2>1. S \in SUBSET Nat
    BY DEF S
  <2> QED
    BY <1>1, <1>2, <2>1, EveryNat
<1> QED
  BY <1>3 DEF S

-----------------------------------------------------------------------------
(* Ownership is a tree.  While no two updates have overlapped, at most one *)
(* is uncommitted, and the chain above its new owner avoids the operator   *)
(* it moves: no commit has come between the trigger's look and its own.    *)

Tree ==
  ~crossed =>
    /\ \A k \in Ids : \E d \in Nat : OwnerIn(operators, k, d) = None
    /\ \A u, w \in updates : u = w
    /\ \A u \in updates : \A d \in Nat : OwnerIn(operators, u[2], d) # u[1]

\* Chains still end when an operator moves below one whose chain ends without it.
LEMMA MoveKeepsEnds ==
  ASSUME Rows, NEW i \in Ids, NEW p \in Ids, NEW rows, rows[i].parent = p,
         \A x \in Ids \ {i} : rows[x].parent = operators[x].parent,
         \A d \in Nat : OwnerIn(operators, p, d) # i,
         NEW e \in Nat, OwnerIn(operators, p, e) = None,
         NEW k \in Ids, NEW c \in Nat, OwnerIn(operators, k, c) = None
  PROVE  \E d \in Nat : OwnerIn(rows, k, d) = None
<1>0. \A x \in Ids : \A d \in Nat :
        (\A b \in 0 .. d - 1 : OwnerIn(operators, x, b) # i) =>
           OwnerIn(rows, x, d) = OwnerIn(operators, x, d)
  BY SameUntil
<1>1. CASE \A b \in 0 .. c - 1 : OwnerIn(operators, k, b) # i
  BY <1>0, <1>1
<1>2. CASE \E b \in 0 .. c - 1 : OwnerIn(operators, k, b) = i
  <2> DEFINE S == {b \in Nat : OwnerIn(operators, k, b) = i}
  <2>1. PICK a \in S : \A b \in S : a <= b
    <3>1. S # {} /\ S \in SUBSET Nat
      BY <1>2
    <3> QED
      BY <3>1, LeastOf
  <2>2. a \in Nat /\ a + 1 \in Nat /\ \A b \in 0 .. a - 1 : OwnerIn(operators, k, b) # i
    BY <2>1
  <2>3. OwnerIn(rows, k, a) = i
    BY <1>0, <2>1, <2>2
  <2>4. i # None
    BY RowFacts
  <2>5. OwnerIn(rows, k, a + 1) = p
    <3>1. OwnerIn(rows, k, a + 1) = ParentIn(rows, i)
      BY <2>2, <2>3, OwnerNext
    <3> QED
      BY <2>4, <3>1 DEF ParentIn
  <2>6. OwnerIn(rows, p, e) = None
    <3>1. \A b \in 0 .. e - 1 : OwnerIn(operators, p, b) # i
      OBVIOUS
    <3> QED
      BY <1>0, <3>1
  <2>7. OwnerIn(rows, OwnerIn(rows, k, a + 1), e) = OwnerIn(rows, k, (a + 1) + e)
    BY <2>2, OwnerAdds
  <2>8. (a + 1) + e \in Nat
    BY <2>2
  <2> QED
    BY <2>5, <2>6, <2>7, <2>8
<1> QED
  BY <1>1, <1>2

\* Only a commit changes an owner; a new operator has none.
LEMMA OwnersStay ==
  ASSUME Typed, [Next]_vars
  PROVE  \/ \E u \in updates : CommitParent(u)
         \/ /\ \A x \in Ids : operators'[x].parent = operators[x].parent
            /\ \A x \in Ids' \ Ids : operators'[x].parent = None
<1> DEFINE Same == /\ \A x \in Ids : operators'[x].parent = operators[x].parent
                   /\ \A x \in Ids' \ Ids : operators'[x].parent = None
<1>1. operators' = operators => Same
  BY DEF Ids
<1>2. ASSUME NEW c \in Clients, Create(c)
      PROVE  Same
  <2>1. client[c].name \in Inputs
    BY <1>2 DEF Typed, Calls, Sound, Create, At
  <2>2. \/ operators' = operators
        \/ operators' = Append(operators, [canonical |-> client[c].name, aliases |-> {}, parent |-> None])
    BY <1>2 DEF Create
  <2> QED
    BY <1>1, <2>1, <2>2, RowAdded DEF Typed
<1>3. ASSUME NEW c \in Clients, AddAlias(c)
      PROVE  Same
  BY <1>3, AliasAdded
<1> HIDE DEF Same
<1>4. Same \/ \E u \in updates : CommitParent(u)
  BY <1>1, <1>2, <1>3
  DEF Next, vars, resolving, owning, scanning, Resolve, Exact, Trigram, QueueReview, ResolveFails,
      SetParent, StartScan, NextPair, LookUp, Upsert, ScanFails, ReportDestination, Expire, Seed
<1> QED
  BY <1>4 DEF Same

\* Then the chains stay, and that of a new operator ends at once.
LEMMA ChainsStay ==
  ASSUME Typed, [Next]_vars, ~ \E u \in updates : CommitParent(u)
  PROVE  /\ \A k \in Ids, d \in Nat : OwnerIn(operators', k, d) = OwnerIn(operators, k, d)
         /\ \A k \in Ids' \ Ids : OwnerIn(operators', k, 1) = None
<1>1. /\ \A x \in Ids : operators'[x].parent = operators[x].parent
      /\ \A x \in Ids' \ Ids : operators'[x].parent = None
  BY OwnersStay
<1>2. ASSUME NEW k \in Ids, NEW d \in Nat
      PROVE  OwnerIn(operators', k, d) = OwnerIn(operators, k, d)
  <2>1. PICK i : i \notin Ids \cup {None}
    <3>1. Len(operators) + 1 \notin Ids /\ Len(operators) + 1 # None
      BY RowFacts, NamesAssumption DEF Typed
    <3> QED
      BY <3>1
  <2>2. \A b \in 0 .. d - 1 : OwnerIn(operators, k, b) # i
    BY <2>1, OwnerIsThere DEF Typed
  <2> QED
    BY <1>1, <2>2, SameUntil DEF Typed
<1>3. ASSUME NEW k \in Ids' \ Ids
      PROVE  OwnerIn(operators', k, 1) = None
  <2>1. OwnerIn(operators', k, 0) = k /\ OwnerIn(operators', k, 0 + 1) = ParentIn(operators', OwnerIn(operators', k, 0))
    BY OwnerSteps
  <2> QED
    BY <1>1, <2>1 DEF ParentIn
<1> QED
  BY <1>2, <1>3

\* The trigger's look: the chain above p ends, and i is nowhere in it.
LEMMA TriggerSees ==
  ASSUME Rows, NEW i \in Ids, NEW p \in Ids, Ends(p), ~RejectsCycle(i, p)
  PROVE  \A d \in Nat : OwnerIn(operators, p, d) # i
<1>1. Len(operators) \in Nat /\ i # None
  BY RowFacts
<1>2. OwnerIn(operators, p, Len(operators)) = None
  BY OwnerIsIn DEF Ends
<1>3. \A d \in 0 .. Len(operators) : OwnerIn(operators, p, d) # i
  BY OwnerIsIn DEF RejectsCycle
<1>4. ASSUME NEW d \in Nat, Len(operators) <= d
      PROVE  OwnerIn(operators, p, d) # i
  BY <1>1, <1>2, <1>4, OwnerStaysNone
<1> QED
  BY <1>1, <1>3, <1>4

\* Every step leaves a tree.
LEMMA StepKeepsTree ==
  ASSUME Typed, Tree, [Next]_vars
  PROVE  Tree'
<1> SUFFICES ASSUME ~crossed'
             PROVE  /\ \A k \in Ids' : \E d \in Nat : OwnerIn(operators', k, d) = None
                    /\ \A u, w \in updates' : u = w
                    /\ \A u \in updates' : \A d \in Nat : OwnerIn(operators', u[2], d) # u[1]
  BY DEF Tree
<1>1. /\ ~crossed
      /\ \A k \in Ids : \E d \in Nat : OwnerIn(operators, k, d) = None
      /\ \A u, w \in updates : u = w
      /\ \A u \in updates : \A d \in Nat : OwnerIn(operators, u[2], d) # u[1]
  <2>1. crossed => crossed'
    BY DEF Next, vars, resolving, owning, scanning, Resolve, Exact, Trigram, AddAlias, Create,
           QueueReview, ResolveFails, SetParent, CommitParent, StartScan, NextPair, LookUp, Upsert,
           ScanFails, ReportDestination, Expire, Seed
  <2> QED
    BY <2>1 DEF Tree
<1>2. \A u \in updates : u[1] \in Ids /\ u[2] \in Ids
  BY DEF Typed
<1>3. ASSUME NEW u \in updates, CommitParent(u)
      PROVE  /\ \A k \in Ids' : \E d \in Nat : OwnerIn(operators', k, d) = None
             /\ updates' = {}
  <2>1. /\ Ids' = Ids /\ operators'[u[1]].parent = u[2]
        /\ \A i \in Ids \ {u[1]} : operators'[i].parent = operators[i].parent
    BY <1>3, ParentSet
  <2>2. PICK e \in Nat : OwnerIn(operators, u[2], e) = None
    BY <1>1, <1>2
  <2>3. ASSUME NEW k \in Ids
        PROVE  \E d \in Nat : OwnerIn(operators', k, d) = None
    <3>1. PICK c \in Nat : OwnerIn(operators, k, c) = None
      BY <1>1
    <3>2. /\ Rows /\ u[1] \in Ids /\ u[2] \in Ids
          /\ \A d \in Nat : OwnerIn(operators, u[2], d) # u[1]
      BY <1>1, <1>2 DEF Typed
    <3> QED
      BY <2>1, <2>2, <3>1, <3>2, MoveKeepsEnds
  <2> QED
    BY <1>1, <1>3, <2>1, <2>3 DEF CommitParent
<1>4. CASE ~ \E u \in updates : CommitParent(u)
  <2>1. /\ \A k \in Ids, d \in Nat : OwnerIn(operators', k, d) = OwnerIn(operators, k, d)
        /\ \A k \in Ids' \ Ids : OwnerIn(operators', k, 1) = None
    BY <1>4, ChainsStay
  <2>2. \A k \in Ids' : \E d \in Nat : OwnerIn(operators', k, d) = None
    BY <1>1, <2>1
  <2>3. ASSUME NEW i \in Ids, NEW p \in Ids, SetParent(i, p)
        PROVE  /\ updates' = {<<i, p>>}
               /\ \A d \in Nat : OwnerIn(operators', p, d) # i
    <3>1. updates = {} /\ updates' = {<<i, p>>} /\ Ends(p) /\ ~RejectsCycle(i, p) /\ operators' = operators
      BY <2>3 DEF SetParent
    <3> QED
      BY <3>1, TriggerSees DEF Typed
  <2>4. updates' = updates \/ \E i, p \in Ids : SetParent(i, p)
    BY <1>4
    DEF Next, vars, resolving, owning, scanning, Resolve, Exact, Trigram, AddAlias, Create,
        QueueReview, ResolveFails, StartScan, NextPair, LookUp, Upsert, ScanFails,
        ReportDestination, Expire, Seed
  <2> QED
    BY <1>1, <1>2, <2>1, <2>2, <2>3, <2>4
<1> QED
  BY <1>3, <1>4

\* The trigger keeps ownership free of cycles, as long as no two updates overlap
\* (000016_operators.up.sql): however long, a chain has at most as many owners
\* as there are operators.
THEOREM OwnershipIsTreeHolds == Spec => []OwnershipIsTree
<1>1. Init => Typed /\ Tree
  BY InitTyped DEF Init, Tree, Ids
<1>2. Typed /\ Tree /\ [Next]_vars => (Typed /\ Tree)'
  BY StepKeepsTyped, StepKeepsTree
<1>3. Typed /\ Tree => OwnershipIsTree
  <2> SUFFICES ASSUME Typed, Tree, ~crossed, NEW i \in Ids
               PROVE  Owner(i, Len(operators)) = None
    BY DEF OwnershipIsTree
  <2>1. PICK e \in Nat : OwnerIn(operators, i, e) = None
    BY DEF Tree
  <2> QED
    BY <2>1, ChainIsShort, OwnerIsIn DEF Typed
<1> QED
  BY <1>1, <1>2, <1>3, PTL DEF Spec

-----------------------------------------------------------------------------
(* Groups and chains.                                                      *)

\* The operators d levels down a group are those whose d-th owner heads it.
LEMMA GroupIsOwned ==
  ASSUME Rows, NEW g \in Ids
  PROVE  \A i, d : <<i, d>> \in Group(g) <=>
                     i \in Ids /\ d \in 0 .. maxDepth /\ OwnerIn(operators, i, d) = g
<1> DEFINE IsDown(f) == f = [d \in 0 .. maxDepth |->
             IF d = 0 THEN {g} ELSE {i \in Ids : operators[i].parent \in f[d - 1]}]
           Level(d) == {i \in Ids : OwnerIn(operators, i, d) = g}
           down == CHOOSE f : IsDown(f)
<1>0. maxDepth \in Nat /\ g # None
  BY NamesAssumption, RowFacts
<1>1. Level(0) = {g}
  BY OwnerSteps
<1>2. ASSUME NEW d \in Nat
      PROVE  Level(d + 1) = {i \in Ids : operators[i].parent \in Level(d)}
  <2>1. ASSUME NEW i \in Ids
        PROVE  OwnerIn(operators, i, d + 1) = OwnerIn(operators, operators[i].parent, d)
    <3>1. i # None
      BY RowFacts
    <3>2. OwnerIn(operators, i, 0) = i /\ OwnerIn(operators, i, 0 + 1) = ParentIn(operators, OwnerIn(operators, i, 0))
      BY OwnerSteps
    <3>3. OwnerIn(operators, i, 1) = operators[i].parent
      BY <3>1, <3>2 DEF ParentIn
    <3>4. OwnerIn(operators, OwnerIn(operators, i, 1), d) = OwnerIn(operators, i, 1 + d)
      BY OwnerAdds
    <3>5. 1 + d = d + 1
      OBVIOUS
    <3> QED
      BY <3>3, <3>4, <3>5
  <2>2. ASSUME NEW i \in Ids, OwnerIn(operators, operators[i].parent, d) = g
        PROVE  operators[i].parent \in Ids
    <3>1. OwnerIn(operators, None, d) = None
      <4>1. OwnerIn(operators, None, 0) = None
        BY OwnerSteps
      <4>2. \A e \in Nat : 0 <= e => OwnerIn(operators, None, e) = None
        BY <4>1, OwnerStaysNone
      <4> QED
        BY <4>2
    <3> QED
      BY <1>0, <2>2, <3>1 DEF Rows
  <2> QED
    BY <2>1, <2>2
<1>3. IsDown([d \in 0 .. maxDepth |-> Level(d)])
  <2> DEFINE f == [d \in 0 .. maxDepth |-> Level(d)]
  <2>1. ASSUME NEW d \in 0 .. maxDepth
        PROVE  f[d] = IF d = 0 THEN {g} ELSE {i \in Ids : operators[i].parent \in f[d - 1]}
    <3>1. CASE d = 0
      BY <1>1, <3>1
    <3>2. CASE d # 0
      <4>1. d - 1 \in Nat /\ d - 1 \in 0 .. maxDepth /\ (d - 1) + 1 = d
        BY <1>0, <3>2
      <4>2. Level(d) = {i \in Ids : operators[i].parent \in Level(d - 1)}
        BY <1>2, <4>1
      <4>3. f[d] = Level(d) /\ f[d - 1] = Level(d - 1)
        BY <4>1
      <4> QED
        BY <3>2, <4>2, <4>3
    <3> QED
      BY <3>1, <3>2
  <2>2. f = [d \in 0 .. maxDepth |-> f[d]]
    OBVIOUS
  <2> HIDE DEF f
  <2>3. IsDown(f)
    BY <2>1, <2>2
  <2> QED
    BY <2>3 DEF f
<1>4. IsDown(down)
  BY <1>3, Zenon
<1>5. \A d \in 0 .. maxDepth :
        down[d] = IF d = 0 THEN {g} ELSE {i \in Ids : operators[i].parent \in down[d - 1]}
  BY <1>4
<1>6. Group(g) = UNION {down[d] \X {d} : d \in 0 .. maxDepth}
  BY Zenon DEF Group
<1> HIDE DEF down, Level, IsDown
<1>7. \A d \in 0 .. maxDepth : down[d] = Level(d)
  <2> DEFINE S == {d \in Nat : d <= maxDepth => down[d] = Level(d)}
  <2>1. 0 \in S
    <3>1. 0 \in 0 .. maxDepth
      BY <1>0
    <3> QED
      BY <1>1, <1>5, <3>1
  <2>2. ASSUME NEW d \in S
        PROVE  d + 1 \in S
    <3> SUFFICES ASSUME d + 1 <= maxDepth
                 PROVE  down[d + 1] = Level(d + 1)
      OBVIOUS
    <3>1. d \in Nat /\ d + 1 \in 0 .. maxDepth /\ (d + 1) - 1 = d /\ d + 1 # 0 /\ down[d] = Level(d)
      BY <1>0
    <3>2. down[d + 1] = {i \in Ids : operators[i].parent \in down[d]}
      BY <1>5, <3>1
    <3> QED
      BY <1>2, <3>1, <3>2
  <2>3. S \in SUBSET Nat
    OBVIOUS
  <2> HIDE DEF S
  <2>4. \A d \in Nat : d \in S
    BY <2>1, <2>2, <2>3, EveryNat
  <2> QED
    BY <1>0, <2>4 DEF S
<1>8. \A i, d : <<i, d>> \in Group(g) <=> d \in 0 .. maxDepth /\ i \in Level(d)
  BY <1>6, <1>7
<1> QED
  BY <1>8 DEF Level

\* The two recursive queries agree (hierarchy.go): an operator is in a group, at some
\* depth, where the group is among its owners; cycles and the limit included.
THEOREM GroupsMatchChainsHolds == Spec => []GroupsMatchChains
<1>1. Typed => GroupsMatchChains
  <2> SUFFICES ASSUME Typed, NEW g \in Ids, NEW i \in Ids, NEW d \in 0 .. maxDepth
               PROVE  <<i, d>> \in Group(g) <=> <<g, d>> \in AncestorChain(i)
    BY DEF GroupsMatchChains
  <2>1. <<i, d>> \in Group(g) <=> OwnerIn(operators, i, d) = g
    BY GroupIsOwned DEF Typed
  <2>2. g # None /\ \A k : Owner(i, k) = OwnerIn(operators, i, k)
    BY RowFacts, OwnerIsIn DEF Typed
  <2>3. <<g, d>> \in AncestorChain(i) <=> OwnerIn(operators, i, d) = g
    BY <2>2 DEF AncestorChain
  <2> QED
    BY <2>1, <2>3
<1>2. Init => Typed
  BY InitTyped
<1>3. Typed /\ [Next]_vars => Typed'
  BY StepKeepsTyped
<1> QED
  BY <1>1, <1>2, <1>3, PTL DEF Spec

-----------------------------------------------------------------------------
(* Hints are best.  What a scan has found so far is the best of what the   *)
(* signals say of the words it has looked up, while the gazetteer stays;   *)
(* after a change of the gazetteer no hint counts until the next pair.     *)

USE DEF confLocode, confSubseq, minTrigram, minStore

Progress == [rows : SUBSET Reports, pair : Reports \cup {None}, words : Seq(STRING),
             port : Ports \cup {None}, best : 0 .. 100, clean : BOOLEAN]

WordSet(d) == IF d \in junk THEN {} ELSE {Words[d][k] : k \in DOMAIN Words[d]}

WordsLeft == {scan.words[k] : k \in DOMAIN scan.words}

ScanTyped ==
  /\ gazetteer \in [Ports -> PortNames \cup {None}]
  /\ reported \subseteq Reports /\ sure \subseteq Reports
  /\ scan \in Progress /\ WordsLeft \subseteq WordSet(scan.pair[2])
  /\ DOMAIN hints = Reports
  /\ scan.pair = None => scan.words = <<>>

\* Signals, by lookup, and all of those about the words in W.
LocodeSignals(w) == {s \in Here \X (1 .. 100) : gazetteer[s[1]].un_locode = w /\ s[2] = confLocode}
TrigramSignals(w) == {s \in Here \X (1 .. 100) : s[2] = Sim(s[1], w) /\ s[2] >= minTrigram}
SubseqSignals(w) ==
  {s \in Here \X (1 .. 100) : w \in gazetteer[s[1]].spells /\ w \in abbrevLike /\ s[2] = confSubseq}

SignalsIn(W) == UNION {LocodeSignals(w) \cup TrigramSignals(w) \cup SubseqSignals(w) : w \in W}

\* c is the most that the signals in S give, and one of them gives it to p.
IsBest(p, c, S) ==
  IF S = {} THEN p = None /\ c = 0
  ELSE <<p, c>> \in S /\ \A s \in S : s[2] <= c

Found ==
  scan.pair # None /\ scan.clean =>
    \E W : /\ W \cup WordsLeft = WordSet(scan.pair[2])
           /\ IsBest(scan.port, scan.best, SignalsIn(W))

HintsCount == ~scan.clean => sure = {}

\* The first of a query is one of its rows, if it has any.
LEMMA FirstByFirst ==
  ASSUME NEW ports, NEW key, \A p \in ports : key[p] \in Nat, NEW x \in FirstBy(ports, key)
  PROVE  (ports = {} /\ x = None) \/ x \in ports
<1> DEFINE S == {key[p] : p \in ports}
<1>1. CASE ports = {}
  BY <1>1 DEF FirstBy
<1>2. CASE ports # {}
  <2>1. S \in SUBSET Nat /\ S # {}
    BY <1>2
  <2>2. PICK j \in S : \A i \in S : j <= i
    BY <2>1, LeastOf
  <2>3. PICK p \in ports : key[p] = j
    OBVIOUS
  <2>4. p \in {q \in ports : \A r \in ports : key[q] <= key[r]}
    BY <2>2, <2>3
  <2> QED
    BY <2>4 DEF FirstBy
<1> QED
  BY <1>1, <1>2

\* What is known of a port that is there.
LEMMA PortFacts ==
  ASSUME ScanTyped, NEW p \in Here
  PROVE  /\ p \in Ports /\ p # None /\ gazetteer[p].length \in Nat
         /\ \A r \in Reports : \A w \in WordSet(r[2]) : Sim(p, w) \in 0 .. 100
<1>1. p \in Ports /\ gazetteer[p] \in PortNames
  BY DEF ScanTyped, Here
<1>2. /\ None \notin Ports
      /\ \A n \in PortNames : /\ n.length \in Nat
           /\ \A r \in Reports : \A k \in DOMAIN Words[r[2]] : n.similarity[Words[r[2]][k]] \in 0 .. 100
  BY NamesAssumption
<1> QED
  BY <1>1, <1>2 DEF Sim, WordSet

\* What a lookup may change.
SameBut(x, y) ==
  /\ y \in Progress /\ y.rows = x.rows /\ y.pair = x.pair
  /\ y.words = x.words /\ y.clean = x.clean

\* A stronger candidate takes the place of what was found, and nothing else changes.
LEMMA ConsiderKeeps ==
  ASSUME NEW found \in Progress, NEW p \in Ports \cup {None}, NEW c \in 0 .. 100
  PROVE  /\ SameBut(found, consider(found, p, c))
         /\ p # None /\ c > found.best =>
              consider(found, p, c).port = p /\ consider(found, p, c).best = c
<1>1. /\ found.rows \in SUBSET Reports /\ found.pair \in Reports \cup {None}
      /\ found.words \in Seq(STRING) /\ found.clean \in BOOLEAN
  BY DEF Progress
<1>2. CASE p # None /\ c > found.best
  <2>1. consider(found, p, c) = [found EXCEPT !.port = p, !.best = c]
    BY <1>2 DEF consider
  <2>2. consider(found, p, c) =
          [rows |-> found.rows, pair |-> found.pair, words |-> found.words,
           port |-> p, best |-> c, clean |-> found.clean]
    BY <2>1 DEF Progress
  <2>3. consider(found, p, c) \in Progress
    BY <1>1, <2>2 DEF Progress
  <2> QED
    BY <1>2, <2>2, <2>3 DEF SameBut
<1>3. CASE ~(p # None /\ c > found.best)
  BY <1>3 DEF consider, SameBut
<1> QED
  BY <1>2, <1>3

AreSignals(S) == S \subseteq Ports \X (1 .. 100)

\* p with c is the best that a lookup with the signals in T can offer.
Offers(p, c, T) ==
  (T = {} /\ p = None) \/ (<<p, c>> \in T /\ \A t \in T : t[2] <= c)

\* y is what x becomes when the signals in T join those in S.
Adds(x, y, S, T) == IsBest(y.port, y.best, S \cup T) /\ SameBut(x, y) /\ AreSignals(S \cup T)

\* What was found and what a lookup offers become the best of both.
LEMMA ConsiderBest ==
  ASSUME NEW S, AreSignals(S), NEW T, AreSignals(T),
         None \notin Ports, NEW found \in Progress, IsBest(found.port, found.best, S),
         NEW p, NEW c, Offers(p, c, T)
  PROVE  Adds(found, consider(found, p, c), S, T)
<1> SUFFICES ASSUME NEW new, new = consider(found, p, c)
             PROVE  Adds(found, new, S, T)
  OBVIOUS
<1>0. AreSignals(S \cup T)
  BY DEF AreSignals
<1>1. CASE T = {} /\ p = None
  BY <1>0, <1>1 DEF consider, Adds, SameBut
<1>2. CASE <<p, c>> \in T /\ \A t \in T : t[2] <= c
  <2>1. p \in Ports /\ p # None /\ c \in 1 .. 100 /\ found.best \in 0 .. 100
    BY <1>2 DEF Progress, AreSignals
  <2>2. S # {} => <<found.port, found.best>> \in S /\ \A s \in S : s[2] <= found.best
    BY DEF IsBest
  <2>3. S = {} => found.best = 0
    BY DEF IsBest
  <2>4. \A s \in S \cup T : s[2] \in 1 .. 100
    BY DEF AreSignals
  <2>5. CASE c > found.best
    <3>1. SameBut(found, new) /\ new.port = p /\ new.best = c
      <4>1. p \in Ports \cup {None} /\ c \in 0 .. 100 /\ found \in Progress
        BY <2>1
      <4> QED
        BY <2>1, <2>5, <4>1, ConsiderKeeps
    <3>3. \A s \in S \cup T : s[2] <= c
      BY <1>2, <2>1, <2>2, <2>4, <2>5
    <3> QED
      BY <1>0, <1>2, <3>1, <3>3 DEF IsBest, Adds
  <2>6. CASE ~(c > found.best)
    <3>1. new = found /\ S # {}
      BY <2>1, <2>3, <2>6 DEF consider
    <3>2. \A s \in S \cup T : s[2] <= found.best
      BY <1>2, <2>1, <2>2, <2>4, <2>6, <3>1
    <3> QED
      BY <1>0, <2>2, <3>1, <3>2 DEF IsBest, Adds, SameBut
  <2> QED
    BY <2>5, <2>6
<1> QED
  BY <1>1, <1>2 DEF Offers

\* The nearest name is as near as any, and there is one if any is near enough.
LEMMA NearestIsNear ==
  ASSUME ScanTyped, NEW r \in Reports, NEW w \in WordSet(r[2]), NEW t \in Nearest(w)
  PROVE  \/ t = None /\ \A p \in Here : Sim(p, w) < reviewThreshold
         \/ t \in Here /\ t # None /\ \A p \in Here : Sim(p, w) >= reviewThreshold => Sim(p, w) <= Sim(t, w)
<1> DEFINE near == {p \in Here : Sim(p, w) >= reviewThreshold}
           most == {p \in near : \A q \in near : Sim(q, w) <= Sim(p, w)}
           length == [p \in Here |-> gazetteer[p].length]
           S == {100 - Sim(p, w) : p \in near}
<1>1. \A p \in Here : Sim(p, w) \in 0 .. 100 /\ length[p] \in Nat /\ p # None
  BY PortFacts
<1>2. t \in FirstBy(most, length)
  BY DEF Nearest
<1>3. CASE near = {}
  <2>1. t = None
    BY <1>2, <1>3 DEF FirstBy
  <2>2. \A p \in Here : ~(Sim(p, w) >= reviewThreshold)
    BY <1>3
  <2> QED
    BY <1>1, <2>1, <2>2
<1>4. CASE near # {}
  <2>1. S # {} /\ S \in SUBSET Nat
    BY <1>1, <1>4
  <2>2. PICK j \in S : \A i \in S : j <= i
    BY <2>1, LeastOf
  <2>3. PICK p \in near : 100 - Sim(p, w) = j
    BY <2>2
  <2>4. p \in most
    <3>1. ASSUME NEW q \in near
          PROVE  Sim(q, w) <= Sim(p, w)
      <4>1. 100 - Sim(q, w) \in S
        OBVIOUS
      <4>2. j <= 100 - Sim(q, w)
        BY <2>2, <4>1
      <4>3. PICK a, b : a = Sim(q, w) /\ b = Sim(p, w)
        OBVIOUS
      <4>4. a \in 0 .. 100 /\ b \in 0 .. 100
        BY <1>1, <2>3, <4>3
      <4>5. 100 - b <= 100 - a
        BY <2>3, <4>2, <4>3
      <4> QED
        BY <4>3, <4>4, <4>5
    <3> QED
      BY <3>1
  <2>5. \A q \in most : length[q] \in Nat
    BY <1>1
  <2> HIDE DEF length, most
  <2>6. t \in most
    BY <1>2, <2>4, <2>5, FirstByFirst
  <2> QED
    BY <1>1, <2>6 DEF most
<1> QED
  BY <1>3, <1>4

\* Looking up a word changes what was found alone.
LEMMA LookKeeps ==
  ASSUME ScanTyped, NEW found \in Progress, NEW r \in Reports, NEW w \in WordSet(r[2]),
         NEW f \in Look(found, w)
  PROVE  /\ f \in Progress /\ f.rows = found.rows /\ f.pair = found.pair
         /\ f.words = found.words /\ f.clean = found.clean
<1>1. ASSUME NEW x \in Progress, NEW p \in Ports \cup {None}, NEW c \in 0 .. 100,
             NEW y, y = consider(x, p, c)
      PROVE  SameBut(x, y)
  BY <1>1, ConsiderKeeps
<1>2. PICK l \in Locode(w), t \in Nearest(w), s \in Subsequence(w) :
        \E a, b : /\ a = consider(found, l, confLocode)
                  /\ b = consider(a, IF t # None /\ Sim(t, w) >= minTrigram THEN t ELSE None,
                                     IF t # None THEN Sim(t, w) ELSE 0)
                  /\ f = IF w \in abbrevLike THEN consider(b, s, confSubseq) ELSE b
  BY DEF Look
<1>3. /\ l \in Ports \cup {None} /\ t \in Here \cup {None} /\ s \in Ports \cup {None}
      /\ t \in Ports \cup {None}
  BY DEF Locode, Nearest, Subsequence, FirstBy, Here
<1>4. PICK p, c : /\ p = IF t # None /\ Sim(t, w) >= minTrigram THEN t ELSE None
                  /\ c = IF t # None THEN Sim(t, w) ELSE 0
  OBVIOUS
<1>5. p \in Ports \cup {None} /\ c \in 0 .. 100
  BY <1>3, <1>4, PortFacts
<1>6. PICK a, b : /\ a = consider(found, l, confLocode)
                  /\ b = consider(a, p, c)
                  /\ f = IF w \in abbrevLike THEN consider(b, s, confSubseq) ELSE b
  BY <1>2, <1>4
<1>7. SameBut(found, a)
  BY <1>1, <1>3, <1>6
<1>8. SameBut(a, b)
  <2>1. a \in Progress
    BY <1>7 DEF SameBut
  <2> QED
    BY <1>1, <1>5, <1>6, <2>1
<1>9. SameBut(b, f)
  <2>1. b \in Progress
    BY <1>8 DEF SameBut
  <2>2. CASE f = b
    BY <2>1, <2>2 DEF SameBut
  <2>3. CASE f = consider(b, s, confSubseq)
    BY <1>1, <1>3, <2>1, <2>3
  <2> QED
    BY <1>6, <2>2, <2>3
<1> QED
  BY <1>7, <1>8, <1>9 DEF SameBut

\* Looking up a word adds its signals to what was found.
LEMMA LookIsBest ==
  ASSUME ScanTyped, NEW found \in Progress, NEW S, AreSignals(S),
         IsBest(found.port, found.best, S),
         NEW r \in Reports, NEW w \in WordSet(r[2]), NEW f \in Look(found, w)
  PROVE  /\ IsBest(f.port, f.best,
              S \cup LocodeSignals(w) \cup TrigramSignals(w) \cup SubseqSignals(w))
         /\ f \in Progress /\ f.rows = found.rows /\ f.pair = found.pair
         /\ f.words = found.words /\ f.clean = found.clean
<1>1. PICK l \in Locode(w), t \in Nearest(w), s \in Subsequence(w) :
        \E a, b : /\ a = consider(found, l, confLocode)
                  /\ b = consider(a, IF t # None /\ Sim(t, w) >= minTrigram THEN t ELSE None,
                                     IF t # None THEN Sim(t, w) ELSE 0)
                  /\ f = IF w \in abbrevLike THEN consider(b, s, confSubseq) ELSE b
  BY DEF Look
<1>2. PICK a, b : /\ a = consider(found, l, confLocode)
                  /\ b = consider(a, IF t # None /\ Sim(t, w) >= minTrigram THEN t ELSE None,
                                     IF t # None THEN Sim(t, w) ELSE 0)
                  /\ f = IF w \in abbrevLike THEN consider(b, s, confSubseq) ELSE b
  BY <1>1
<1>3. AreSignals(LocodeSignals(w)) /\ AreSignals(TrigramSignals(w)) /\ AreSignals(SubseqSignals(w))
  BY DEF AreSignals, LocodeSignals, TrigramSignals, SubseqSignals, Here
<1>4. /\ \A p \in Here : p \in Ports /\ p # None /\ gazetteer[p].length \in Nat /\ Sim(p, w) \in 0 .. 100
      /\ None \notin Ports
  BY PortFacts, NamesAssumption
<1>5. Offers(l, confLocode, LocodeSignals(w))
  BY DEF Locode, LocodeSignals, Offers
<1>6. Adds(found, a, S, LocodeSignals(w))
  <2>1. /\ None \notin Ports /\ AreSignals(LocodeSignals(w)) /\ AreSignals(S)
        /\ a = consider(found, l, confLocode) /\ Offers(l, confLocode, LocodeSignals(w))
    BY <1>2, <1>3, <1>4, <1>5
  <2> QED
    BY <2>1, ConsiderBest
<1>7. PICK p, c : /\ p = IF t # None /\ Sim(t, w) >= minTrigram THEN t ELSE None
                  /\ c = IF t # None THEN Sim(t, w) ELSE 0
  OBVIOUS
<1>8. Offers(p, c, TrigramSignals(w))
  <2>1. CASE t = None /\ \A q \in Here : Sim(q, w) < reviewThreshold
    <3>1. TrigramSignals(w) = {}
      BY <1>4, <2>1 DEF TrigramSignals
    <3> QED
      BY <1>7, <2>1, <3>1 DEF Offers
  <2>2. CASE /\ t \in Here /\ t # None
             /\ \A q \in Here : Sim(q, w) >= reviewThreshold => Sim(q, w) <= Sim(t, w)
    <3>1. CASE Sim(t, w) >= minTrigram
      <4>1. p = t /\ c = Sim(t, w) /\ <<p, c>> \in TrigramSignals(w)
        BY <1>4, <1>7, <2>2, <3>1 DEF TrigramSignals
      <4>2. \A x \in TrigramSignals(w) : x[2] <= c
        BY <1>4, <2>2, <4>1 DEF TrigramSignals
      <4> QED
        BY <4>1, <4>2 DEF Offers
    <3>2. CASE ~(Sim(t, w) >= minTrigram)
      <4>1. p = None
        BY <1>7, <3>2
      <4>2. TrigramSignals(w) = {}
        BY <1>4, <2>2, <3>2 DEF TrigramSignals
      <4> QED
        BY <4>1, <4>2 DEF Offers
    <3> QED
      BY <3>1, <3>2
  <2> QED
    BY <2>1, <2>2, NearestIsNear
<1>9. Adds(a, b, S \cup LocodeSignals(w), TrigramSignals(w))
  <2>1. /\ None \notin Ports /\ AreSignals(TrigramSignals(w))
        /\ b = consider(a, p, c) /\ Offers(p, c, TrigramSignals(w))
    BY <1>2, <1>3, <1>4, <1>7, <1>8
  <2>2. /\ a \in Progress /\ AreSignals(S \cup LocodeSignals(w))
        /\ IsBest(a.port, a.best, S \cup LocodeSignals(w))
    BY <1>6 DEF Adds, SameBut
  <2> QED
    BY <2>1, <2>2, ConsiderBest
<1>10. CASE w \notin abbrevLike
  <2>1. f = b /\ SubseqSignals(w) = {}
    BY <1>2, <1>10 DEF SubseqSignals
  <2> QED
    BY <1>6, <1>9, <2>1 DEF Adds, SameBut
<1>11. CASE w \in abbrevLike
  <2>1. f = consider(b, s, confSubseq)
    BY <1>2, <1>11
  <2>2. Offers(s, confSubseq, SubseqSignals(w))
    <3> DEFINE spell == {q \in Here : w \in gazetteer[q].spells}
               key == [q \in Here |-> gazetteer[q].length]
    <3>1. s \in FirstBy(spell, key) /\ \A q \in spell : key[q] \in Nat
      BY <1>4 DEF Subsequence
    <3>2. (spell = {} /\ s = None) \/ s \in spell
      <4> HIDE DEF spell, key
      <4> QED
        BY <3>1, FirstByFirst
    <3> QED
      BY <1>11, <3>2 DEF SubseqSignals, Offers
  <2>3. Adds(b, f, (S \cup LocodeSignals(w)) \cup TrigramSignals(w), SubseqSignals(w))
    <3>1. None \notin Ports /\ AreSignals(SubseqSignals(w))
      BY <1>3, <1>4
    <3>2. /\ b \in Progress /\ AreSignals((S \cup LocodeSignals(w)) \cup TrigramSignals(w))
          /\ IsBest(b.port, b.best, (S \cup LocodeSignals(w)) \cup TrigramSignals(w))
      BY <1>9 DEF Adds, SameBut
    <3> QED
      BY <2>1, <2>2, <3>1, <3>2, ConsiderBest
  <2> QED
    BY <1>6, <1>9, <2>3 DEF Adds, SameBut
<1> QED
  BY <1>10, <1>11

\* The words of a sequence are its first and those of the rest.
LEMMA HeadAndTail ==
  ASSUME NEW s \in Seq(STRING), s # <<>>
  PROVE  /\ Head(s) \in {s[k] : k \in DOMAIN s} /\ Tail(s) \in Seq(STRING)
         /\ {s[k] : k \in DOMAIN s} = {Head(s)} \cup {Tail(s)[k] : k \in DOMAIN Tail(s)}
<1>1. /\ Len(s) \in Nat \ {0} /\ DOMAIN s = 1 .. Len(s) /\ Head(s) = s[1] /\ Tail(s) \in Seq(STRING)
      /\ DOMAIN Tail(s) = 1 .. Len(s) - 1
      /\ \A k \in 1 .. Len(s) - 1 : Tail(s)[k] = s[k + 1]
  OBVIOUS
<1>2. ASSUME NEW k \in DOMAIN s, k # 1
      PROVE  \E j \in DOMAIN Tail(s) : Tail(s)[j] = s[k]
  <2>1. k - 1 \in DOMAIN Tail(s) /\ (k - 1) + 1 = k
    BY <1>1, <1>2
  <2> QED
    BY <1>1, <2>1
<1>3. \A k \in DOMAIN Tail(s) : k + 1 \in DOMAIN s /\ Tail(s)[k] = s[k + 1]
  BY <1>1
<1>4. 1 \in DOMAIN s
  BY <1>1
<1> QED
  BY <1>1, <1>2, <1>3, <1>4

SureAreBest ==
  \A r \in sure : IsBest(hints[r].port, hints[r].confidence, SignalsIn(WordSet(r[2])))

ScanInv == ScanTyped /\ Found /\ HintsCount /\ SureAreBest

\* The signals of a destination are those about its words.
LEMMA SignalsOfWords ==
  ASSUME NEW d
  PROVE  (IF d \in junk THEN {} ELSE Signals(d)) = SignalsIn(WordSet(d))
<1>1. CASE d \in junk
  BY <1>1 DEF SignalsIn, WordSet
<1>2. CASE d \notin junk
  <2>1. WordSet(d) = {Words[d][k] : k \in DOMAIN Words[d]}
    BY <1>2 DEF WordSet
  <2>2. Signals(d) = SignalsIn(WordSet(d))
    BY <2>1 DEF Signals, SignalsIn, LocodeSignals, TrigramSignals, SubseqSignals
  <2> QED
    BY <1>2, <2>2
<1> QED
  BY <1>1, <1>2

\* Signals are of ports that are there, and depend on the gazetteer alone.
LEMMA SignalsStay ==
  ASSUME NEW W
  PROVE  AreSignals(SignalsIn(W)) /\ (gazetteer' = gazetteer => SignalsIn(W)' = SignalsIn(W))
<1>1. AreSignals(SignalsIn(W))
  BY DEF AreSignals, SignalsIn, LocodeSignals, TrigramSignals, SubseqSignals, Here
<1>2. gazetteer' = gazetteer => SignalsIn(W)' = SignalsIn(W)
  BY DEF SignalsIn, LocodeSignals, TrigramSignals, SubseqSignals, Here, Sim
<1> QED
  BY <1>1, <1>2

\* A signal is at least as strong as what the worker stores.
LEMMA SignalsAreStored ==
  ASSUME NEW W, NEW s \in SignalsIn(W)
  PROVE  s[2] \in 1 .. 100 /\ s[2] >= minStore
  BY DEF SignalsIn, LocodeSignals, TrigramSignals, SubseqSignals

\* A scan of the pairs in R without one in hand.
Afresh(R) == [rows |-> R, pair |-> None, words |-> <<>>, port |-> None, best |-> 0, clean |-> TRUE]

\* A scan without a pair in hand is typed and has found nothing.
LEMMA NothingInHand ==
  ASSUME ScanInv, NEW R \in SUBSET Reports, scan' = Afresh(R), gazetteer' = gazetteer,
         reported' \subseteq Reports, sure' \subseteq Reports, DOMAIN hints' = Reports
  PROVE  ScanTyped' /\ Found' /\ HintsCount'
<1>2. scan'.pair = None /\ scan'.words = <<>> /\ scan'.clean
  BY DEF Afresh
<1>3. scan' \in Progress
  <2>1. PICK e, z, t : e = <<>> /\ z = 0 /\ t = TRUE
    OBVIOUS
  <2>2. e \in Seq(STRING) /\ z \in 0 .. 100 /\ t \in BOOLEAN
    BY <2>1
  <2>3. scan' = [rows |-> R, pair |-> None, words |-> e, port |-> None, best |-> z, clean |-> t]
    BY <2>1 DEF Afresh
  <2> QED
    BY <2>2, <2>3 DEF Progress
<1>4. WordsLeft' = {}
  <2>1. WordsLeft' = {<<>>[k] : k \in DOMAIN <<>>}
    BY <1>2 DEF WordsLeft
  <2> QED
    BY <2>1
<1>5. ScanTyped'
  BY <1>2, <1>3, <1>4 DEF ScanInv, ScanTyped
<1> QED
  BY <1>2, <1>5 DEF Found, HintsCount

\* The next pair: none of its words is looked up yet.
LEMMA NextPairFound ==
  ASSUME ScanInv, NextPair
  PROVE  ScanInv'
<1>1. PICK r \in scan.rows :
        scan' = [NoScan EXCEPT !.rows = scan.rows, !.pair = r,
                               !.words = IF r[2] \in junk THEN <<>> ELSE Words[r[2]]]
  BY DEF NextPair
<1>2. UNCHANGED <<gazetteer, reported, hints, sure>>
  BY DEF NextPair
<1> DEFINE ws == IF r[2] \in junk THEN <<>> ELSE Words[r[2]]
<1>3. r \in Reports /\ scan.rows \in SUBSET Reports /\ ws \in Seq(STRING)
  <2>1. r \in Reports /\ scan.rows \in SUBSET Reports
    BY DEF ScanInv, ScanTyped, Progress
  <2>2. Words[r[2]] \in Seq(STRING) /\ <<>> \in Seq(STRING)
    BY <2>1, NamesAssumption
  <2>3. ws = <<>> \/ ws = Words[r[2]]
    OBVIOUS
  <2> HIDE DEF ws
  <2> QED
    BY <2>1, <2>2, <2>3
<1>4. {ws[k] : k \in DOMAIN ws} = WordSet(r[2])
  BY DEF WordSet
<1> HIDE DEF ws
<1>5. scan' = [rows |-> scan.rows, pair |-> r, words |-> ws, port |-> None, best |-> 0, clean |-> TRUE]
  BY <1>1 DEF NoScan, ws
<1>6. /\ scan' \in Progress /\ scan'.pair = r /\ scan'.words = ws /\ scan'.port = None
      /\ scan'.best = 0 /\ scan'.clean
  BY <1>3, <1>5 DEF Progress
<1>7. r # None
  BY <1>3, NamesAssumption
<1>8. WordsLeft' = WordSet(r[2])
  BY <1>4, <1>6 DEF WordsLeft
<1>9. ScanTyped' /\ HintsCount'
  BY <1>2, <1>6, <1>7, <1>8 DEF ScanInv, ScanTyped, HintsCount
<1>10. Found'
  <2>1. SignalsIn({})' = {}
    BY DEF SignalsIn
  <2>2. IsBest(scan'.port, scan'.best, SignalsIn({})')
    BY <1>6, <2>1 DEF IsBest
  <2>3. {} \cup WordsLeft' = WordSet(scan'.pair[2])
    BY <1>6, <1>8
  <2> QED
    BY <2>2, <2>3 DEF Found
<1>11. SureAreBest'
  BY <1>2, SignalsStay DEF ScanInv, SureAreBest
<1> QED
  BY <1>9, <1>10, <1>11 DEF ScanInv

\* A lookup adds its word to those looked up.
LEMMA LookUpFound ==
  ASSUME ScanInv, LookUp
  PROVE  ScanInv'
<1>1. PICK found \in Look(scan, Head(scan.words)) : scan' = [found EXCEPT !.words = Tail(@)]
  BY DEF LookUp
<1>2. UNCHANGED <<gazetteer, reported, hints, sure>> /\ scan.words # <<>>
  BY DEF LookUp
<1>3. scan \in Progress /\ scan.words \in Seq(STRING) /\ scan.pair \in Reports
  BY <1>2 DEF ScanInv, ScanTyped, Progress
<1>0. PICK w : w = Head(scan.words)
  OBVIOUS
<1>4. /\ w \in WordsLeft /\ Tail(scan.words) \in Seq(STRING)
      /\ WordsLeft = {w} \cup {Tail(scan.words)[k] : k \in DOMAIN Tail(scan.words)}
  BY <1>0, <1>2, <1>3, HeadAndTail DEF WordsLeft
<1>5. w \in WordSet(scan.pair[2])
  BY <1>4 DEF ScanInv, ScanTyped
<1>6. ASSUME NEW S, AreSignals(S), IsBest(scan.port, scan.best, S)
      PROVE  IsBest(found.port, found.best,
                S \cup LocodeSignals(w) \cup TrigramSignals(w) \cup SubseqSignals(w))
  BY <1>0, <1>1, <1>3, <1>5, <1>6, LookIsBest DEF ScanInv
<1>7. /\ found \in Progress /\ found.rows = scan.rows /\ found.pair = scan.pair
      /\ found.words = scan.words /\ found.clean = scan.clean
  BY <1>0, <1>1, <1>3, <1>5, LookKeeps DEF ScanInv
<1>8. scan' = [rows |-> scan.rows, pair |-> scan.pair, words |-> Tail(scan.words),
               port |-> found.port, best |-> found.best, clean |-> scan.clean]
  BY <1>1, <1>7 DEF Progress
<1>9. /\ scan' \in Progress /\ scan'.pair = scan.pair /\ scan'.words = Tail(scan.words)
      /\ scan'.port = found.port /\ scan'.best = found.best /\ scan'.clean = scan.clean
  BY <1>3, <1>4, <1>7, <1>8 DEF Progress
<1>10. WordsLeft = {w} \cup WordsLeft'
  BY <1>4, <1>9 DEF WordsLeft
<1>11. ScanTyped' /\ HintsCount'
  BY <1>2, <1>3, <1>9, <1>10, NamesAssumption DEF ScanInv, ScanTyped, HintsCount
<1>12. Found'
  <2> SUFFICES ASSUME scan'.pair # None, scan'.clean
               PROVE  \E W : /\ W \cup WordsLeft' = WordSet(scan'.pair[2])
                             /\ IsBest(scan'.port, scan'.best, SignalsIn(W)')
    BY DEF Found
  <2>1. PICK W : W \cup WordsLeft = WordSet(scan.pair[2]) /\ IsBest(scan.port, scan.best, SignalsIn(W))
    BY <1>9 DEF ScanInv, Found
  <2>2. (W \cup {w}) \cup WordsLeft' = WordSet(scan'.pair[2])
    BY <1>9, <1>10, <2>1
  <2>3. IsBest(found.port, found.best,
           SignalsIn(W) \cup LocodeSignals(w) \cup TrigramSignals(w) \cup SubseqSignals(w))
    BY <1>6, <2>1, SignalsStay
  <2>4. SignalsIn(W \cup {w}) =
           SignalsIn(W) \cup LocodeSignals(w) \cup TrigramSignals(w) \cup SubseqSignals(w)
    BY DEF SignalsIn
  <2>5. SignalsIn(W \cup {w})' = SignalsIn(W \cup {w})
    <3>1. PICK V : V = W \cup {w}
      OBVIOUS
    <3>2. SignalsIn(V)' = SignalsIn(V)
      BY <1>2, SignalsStay
    <3> QED
      BY <3>1, <3>2
  <2>6. IsBest(scan'.port, scan'.best, SignalsIn(W \cup {w})')
    BY <1>9, <2>3, <2>4, <2>5
  <2> QED
    BY <2>2, <2>6
<1>13. SureAreBest'
  BY <1>2, SignalsStay DEF ScanInv, SureAreBest
<1> QED
  BY <1>11, <1>12, <1>13 DEF ScanInv

\* The pair in hand gets the best of the signals about its words.
LEMMA UpsertFound ==
  ASSUME ScanInv, Upsert
  PROVE  ScanInv'
<1>1. /\ scan.pair # None /\ scan.words = <<>> /\ gazetteer' = gazetteer /\ reported' = reported
      /\ scan' = Afresh(scan.rows \ {scan.pair})
      /\ sure' = IF scan.clean THEN sure \cup {scan.pair} ELSE sure
  BY DEF Upsert, NoScan, Afresh
<1>2. /\ scan.pair \in Reports /\ scan.rows \in SUBSET Reports /\ sure \subseteq Reports
      /\ reported \subseteq Reports /\ DOMAIN hints = Reports
  BY <1>1 DEF ScanInv, ScanTyped, Progress
<1>3. /\ DOMAIN hints' = Reports
      /\ hints'[scan.pair].port = IF scan.best >= minStore THEN scan.port ELSE None
      /\ hints'[scan.pair].confidence = IF scan.best >= minStore THEN scan.best ELSE 0
      /\ \A r \in Reports \ {scan.pair} : hints'[r] = hints[r]
  BY <1>2 DEF Upsert
<1>4. ScanTyped' /\ Found' /\ HintsCount'
  <2>1. scan.rows \ {scan.pair} \in SUBSET Reports /\ reported' \subseteq Reports /\ sure' \subseteq Reports
    BY <1>1, <1>2
  <2>2. PICK R \in SUBSET Reports : R = scan.rows \ {scan.pair}
    BY <2>1
  <2> QED
    BY <1>1, <1>3, <2>1, <2>2, NothingInHand
<1>5. ASSUME scan.clean
      PROVE  IsBest(hints'[scan.pair].port, hints'[scan.pair].confidence, SignalsIn(WordSet(scan.pair[2])))
  <2>1. PICK W : W \cup WordsLeft = WordSet(scan.pair[2]) /\ IsBest(scan.port, scan.best, SignalsIn(W))
    BY <1>1, <1>5 DEF ScanInv, Found
  <2>2. WordsLeft = {}
    <3>1. WordsLeft = {<<>>[k] : k \in DOMAIN <<>>}
      BY <1>1 DEF WordsLeft
    <3> QED
      BY <3>1
  <2>3. W = WordSet(scan.pair[2])
    BY <2>1, <2>2
  <2>4. CASE SignalsIn(W) = {}
    <3>1. scan.port = None /\ scan.best = 0
      BY <2>1, <2>4 DEF IsBest
    <3> QED
      BY <1>3, <2>3, <2>4, <3>1 DEF IsBest
  <2>5. CASE SignalsIn(W) # {}
    <3>1. <<scan.port, scan.best>> \in SignalsIn(W)
      BY <2>1, <2>5 DEF IsBest
    <3>2. scan.best >= minStore
      BY <3>1, SignalsAreStored
    <3> QED
      BY <1>3, <2>1, <2>3, <3>2
  <2> QED
    BY <2>4, <2>5
<1>6. ASSUME NEW r \in sure'
      PROVE  IsBest(hints'[r].port, hints'[r].confidence, SignalsIn(WordSet(r[2]))')
  <2>1. SignalsIn(WordSet(r[2]))' = SignalsIn(WordSet(r[2]))
    <3>1. PICK W : W = WordSet(r[2])
      OBVIOUS
    <3>2. SignalsIn(W)' = SignalsIn(W)
      BY <1>1, SignalsStay
    <3> QED
      BY <3>1, <3>2
  <2>2. CASE r = scan.pair /\ scan.clean
    BY <1>5, <2>1, <2>2
  <2>3. CASE ~(r = scan.pair /\ scan.clean)
    <3>1. r \in sure /\ scan.clean
      BY <1>1, <2>3 DEF ScanInv, HintsCount
    <3>2. r \in Reports \ {scan.pair}
      BY <1>2, <2>3, <3>1
    <3> QED
      BY <1>3, <2>1, <3>1, <3>2 DEF ScanInv, SureAreBest
  <2> QED
    BY <2>2, <2>3
<1>7. SureAreBest'
  BY <1>6 DEF SureAreBest
<1> QED
  BY <1>4, <1>7 DEF ScanInv

\* A scan starts with what is reported, and one that fails leaves nothing behind.
LEMMA ScanStartsOver ==
  ASSUME ScanInv, StartScan \/ ScanFails
  PROVE  ScanInv'
<1>1. /\ gazetteer' = gazetteer /\ reported' = reported /\ sure' = sure /\ hints' = hints
      /\ scan' = Afresh(reported) \/ scan' = Afresh({})
  BY DEF StartScan, ScanFails, NoScan, Afresh
<1>2. PICK R \in SUBSET Reports : scan' = Afresh(R)
  BY <1>1 DEF ScanInv, ScanTyped
<1>3. reported' \subseteq Reports /\ sure' \subseteq Reports /\ DOMAIN hints' = Reports
  BY <1>1 DEF ScanInv, ScanTyped
<1>4. ScanTyped' /\ Found' /\ HintsCount'
  BY <1>1, <1>2, <1>3, NothingInHand
<1>5. SureAreBest'
  BY <1>1, SignalsStay DEF ScanInv, SureAreBest
<1> QED
  BY <1>4, <1>5 DEF ScanInv

\* A change of the gazetteer leaves no hint that counts.
LEMMA SeedForgets ==
  ASSUME ScanInv, Seed
  PROVE  ScanInv'
<1>1. PICK p \in Ports, n \in PortNames : gazetteer' = [gazetteer EXCEPT ![p] = n]
  BY DEF Seed
<1>2. sure' = {} /\ scan' = [scan EXCEPT !.clean = FALSE] /\ reported' = reported /\ hints' = hints
  BY DEF Seed
<1>3. gazetteer' \in [Ports -> PortNames \cup {None}]
  BY <1>1 DEF ScanInv, ScanTyped
<1>4. scan \in Progress
  BY DEF ScanInv, ScanTyped
<1>5. scan' = [rows |-> scan.rows, pair |-> scan.pair, words |-> scan.words,
               port |-> scan.port, best |-> scan.best, clean |-> FALSE]
  BY <1>2, <1>4 DEF Progress
<1>6. scan'.pair = scan.pair /\ scan'.words = scan.words /\ ~scan'.clean
  BY <1>5
<1>7. scan' \in Progress
  BY <1>4, <1>5 DEF Progress
<1>8. WordsLeft' = WordsLeft
  BY <1>6 DEF WordsLeft
<1>9. ScanTyped'
  BY <1>2, <1>3, <1>6, <1>7, <1>8 DEF ScanInv, ScanTyped
<1> QED
  BY <1>2, <1>6, <1>9 DEF ScanInv, Found, HintsCount, SureAreBest

\* No other step touches the scan, its hints or the gazetteer.
LEMMA ScanUntouched ==
  ASSUME ScanInv, scan' = scan, gazetteer' = gazetteer, hints' = hints, sure' = sure,
         reported' \subseteq Reports
  PROVE  ScanInv'
<1>1. WordsLeft' = WordsLeft
  BY DEF WordsLeft
<1>2. ScanTyped'
  BY <1>1 DEF ScanInv, ScanTyped
<1>3. HintsCount'
  BY DEF ScanInv, HintsCount
<1>4. SureAreBest'
  BY SignalsStay DEF ScanInv, SureAreBest
<1>5. Found'
  <2> SUFFICES ASSUME scan.pair # None, scan.clean
               PROVE  \E W : /\ W \cup WordsLeft = WordSet(scan.pair[2])
                             /\ IsBest(scan.port, scan.best, SignalsIn(W)')
    BY <1>1 DEF Found
  <2>1. PICK W : W \cup WordsLeft = WordSet(scan.pair[2]) /\ IsBest(scan.port, scan.best, SignalsIn(W))
    BY DEF ScanInv, Found
  <2>2. SignalsIn(W)' = SignalsIn(W)
    BY SignalsStay
  <2> QED
    BY <2>1, <2>2
<1> QED
  BY <1>2, <1>3, <1>4, <1>5 DEF ScanInv

\* Every step keeps what is known of the scan.
LEMMA StepKeepsScan ==
  ASSUME ScanInv, [Next]_vars
  PROVE  ScanInv'
<1>1. CASE StartScan \/ ScanFails
  BY <1>1, ScanStartsOver
<1>2. CASE NextPair
  BY <1>2, NextPairFound
<1>3. CASE LookUp
  BY <1>3, LookUpFound
<1>4. CASE Upsert
  BY <1>4, UpsertFound
<1>5. CASE Seed
  BY <1>5, SeedForgets
<1>6. reported \subseteq Reports
  BY DEF ScanInv, ScanTyped
<1>7. CASE ReportDestination \/ Expire
  <2>1. scan' = scan /\ gazetteer' = gazetteer /\ hints' = hints /\ sure' = sure
    BY <1>7 DEF ReportDestination, Expire
  <2>2. reported' \subseteq Reports
    BY <1>6, <1>7 DEF ReportDestination, Expire
  <2> QED
    BY <2>1, <2>2, ScanUntouched
<1>8. CASE UNCHANGED scanning
  BY <1>6, <1>8, ScanUntouched DEF scanning
<1>9. CASE UNCHANGED vars
  BY <1>8, <1>9 DEF vars
<1>10. ASSUME NEW c \in Clients, Resolve(c)
       PROVE  UNCHANGED scanning
  BY <1>10 DEF Resolve, Exact, Trigram, AddAlias, Create, QueueReview, ResolveFails
<1>11. ASSUME NEW i \in Ids, NEW p \in Ids, SetParent(i, p)
       PROVE  UNCHANGED scanning
  BY <1>11 DEF SetParent
<1>12. ASSUME NEW u \in updates, CommitParent(u)
       PROVE  UNCHANGED scanning
  BY <1>12 DEF CommitParent
<1> QED
  BY <1>1, <1>2, <1>3, <1>4, <1>5, <1>7, <1>8, <1>9, <1>10, <1>11, <1>12 DEF Next

\* A hint written under the gazetteer as it is names a port that no signal beats
\* (destnorm.go), for any names and similarities, over scans that fail half-way.
THEOREM HintsAreBestHolds == Spec => []HintsAreBest
<1>1. Init => ScanInv
  <2> SUFFICES ASSUME Init
               PROVE  ScanInv
    OBVIOUS
  <2>1. /\ gazetteer = [p \in Ports |-> None] /\ reported = {} /\ sure = {}
        /\ hints = [r \in Reports |-> None]
        /\ scan = [rows |-> {}, pair |-> None, words |-> <<>>, port |-> None, best |-> 0, clean |-> TRUE]
    BY DEF Init, NoScan
  <2>2. scan \in Progress
    <3>1. <<>> \in Seq(STRING) /\ {} \in SUBSET Reports /\ 0 \in 0 .. 100
      OBVIOUS
    <3> QED
      BY <2>1, <3>1 DEF Progress
  <2>3. WordsLeft = {}
    <3>1. WordsLeft = {<<>>[k] : k \in DOMAIN <<>>}
      BY <2>1 DEF WordsLeft
    <3> QED
      BY <3>1
  <2>4. scan.pair = None /\ scan.words = <<>> /\ scan.clean
    BY <2>1
  <2>5. ScanTyped
    BY <2>1, <2>2, <2>3, <2>4 DEF ScanTyped
  <2> QED
    BY <2>1, <2>4, <2>5 DEF ScanInv, Found, HintsCount, SureAreBest
<1>2. ScanInv /\ [Next]_vars => ScanInv'
  BY StepKeepsScan
<1>3. ScanInv => HintsAreBest
  <2> SUFFICES ASSUME ScanInv, NEW r \in sure
               PROVE  LET signals == IF r[2] \in junk THEN {} ELSE Signals(r[2])
                          h == hints[r]
                      IN IF signals = {} THEN h.port = None /\ h.confidence = 0
                         ELSE /\ <<h.port, h.confidence>> \in signals
                              /\ \A s \in signals : s[2] <= h.confidence
    BY DEF HintsAreBest
  <2>1. IsBest(hints[r].port, hints[r].confidence, SignalsIn(WordSet(r[2])))
    BY DEF ScanInv, SureAreBest
  <2>2. (IF r[2] \in junk THEN {} ELSE Signals(r[2])) = SignalsIn(WordSet(r[2]))
    BY SignalsOfWords
  <2> QED
    BY <2>1, <2>2 DEF IsBest
<1> QED
  BY <1>1, <1>2, <1>3, PTL DEF Spec
=============================================================================
