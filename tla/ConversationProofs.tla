------------------------- MODULE ConversationProofs -------------------------
(***************************************************************************)
(* For a thread of any length: each LLM request pairs calls with answers,  *)
(* whatever was cut, summarised or left unfinished; with a summary no row  *)
(* is missing from the request; and the search for the message that trips  *)
(* the content filter ends at one that does.                               *)
(***************************************************************************)
EXTENDS Conversation, TLAPS, WellFoundedInduction, FiniteSetTheorems

Sizes == {LIMIT, KEEP, FIRST, MAX_POOL, MAX_BYTES, MAX_RESULT, COLLAPSE, SUMMARY_TOTAL, PROBE_CAP}
           \subseteq Nat

-----------------------------------------------------------------------------
(* Numbers: the least of a set, and induction in the form of a set.        *)

LEMMA LeastExists ==
  ASSUME NEW S \in SUBSET Nat, S # {}
  PROVE  \E n \in S : \A k \in S : n <= k
<1>1. PICK n \in S : \A k \in S : <<k, n>> \notin OpToRel(<, Nat)
  BY NatLessThanWellFounded, WFMin
<1>2. \A x, y \in Nat : x < y => <<x, y>> \in OpToRel(<, Nat)
  BY DEF OpToRel
<1>3. \A k \in S : n <= k
  <2> SUFFICES ASSUME NEW k \in S PROVE n <= k
    OBVIOUS
  <2>1. ~(k < n)
    BY <1>1, <1>2
  <2> QED
    BY <2>1
<1> QED
  BY <1>3

LEMMA MinIsLeast ==
  ASSUME NEW S \in SUBSET Nat, S # {}
  PROVE  Min(S) \in S /\ \A k \in S : Min(S) <= k
<1>1. PICK n \in S : \A k \in S : n <= k
  BY LeastExists
<1>2. \E x \in S : \A y \in S : x =< y
  BY <1>1
<1> QED
  BY <1>2 DEF Min

LEMMA Induction ==
  ASSUME NEW S, 0 \in S, \A n \in Nat : n \in S => n + 1 \in S
  PROVE  Nat \subseteq S
<1> SUFFICES ASSUME Nat \ S # {} PROVE FALSE
  OBVIOUS
<1>1. PICK n \in Nat \ S : \A k \in Nat \ S : n <= k
  BY LeastExists
<1>2. n # 0 /\ n - 1 \in Nat /\ (n - 1) + 1 = n
  BY <1>1
<1>3. n - 1 \in S
  BY <1>1, <1>2
<1> QED
  BY <1>1, <1>2, <1>3

(* A loop that takes messages off the front takes some number of them.     *)
LEMMA CutIsInRange ==
  ASSUME NEW last \in Nat, NEW S \in SUBSET (0 .. last), last \in S
  PROVE  Min(S) \in 0 .. last
<1>1. S \in SUBSET Nat /\ S # {}
  OBVIOUS
<1>2. Min(S) \in S
  BY <1>1, MinIsLeast
<1> QED
  BY <1>2

-----------------------------------------------------------------------------
(* Messages.                                                               *)

Call    == Nat \X Nat
Results == [id : Call, err : BOOLEAN, size : Nat]
Message == [at : Nat, role : {"user", "assistant", "tool"}, uses : SUBSET Call,
            results : SUBSET Results, bad : BOOLEAN]

(* One answer per call.                                                    *)
Single(results) == \A r, q \in results : r.id = q.id => r = q

Sane(m) ==
  /\ m.uses \subseteq {m.at} \X Nat
  /\ IF m.role = "tool" THEN m.uses = {} /\ Single(m.results) ELSE m.results = {}

Proper(ms) ==
  /\ ms \in Seq(Message)
  /\ \A i \in 1 .. Len(ms) : Sane(ms[i])
  /\ \A i, j \in 1 .. Len(ms) : i # j => ms[i].at # ms[j].at

(* The rows that messages stand for.                                       *)
Ats(ms) == {ms[i].at : i \in 1 .. Len(ms)}

(* The same messages, some results with other bodies.                      *)
SameBut(m, n) ==
  /\ n \in Message
  /\ n.at = m.at /\ n.role = m.role /\ n.uses = m.uses /\ n.bad = m.bad /\ Ids(n) = Ids(m)
  /\ Single(m.results) => Single(n.results)

Elided(ms, ns) ==
  /\ ns \in Seq(Message) /\ Len(ns) = Len(ms)
  /\ \A i \in 1 .. Len(ms) : SameBut(ms[i], ns[i])

LEMMA ElidedIsHistory ==
  ASSUME NEW ms, NEW ns, Proper(ms), Elided(ms, ns)
  PROVE  Proper(ns)
<1> USE DEF Proper, Elided
<1>1. \A i \in 1 .. Len(ns) : Sane(ns[i])
  <2> SUFFICES ASSUME NEW i \in 1 .. Len(ns) PROVE Sane(ns[i])
    OBVIOUS
  <2>1. Sane(ms[i]) /\ SameBut(ms[i], ns[i]) /\ ms[i] \in Message /\ ns[i] \in Message
    OBVIOUS
  <2>2. ms[i].results = {} => ns[i].results = {}
    <3>1. {r.id : r \in ns[i].results} = {r.id : r \in ms[i].results}
      BY <2>1 DEF SameBut, Ids
    <3> QED
      BY <3>1
  <2>3. ns[i].uses \subseteq {ns[i].at} \X Nat
    BY <2>1 DEF SameBut, Sane
  <2>4. ns[i].role = "tool" => ns[i].uses = {} /\ Single(ns[i].results)
    BY <2>1 DEF SameBut, Sane
  <2>5. ns[i].role # "tool" => ns[i].results = {}
    BY <2>1, <2>2 DEF SameBut, Sane
  <2> QED
    BY <2>3, <2>4, <2>5 DEF Sane
<1>2. \A i, j \in 1 .. Len(ns) : i # j => ns[i].at # ns[j].at
  BY DEF SameBut
<1> QED
  BY <1>1, <1>2

LEMMA DropIsHistory ==
  ASSUME NEW ms, Proper(ms), NEW n \in 0 .. Len(ms)
  PROVE  /\ Proper(Drop(ms, n)) /\ Len(Drop(ms, n)) = Len(ms) - n
         /\ \A i \in 1 .. Len(ms) - n : Drop(ms, n)[i] = ms[n + i]
<1> USE DEF Proper, Drop
<1>1. Len(ms) \in Nat /\ n \in Nat
  OBVIOUS
<1>2. Drop(ms, n) \in Seq(Message) /\ Len(Drop(ms, n)) = Len(ms) - n
  BY <1>1
<1>3. \A i \in 1 .. Len(ms) - n : Drop(ms, n)[i] = ms[n + i]
  BY <1>1
<1>4. \A i \in 1 .. Len(ms) - n : n + i \in 1 .. Len(ms)
  BY <1>1
<1>5. \A i, j \in 1 .. Len(ms) - n : i # j => n + i # n + j
  BY <1>1
<1>6. \A i \in 1 .. Len(ms) - n : Sane(Drop(ms, n)[i])
  <2> HIDE DEF Drop
  <2> QED
    BY <1>3, <1>4
<1>7. \A i, j \in 1 .. Len(ms) - n : i # j => Drop(ms, n)[i].at # Drop(ms, n)[j].at
  <2> HIDE DEF Drop
  <2> QED
    BY <1>3, <1>4, <1>5
<1> QED
  BY <1>2, <1>3, <1>6, <1>7

(* Nothing that was not there comes in on the way.                         *)
LEMMA ElidedAts ==
  ASSUME NEW ms, NEW ns, Elided(ms, ns)
  PROVE  Ats(ns) = Ats(ms)
BY DEF Elided, SameBut, Ats

LEMMA DropAts ==
  ASSUME NEW ms, Proper(ms), NEW n \in 0 .. Len(ms)
  PROVE  Ats(Drop(ms, n)) \subseteq Ats(ms)
<1> DEFINE d == Drop(ms, n)
<1>1. Len(ms) \in Nat /\ Len(d) = Len(ms) - n /\ \A i \in 1 .. Len(ms) - n : d[i] = ms[n + i]
  <2>1. Len(ms) \in Nat
    BY DEF Proper
  <2> QED
    BY <2>1, DropIsHistory
<1> HIDE DEF d
<1>2. \A i \in 1 .. Len(d) : n + i \in 1 .. Len(ms) /\ d[i] = ms[n + i]
  BY <1>1
<1>3. Ats(d) \subseteq Ats(ms)
  BY <1>2 DEF Ats
<1> QED
  BY <1>3 DEF d

-----------------------------------------------------------------------------
(* The window, the byte cap and the collapse.                              *)

LEMMA TrimCuts ==
  ASSUME NEW ms, NEW ns, Len(ms) \in Nat, Len(ns) = Len(ms),
         \A i \in 1 .. Len(ms) : ns[i].role = ms[i].role
  PROVE  \E n \in 0 .. Len(ms) : /\ TrimToConversationWindow(ms) = Drop(ms, n)
                                 /\ TrimToConversationWindow(ns) = Drop(ns, n)
         \/ LIMIT = 0
<1> DEFINE T(n) == Cardinality({i \in n + 1 .. Len(ms) : IsTalk(ms[i])})
           U(n) == Cardinality({i \in n + 1 .. Len(ns) : IsTalk(ns[i])})
           S == {n \in 0 .. Len(ms) : n = Len(ms) \/ T(n) <= LIMIT}
           R == {n \in 0 .. Len(ns) : n = Len(ns) \/ U(n) <= LIMIT}
<1>1. \A n \in 0 .. Len(ms) :
        {i \in n + 1 .. Len(ms) : IsTalk(ms[i])} = {i \in n + 1 .. Len(ns) : IsTalk(ns[i])}
  BY DEF IsTalk
<1>2. S = R
  BY <1>1
<1>3. Min(S) \in 0 .. Len(ms)
  <2>1. S \in SUBSET (0 .. Len(ms)) /\ Len(ms) \in S
    OBVIOUS
  <2> HIDE DEF S
  <2> QED
    BY <2>1, CutIsInRange
<1>4. LIMIT # 0 => /\ TrimToConversationWindow(ms) = Drop(ms, Min(S))
                   /\ TrimToConversationWindow(ns) = Drop(ns, Min(R))
  BY DEF TrimToConversationWindow, FirstWhere
<1> QED
  BY <1>2, <1>3, <1>4

LEMMA ResizedIsSame ==
  ASSUME NEW m \in Message, NEW size \in [m.results -> Nat]
  PROVE  SameBut(m, [m EXCEPT !.results = {[r EXCEPT !.size = size[r]] : r \in m.results}])
<1> DEFINE f(r) == [r EXCEPT !.size = size[r]]
           n == [m EXCEPT !.results = {f(r) : r \in m.results}]
<1>1. \A r \in m.results : r \in Results /\ f(r) \in Results /\ f(r).id = r.id
  BY DEF Message, Results
<1> HIDE DEF f
<1>2. n \in Message
  BY <1>1 DEF Message
<1>3. n.at = m.at /\ n.role = m.role /\ n.uses = m.uses /\ n.bad = m.bad
      /\ n.results = {f(r) : r \in m.results}
  BY DEF Message
<1>4. {q.id : q \in n.results} = {r.id : r \in m.results}
  BY <1>1, <1>3
<1>5. Single(m.results) => Single(n.results)
  BY <1>1, <1>3 DEF Single
<1>6. SameBut(m, n)
  BY <1>2, <1>3, <1>4, <1>5 DEF SameBut, Ids
<1> QED
  BY <1>6 DEF f

LEMMA ResizedIsElided ==
  ASSUME NEW ms \in Seq(Message), NEW size,
         \A i \in 1 .. Len(ms) : size[i] \in [ms[i].results -> Nat]
  PROVE  Elided(ms, [i \in DOMAIN ms |->
                       [ms[i] EXCEPT !.results = {[r EXCEPT !.size = size[i][r]] : r \in @}]])
<1> DEFINE f(i) == [ms[i] EXCEPT !.results = {[r EXCEPT !.size = size[i][r]] : r \in ms[i].results}]
           ns == [i \in DOMAIN ms |-> f(i)]
<1>1. \A i \in 1 .. Len(ms) : ms[i] \in Message /\ SameBut(ms[i], f(i))
  <2> SUFFICES ASSUME NEW i \in 1 .. Len(ms) PROVE ms[i] \in Message /\ SameBut(ms[i], f(i))
    OBVIOUS
  <2>1. ms[i] \in Message /\ size[i] \in [ms[i].results -> Nat]
    OBVIOUS
  <2> QED
    BY <2>1, ResizedIsSame
<1> HIDE DEF f
<1>2. DOMAIN ms = 1 .. Len(ms) /\ Len(ms) \in Nat
  OBVIOUS
<1>3. \A i \in 1 .. Len(ms) : f(i) \in Message
  BY <1>1 DEF SameBut
<1>4. ns \in Seq(Message) /\ Len(ns) = Len(ms)
  BY <1>2, <1>3
<1>5. Elided(ms, ns)
  BY <1>1, <1>2, <1>4 DEF Elided
<1> QED
  BY <1>5 DEF f

LEMMA ElidedTwice ==
  ASSUME NEW ms, NEW ns, NEW os, Elided(ms, ns), Elided(ns, os)
  PROVE  Elided(ms, os)
BY DEF Elided, SameBut

(* Some results of some messages get another size, by any rule.            *)
Resized(ms, size, chosen) ==
  [i \in DOMAIN ms |-> [ms[i] EXCEPT !.results =
     {IF r \in chosen[i] THEN [r EXCEPT !.size = size] ELSE r : r \in @}]]

LEMMA SomeResized ==
  ASSUME NEW ms \in Seq(Message), NEW size \in Nat, NEW chosen
  PROVE  Elided(ms, Resized(ms, size, chosen))
<1> DEFINE to == [i \in 1 .. Len(ms) |->
                    [r \in ms[i].results |-> IF r \in chosen[i] THEN size ELSE r.size]]
<1>1. \A i \in 1 .. Len(ms) : to[i] \in [ms[i].results -> Nat]
  <2> SUFFICES ASSUME NEW i \in 1 .. Len(ms) PROVE to[i] \in [ms[i].results -> Nat]
    OBVIOUS
  <2>1. ms[i] \in Message /\ \A r \in ms[i].results : r.size \in Nat
    <3>1. ms[i] \in Message
      OBVIOUS
    <3> QED
      BY <3>1 DEF Message, Results
  <2>2. to[i] = [r \in ms[i].results |-> IF r \in chosen[i] THEN size ELSE r.size]
    OBVIOUS
  <2> QED
    BY <2>1, <2>2
<1>2. \A i \in 1 .. Len(ms) : \A r \in ms[i].results :
        [r EXCEPT !.size = to[i][r]] = IF r \in chosen[i] THEN [r EXCEPT !.size = size] ELSE r
  <2> SUFFICES ASSUME NEW i \in 1 .. Len(ms), NEW r \in ms[i].results
               PROVE  [r EXCEPT !.size = to[i][r]]
                        = IF r \in chosen[i] THEN [r EXCEPT !.size = size] ELSE r
    OBVIOUS
  <2>0. ms[i] \in Message
    OBVIOUS
  <2>1. r \in Results
    BY <2>0 DEF Message
  <2>2. [r EXCEPT !.size = r.size] = r
    BY <2>1 DEF Results
  <2> QED
    BY <2>2
<1>3. Elided(ms, [i \in DOMAIN ms |->
                    [ms[i] EXCEPT !.results = {[r EXCEPT !.size = to[i][r]] : r \in @}]])
  BY <1>1, ResizedIsElided
<1>4. DOMAIN ms = 1 .. Len(ms)
  OBVIOUS
<1> HIDE DEF to
<1>5. \A i \in DOMAIN ms : 
        {[r EXCEPT !.size = to[i][r]] : r \in ms[i].results}
          = {IF r \in chosen[i] THEN [r EXCEPT !.size = size] ELSE r : r \in ms[i].results}
  <2> DEFINE f(i, r) == [r EXCEPT !.size = to[i][r]]
             g(i, r) == IF r \in chosen[i] THEN [r EXCEPT !.size = size] ELSE r
  <2>1. \A i \in DOMAIN ms : \A r \in ms[i].results : f(i, r) = g(i, r)
    BY <1>2, <1>4
  <2> HIDE DEF f, g
  <2>2. \A i \in DOMAIN ms :
          {f(i, r) : r \in ms[i].results} = {g(i, r) : r \in ms[i].results}
    BY <2>1
  <2> QED
    BY <2>2 DEF f, g
<1> QED
  BY <1>3, <1>5 DEF Resized

LEMMA CollapseElides ==
  ASSUME Sizes, NEW ms \in Seq(Message), NEW keep
  PROVE  Elided(ms, CollapseOldToolResults(ms, keep))
<1> DEFINE chosen == [i \in DOMAIN ms |->
                        {r \in ms[i].results : i <= Len(ms) - keep /\ ~r.err /\ r.size >= COLLAPSE}]
<1>1. Elided(ms, Resized(ms, MARKER, chosen))
  <2> HIDE DEF chosen
  <2>1. MARKER \in Nat
    BY DEF MARKER
  <2> QED
    BY <2>1, SomeResized
<1>2. \A i \in DOMAIN ms : \A r \in ms[i].results :
        r \in chosen[i] <=> i <= Len(ms) - keep /\ ~r.err /\ r.size >= COLLAPSE
  OBVIOUS
<1>3. Elided(ms, ms)
  BY DEF Elided, SameBut
<1> HIDE DEF chosen
<1>4. \A i \in DOMAIN ms :
        {IF r \in chosen[i] THEN [r EXCEPT !.size = MARKER] ELSE r : r \in ms[i].results}
        = {IF i <= Len(ms) - keep /\ ~r.err /\ r.size >= COLLAPSE
           THEN [r EXCEPT !.size = MARKER] ELSE r : r \in ms[i].results}
  BY <1>2
<1> QED
  BY <1>1, <1>3, <1>4 DEF CollapseOldToolResults, OnResults, Resized

LEMMA ClampElides ==
  ASSUME Sizes, NEW ms \in Seq(Message)
  PROVE  Elided(ms, OnResults(ms, LAMBDA i, r :
           IF MAX_RESULT > 0 /\ r.size > MAX_RESULT THEN [r EXCEPT !.size = MAX_RESULT] ELSE r))
<1> DEFINE chosen == [i \in DOMAIN ms |->
                        {r \in ms[i].results : MAX_RESULT > 0 /\ r.size > MAX_RESULT}]
<1>1. \A i \in DOMAIN ms : \A r \in ms[i].results :
        r \in chosen[i] <=> MAX_RESULT > 0 /\ r.size > MAX_RESULT
  OBVIOUS
<1> HIDE DEF chosen
<1>2. Elided(ms, Resized(ms, MAX_RESULT, chosen))
  BY SomeResized DEF Sizes
<1>3. \A i \in DOMAIN ms :
        {IF r \in chosen[i] THEN [r EXCEPT !.size = MAX_RESULT] ELSE r : r \in ms[i].results}
        = {IF MAX_RESULT > 0 /\ r.size > MAX_RESULT
           THEN [r EXCEPT !.size = MAX_RESULT] ELSE r : r \in ms[i].results}
  BY <1>1
<1> QED
  BY <1>2, <1>3 DEF OnResults, Resized

ClearedUpTo(ms, n, old) ==
  OnResults(ms, LAMBDA i, r :
    IF i <= n /\ i <= old /\ ~r.err /\ r.size > MARKER THEN [r EXCEPT !.size = MARKER] ELSE r)

LEMMA ClearElides ==
  ASSUME NEW ms \in Seq(Message), NEW n, NEW old
  PROVE  Elided(ms, ClearedUpTo(ms, n, old))
<1> DEFINE chosen == [i \in DOMAIN ms |->
                        {r \in ms[i].results : i <= n /\ i <= old /\ ~r.err /\ r.size > MARKER}]
<1>1. \A i \in DOMAIN ms : \A r \in ms[i].results :
        r \in chosen[i] <=> i <= n /\ i <= old /\ ~r.err /\ r.size > MARKER
  OBVIOUS
<1> HIDE DEF chosen
<1>2. MARKER \in Nat
  BY DEF MARKER
<1>3. Elided(ms, Resized(ms, MARKER, chosen))
  BY <1>2, SomeResized
<1>4. \A i \in DOMAIN ms :
        {IF r \in chosen[i] THEN [r EXCEPT !.size = MARKER] ELSE r : r \in ms[i].results}
        = {IF i <= n /\ i <= old /\ ~r.err /\ r.size > MARKER
           THEN [r EXCEPT !.size = MARKER] ELSE r : r \in ms[i].results}
  BY <1>1
<1> QED
  BY <1>3, <1>4 DEF ClearedUpTo, OnResults, Resized

(* A loop over the front of a sequence of messages drops some of it.       *)
LEMMA CutKeeps ==
  ASSUME NEW ms, Proper(ms), NEW last \in 0 .. Len(ms), NEW S \in SUBSET (0 .. last), last \in S
  PROVE  Proper(Drop(ms, Min(S))) /\ Ats(Drop(ms, Min(S))) \subseteq Ats(ms)
<1>1. last \in Nat /\ Len(ms) \in Nat
  BY DEF Proper
<1>2. Min(S) \in 0 .. last
  BY <1>1, CutIsInRange
<1>3. Min(S) \in 0 .. Len(ms)
  BY <1>1, <1>2
<1> QED
  BY <1>3, DropIsHistory, DropAts

LEMMA CapKeeps ==
  ASSUME Sizes, NEW ms, Proper(ms)
  PROVE  /\ Proper(EnforceHistoryByteCap(ms))
         /\ Ats(EnforceHistoryByteCap(ms)) \subseteq Ats(ms)
<1> DEFINE clamped == OnResults(ms, LAMBDA i, r :
             IF MAX_RESULT > 0 /\ r.size > MAX_RESULT THEN [r EXCEPT !.size = MAX_RESULT] ELSE r)
           old == Len(ms) - Larger(KEEP, 1)
           Clr(n) == ClearedUpTo(clamped, n, old)
           enough == FirstWhere(Len(ms), LAMBDA n : TotalBytes(Clr(n)) <= MAX_BYTES)
           phaseA == Clr(enough)
           S == {n \in 0 .. Len(ms) - 1 :
                   n = Len(ms) - 1 \/ TotalBytes(Drop(phaseA, n)) <= MAX_BYTES}
           phaseB == Drop(phaseA, Min(S))
           R == {n \in 0 .. Len(phaseB) : n = Len(phaseB) \/ phaseB[n + 1].role # "tool"}
<1>1. CASE MAX_BYTES = 0 \/ ms = <<>>
  BY <1>1 DEF EnforceHistoryByteCap
<1>2. CASE ~(MAX_BYTES = 0 \/ ms = <<>>)
  <2>1. EnforceHistoryByteCap(ms) = Drop(phaseB, Min(R))
    BY <1>2 DEF EnforceHistoryByteCap, StripLeadingTools, FirstWhere, ClearedUpTo
  <2>2. ms \in Seq(Message) /\ Len(ms) \in Nat /\ Len(ms) # 0
    BY <1>2 DEF Proper
  <2>3. Elided(ms, clamped)
    BY <2>2, ClampElides
  <2> HIDE DEF clamped, old
  <2>4. Proper(clamped) /\ clamped \in Seq(Message) /\ Len(clamped) = Len(ms)
    BY <2>3, ElidedIsHistory DEF Elided
  <2> HIDE DEF enough
  <2>5. Elided(clamped, phaseA)
    BY <2>4, ClearElides
  <2> HIDE DEF phaseA
  <2>6. Proper(phaseA) /\ Len(phaseA) = Len(ms)
    BY <2>4, <2>5, ElidedIsHistory DEF Elided
  <2>7. Proper(phaseB) /\ Ats(phaseB) \subseteq Ats(phaseA)
    <3>1. Len(ms) - 1 \in 0 .. Len(phaseA)
      BY <2>2, <2>6
    <3>2. S \in SUBSET (0 .. Len(ms) - 1) /\ Len(ms) - 1 \in S
      BY <2>2
    <3> HIDE DEF S
    <3> QED
      BY <2>6, <3>1, <3>2, CutKeeps
  <2> HIDE DEF phaseB
  <2>8. Proper(Drop(phaseB, Min(R))) /\ Ats(Drop(phaseB, Min(R))) \subseteq Ats(phaseB)
    <3>1. Len(phaseB) \in 0 .. Len(phaseB)
      BY <2>7 DEF Proper
    <3>2. R \in SUBSET (0 .. Len(phaseB)) /\ Len(phaseB) \in R
      BY <3>1
    <3> HIDE DEF R
    <3> QED
      BY <2>7, <3>1, <3>2, CutKeeps
  <2>9. Ats(phaseA) = Ats(ms)
    BY <2>3, <2>5, ElidedAts
  <2> QED
    BY <2>1, <2>7, <2>8, <2>9
<1> QED
  BY <1>1, <1>2

LEMMA TrimKeeps ==
  ASSUME NEW ms, Proper(ms)
  PROVE  Proper(TrimToConversationWindow(ms))
<1>1. Len(ms) \in Nat
  BY DEF Proper
<1>2. CASE LIMIT = 0
  BY <1>2 DEF TrimToConversationWindow
<1>3. CASE LIMIT # 0
  <2>1. PICK n \in 0 .. Len(ms) : TrimToConversationWindow(ms) = Drop(ms, n)
    BY <1>1, <1>3, TrimCuts
  <2> QED
    BY <2>1, DropIsHistory
<1> QED
  BY <1>2, <1>3

-----------------------------------------------------------------------------
(* The repair of the pairing.                                              *)

(* What holds between two messages: all calls but those of the last        *)
(* message copied are answered, by the message behind them.                *)
Answers(out) ==
  /\ \A i \in 1 .. Len(out) :
       IF out[i].role = "tool"
       THEN /\ out[i].uses = {} /\ out[i].results # {} /\ Single(out[i].results)
            /\ i > 1 /\ Ids(out[i]) \subseteq out[i - 1].uses
       ELSE out[i].results = {}
  /\ \A i \in 1 .. Len(out) - 1 : out[i].uses # {} =>
       out[i + 1].role = "tool" /\ out[i].uses \subseteq Ids(out[i + 1])
  /\ \A i, j \in 1 .. Len(out) : i # j => Ids(out[i]) \cap Ids(out[j]) = {}

Repair == [out : Seq(Message), seen : SUBSET Call, answered : SUBSET Call, open : SUBSET Call]

Paired(acc) ==
  /\ acc \in Repair
  /\ acc.seen = acc.answered \cup acc.open /\ acc.answered \cap acc.open = {}
  /\ acc.open = IF acc.out = <<>> THEN {} ELSE acc.out[Len(acc.out)].uses
  /\ Answers(acc.out)
  /\ \A i \in 1 .. Len(acc.out) : Ids(acc.out[i]) \subseteq acc.answered

(* The message that answers what is open.                                  *)
Closing(acc, m, n) ==
  /\ n \in Message /\ n.at = m.at /\ n.role = "tool" /\ n.uses = {} /\ n.bad = m.bad
  /\ Ids(n) = acc.open /\ Single(n.results)
  /\ LET c == Close(acc, m) IN
       /\ c \in Repair /\ c.out = Append(acc.out, n)
       /\ c.seen = acc.seen /\ c.answered = acc.answered \cup acc.open /\ c.open = {}

LEMMA CloseAnswers ==
  ASSUME NEW acc, Paired(acc), NEW m \in Message, m.role = "tool", Sane(m)
  PROVE  \E n : Closing(acc, m, n)
<1> DEFINE kept == {r \in m.results : r.id \in acc.seen \ acc.answered}
           missing == acc.open \ {r.id : r \in kept}
           all == kept \cup Synthetic(missing)
           n == [m EXCEPT !.results = all]
<1>1. acc.seen \ acc.answered = acc.open /\ acc.open \subseteq Call
  BY DEF Paired, Repair
<1>2. kept \subseteq Results /\ {r.id : r \in kept} \subseteq acc.open
  BY <1>1 DEF Message
<1>3. missing \subseteq Call
  BY <1>1
<1> HIDE DEF missing
<1>4. /\ \A q \in Synthetic(missing) : q \in Results /\ q.id \in missing
      /\ \A u \in missing : \E q \in Synthetic(missing) : q.id = u
      /\ \A q, r \in Synthetic(missing) : q.id = r.id => q = r
  <2> DEFINE f(u) == [id |-> u, err |-> TRUE, size |-> 1]
  <2>1. \A u \in missing : f(u) \in Results /\ f(u).id = u
    BY <1>3 DEF Results
  <2>2. Synthetic(missing) = {f(u) : u \in missing}
    BY DEF Synthetic
  <2> HIDE DEF f
  <2> QED
    BY <2>1, <2>2
<1>5. missing \subseteq acc.open /\ \A r \in kept : r.id \notin missing
  BY DEF missing
<1>6. {r.id : r \in all} = acc.open
  <2>1. \A r \in all : r.id \in acc.open
    BY <1>2, <1>4, <1>5
  <2>2. \A u \in acc.open : \E r \in all : r.id = u
    BY <1>4 DEF missing
  <2> QED
    BY <2>1, <2>2
<1>7. Single(all)
  <2>1. \A q, r \in kept : q.id = r.id => q = r
    BY DEF Single, Sane
  <2>2. \A q \in kept, r \in Synthetic(missing) : q.id # r.id
    BY <1>4, <1>5
  <2> QED
    BY <1>4, <2>1, <2>2 DEF Single
<1>8. n \in Message /\ n.at = m.at /\ n.role = "tool" /\ n.uses = {} /\ n.bad = m.bad
      /\ n.results = all
  <2>1. all \subseteq Results
    BY <1>2, <1>4
  <2> HIDE DEF all
  <2> QED
    BY <2>1 DEF Message, Sane
<1>9. Close(acc, m) = Answered(acc, {r.id : r \in all}, n)
  BY DEF Close, missing
<1> HIDE DEF all, n
<1>10. LET c == Answered(acc, acc.open, n) IN
         /\ c \in Repair /\ c.out = Append(acc.out, n)
         /\ c.seen = acc.seen /\ c.answered = acc.answered \cup acc.open /\ c.open = {}
  <2>1. acc \in Repair
    BY DEF Paired
  <2>2. Append(acc.out, n) \in Seq(Message) /\ acc.answered \cup acc.open \in SUBSET Call
    BY <1>8, <2>1 DEF Repair
  <2> QED
    BY <2>1, <2>2 DEF Answered, Repair
<1>11. Closing(acc, m, n)
  BY <1>6, <1>7, <1>8, <1>9, <1>10 DEF Closing, Ids
<1> QED
  BY <1>11

LEMMA CloseKeeps ==
  ASSUME NEW acc, Paired(acc), acc.open # {}, NEW m, NEW n, Closing(acc, m, n)
  PROVE  Paired(Close(acc, m))
<1> DEFINE old == acc.out
           out == Append(acc.out, n)
           c == Close(acc, m)
<1>1. /\ c \in Repair /\ c.out = out /\ c.seen = acc.seen
      /\ c.answered = acc.answered \cup acc.open /\ c.open = {}
      /\ n \in Message /\ n.role = "tool" /\ n.uses = {} /\ Ids(n) = acc.open /\ Single(n.results)
  BY DEF Closing
<1>2. old \in Seq(Message) /\ Len(old) \in Nat /\ Len(old) # 0 /\ old[Len(old)].uses = acc.open
  BY DEF Paired, Repair
<1>3. /\ out \in Seq(Message) /\ Len(out) = Len(old) + 1 /\ out[Len(old) + 1] = n
      /\ \A i \in 1 .. Len(old) : out[i] = old[i]
  BY <1>1, <1>2
<1>4. Answers(old) /\ \A i \in 1 .. Len(old) : Ids(old[i]) \subseteq acc.answered
  BY DEF Paired
<1> HIDE DEF out, c
<1>5. n.results # {}
  BY <1>1 DEF Ids
<1>6. Answers(out)
  <2>1. \A i \in 1 .. Len(out) :
          IF out[i].role = "tool"
          THEN /\ out[i].uses = {} /\ out[i].results # {} /\ Single(out[i].results)
               /\ i > 1 /\ Ids(out[i]) \subseteq out[i - 1].uses
          ELSE out[i].results = {}
    <3> SUFFICES ASSUME NEW i \in 1 .. Len(out)
                 PROVE  IF out[i].role = "tool"
                        THEN /\ out[i].uses = {} /\ out[i].results # {} /\ Single(out[i].results)
                             /\ i > 1 /\ Ids(out[i]) \subseteq out[i - 1].uses
                        ELSE out[i].results = {}
      OBVIOUS
    <3>1. CASE i = Len(old) + 1
      BY <1>1, <1>2, <1>3, <1>5, <3>1
    <3>2. CASE i \in 1 .. Len(old)
      <4>1. out[i] = old[i] /\ (i > 1 => out[i - 1] = old[i - 1])
        <5>1. i > 1 => i - 1 \in 1 .. Len(old)
          BY <1>2, <3>2
        <5> QED
          BY <1>3, <3>2, <5>1
      <4> QED
        BY <1>4, <3>2, <4>1 DEF Answers
    <3> QED
      BY <1>2, <1>3, <3>1, <3>2
  <2>2. \A i \in 1 .. Len(out) - 1 : out[i].uses # {} =>
          out[i + 1].role = "tool" /\ out[i].uses \subseteq Ids(out[i + 1])
    <3> SUFFICES ASSUME NEW i \in 1 .. Len(old), out[i].uses # {}
                 PROVE  out[i + 1].role = "tool" /\ out[i].uses \subseteq Ids(out[i + 1])
      BY <1>2, <1>3
    <3>1. CASE i = Len(old)
      BY <1>1, <1>2, <1>3, <3>1
    <3>2. CASE i \in 1 .. Len(old) - 1
      <4>1. out[i] = old[i] /\ out[i + 1] = old[i + 1]
        <5>1. i + 1 \in 1 .. Len(old)
          BY <1>2, <3>2
        <5> QED
          BY <1>3, <3>2, <5>1
      <4> QED
        BY <1>4, <3>2, <4>1 DEF Answers
    <3> QED
      BY <1>2, <3>1, <3>2
  <2>3. \A i, j \in 1 .. Len(out) : i # j => Ids(out[i]) \cap Ids(out[j]) = {}
    <3>1. \A i, j \in 1 .. Len(old) : i # j => Ids(out[i]) \cap Ids(out[j]) = {}
      BY <1>3, <1>4 DEF Answers
    <3>2. \A i \in 1 .. Len(old) : Ids(out[i]) \cap Ids(n) = {}
      BY <1>1, <1>3, <1>4 DEF Paired
    <3>3. \A i \in 1 .. Len(out) : i \in 1 .. Len(old) \/ (i = Len(old) + 1 /\ out[i] = n)
      BY <1>2, <1>3
    <3> QED
      BY <3>1, <3>2, <3>3
  <2> QED
    BY <2>1, <2>2, <2>3 DEF Answers
<1>7. \A i \in 1 .. Len(out) : Ids(out[i]) \subseteq acc.answered \cup acc.open
  BY <1>1, <1>2, <1>3, <1>4
<1>8. out # <<>> /\ out[Len(out)].uses = {}
  BY <1>1, <1>2, <1>3
<1>9. Paired(c)
  BY <1>1, <1>6, <1>7, <1>8 DEF Paired
<1> QED
  BY <1>9 DEF c

LEMMA NobodyOpen ==
  ASSUME NEW acc, Paired(acc)
  PROVE  LET done == CloseMissing(acc) IN Paired(done) /\ done.open = {} /\ done.seen = acc.seen
<1>1. CASE acc.open = {}
  BY <1>1 DEF CloseMissing
<1>2. CASE acc.open # {}
  <2> DEFINE m == ToolMessage({})
  <2>1. m \in Message /\ m.role = "tool" /\ Sane(m)
    BY DEF ToolMessage, Message, Sane, Single
  <2> HIDE DEF m
  <2>2. PICK n : Closing(acc, m, n)
    BY <2>1, CloseAnswers
  <2>3. Paired(Close(acc, m))
    BY <1>2, <2>2, CloseKeeps
  <2>4. Close(acc, m).open = {} /\ Close(acc, m).seen = acc.seen
    BY <2>2 DEF Closing
  <2>5. CloseMissing(acc) = Close(acc, m)
    BY <1>2 DEF CloseMissing, m
  <2> QED
    BY <2>3, <2>4, <2>5
<1> QED
  BY <1>1, <1>2

(* A message that is no answer is copied; its calls are open from now on.  *)
Copied(done, m) == [done EXCEPT !.out = Append(@, m), !.open = m.uses, !.seen = @ \cup m.uses]

LEMMA CopyKeeps ==
  ASSUME NEW done, Paired(done), done.open = {}, NEW m \in Message, m.role # "tool", Sane(m),
         m.uses \cap done.seen = {}
  PROVE  /\ Paired(Copied(done, m)) /\ Copied(done, m).seen = done.seen \cup m.uses
         /\ Copied(done, m).out = Append(done.out, m)
<1> DEFINE old == done.out
           out == Append(old, m)
           c == Copied(done, m)
<1>1. old \in Seq(Message) /\ Len(old) \in Nat /\ done \in Repair
  BY DEF Paired, Repair
<1>2. /\ out \in Seq(Message) /\ Len(out) = Len(old) + 1 /\ out[Len(old) + 1] = m
      /\ \A i \in 1 .. Len(old) : out[i] = old[i]
  BY <1>1
<1> HIDE DEF out
<1>3. /\ c \in Repair /\ c.out = out /\ c.seen = done.seen \cup m.uses
      /\ c.answered = done.answered /\ c.open = m.uses
  <2>1. m.uses \subseteq Call
    BY DEF Message
  <2> QED
    BY <1>1, <1>2, <2>1 DEF Copied, Repair, out
<1> HIDE DEF c
<1>4. Answers(old) /\ \A i \in 1 .. Len(old) : Ids(old[i]) \subseteq done.answered
  BY DEF Paired
<1>5. Ids(m) = {}
  BY DEF Sane, Ids
<1>6. Answers(out)
  <2>1. \A i \in 1 .. Len(out) :
          IF out[i].role = "tool"
          THEN /\ out[i].uses = {} /\ out[i].results # {} /\ Single(out[i].results)
               /\ i > 1 /\ Ids(out[i]) \subseteq out[i - 1].uses
          ELSE out[i].results = {}
    <3> SUFFICES ASSUME NEW i \in 1 .. Len(out)
                 PROVE  IF out[i].role = "tool"
                        THEN /\ out[i].uses = {} /\ out[i].results # {} /\ Single(out[i].results)
                             /\ i > 1 /\ Ids(out[i]) \subseteq out[i - 1].uses
                        ELSE out[i].results = {}
      OBVIOUS
    <3>1. CASE i = Len(old) + 1
      BY <1>2, <3>1 DEF Sane
    <3>2. CASE i \in 1 .. Len(old)
      <4>1. out[i] = old[i] /\ (i > 1 => out[i - 1] = old[i - 1])
        <5>1. i > 1 => i - 1 \in 1 .. Len(old)
          BY <1>1, <3>2
        <5> QED
          BY <1>2, <3>2, <5>1
      <4> QED
        BY <1>4, <3>2, <4>1 DEF Answers
    <3> QED
      BY <1>1, <1>2, <3>1, <3>2
  <2>2. \A i \in 1 .. Len(out) - 1 : out[i].uses # {} =>
          out[i + 1].role = "tool" /\ out[i].uses \subseteq Ids(out[i + 1])
    <3> SUFFICES ASSUME NEW i \in 1 .. Len(old), out[i].uses # {}
                 PROVE  out[i + 1].role = "tool" /\ out[i].uses \subseteq Ids(out[i + 1])
      BY <1>1, <1>2
    <3>1. CASE i = Len(old)
      <4>1. old # <<>> /\ out[i] = old[Len(old)]
        BY <1>1, <1>2, <3>1
      <4> QED
        BY <4>1 DEF Paired
    <3>2. CASE i \in 1 .. Len(old) - 1
      <4>1. out[i] = old[i] /\ out[i + 1] = old[i + 1]
        <5>1. i + 1 \in 1 .. Len(old)
          BY <1>1, <3>2
        <5> QED
          BY <1>2, <3>2, <5>1
      <4> QED
        BY <1>4, <3>2, <4>1 DEF Answers
    <3> QED
      BY <1>1, <3>1, <3>2
  <2>3. \A i, j \in 1 .. Len(out) : i # j => Ids(out[i]) \cap Ids(out[j]) = {}
    <3>1. \A i, j \in 1 .. Len(old) : i # j => Ids(out[i]) \cap Ids(out[j]) = {}
      BY <1>2, <1>4 DEF Answers
    <3>2. \A i \in 1 .. Len(out) : i \in 1 .. Len(old) \/ (i = Len(old) + 1 /\ out[i] = m)
      BY <1>1, <1>2
    <3> QED
      BY <1>5, <3>1, <3>2
  <2> QED
    BY <2>1, <2>2, <2>3 DEF Answers
<1>7. \A i \in 1 .. Len(out) : Ids(out[i]) \subseteq done.answered
  <2>1. \A i \in 1 .. Len(out) : i \in 1 .. Len(old) \/ (i = Len(old) + 1 /\ out[i] = m)
    BY <1>1, <1>2
  <2> QED
    BY <1>2, <1>4, <1>5, <2>1
<1>8. out # <<>> /\ out[Len(out)].uses = m.uses
  BY <1>1, <1>2
<1>9. c.seen = c.answered \cup c.open /\ c.answered \cap c.open = {}
  BY <1>3 DEF Paired
<1>10. Paired(c)
  BY <1>3, <1>6, <1>7, <1>8, <1>9 DEF Paired
<1> QED
  BY <1>3, <1>10 DEF c, out

LEMMA PairKeeps ==
  ASSUME NEW acc, Paired(acc), NEW m \in Message, Sane(m), m.uses \cap acc.seen = {}
  PROVE  Paired(PairMessage(acc, m)) /\ PairMessage(acc, m).seen = acc.seen \cup m.uses
<1>1. CASE m.role = "tool" /\ acc.open = {}
  BY <1>1 DEF PairMessage, Sane
<1>2. CASE m.role = "tool" /\ acc.open # {}
  <2>1. PICK n : Closing(acc, m, n)
    BY <1>2, CloseAnswers
  <2>2. Paired(Close(acc, m)) /\ Close(acc, m).seen = acc.seen
    BY <1>2, <2>1, CloseKeeps DEF Closing
  <2> QED
    BY <1>2, <2>2 DEF PairMessage, Sane
<1>3. CASE m.role # "tool"
  <2> DEFINE done == CloseMissing(acc)
  <2>1. Paired(done) /\ done.open = {} /\ done.seen = acc.seen
    BY NobodyOpen
  <2>2. PairMessage(acc, m) = Copied(done, m)
    BY <1>3 DEF PairMessage, Copied
  <2> HIDE DEF done
  <2>3. Paired(Copied(done, m)) /\ Copied(done, m).seen = done.seen \cup m.uses
    BY <1>3, <2>1, CopyKeeps
  <2> QED
    BY <2>1, <2>2, <2>3
<1> QED
  BY <1>1, <1>2, <1>3

(* The loop over the messages computes what its steps say.                 *)
LEMMA PairingLoop ==
  ASSUME NEW ms, Len(ms) \in Nat
  PROVE  \E p : /\ p[0] = Unpaired
                /\ \A n \in 1 .. Len(ms) : p[n] = PairMessage(p[n - 1], ms[n])
                /\ EnsureToolResultPairing(ms) = CloseMissing(p[Len(ms)]).out
<1> DEFINE Loop(k, p) ==
             p = [n \in 0 .. k |-> IF n = 0 THEN Unpaired ELSE PairMessage(p[n - 1], ms[n])]
           S == {k \in Nat : \E p : Loop(k, p)}
<1>1. 0 \in S
  <2>1. Loop(0, [n \in 0 .. 0 |-> Unpaired])
    OBVIOUS
  <2> HIDE DEF Loop
  <2> QED
    BY <2>1
<1>2. \A k \in Nat : k \in S => k + 1 \in S
  <2> SUFFICES ASSUME NEW k \in Nat, NEW p, Loop(k, p) PROVE \E q : Loop(k + 1, q)
    BY SMTT(60)
  <2> DEFINE q == [n \in 0 .. k + 1 |-> IF n = k + 1 THEN PairMessage(p[k], ms[k + 1]) ELSE p[n]]
  <2>1. \A n \in 0 .. k : p[n] = IF n = 0 THEN Unpaired ELSE PairMessage(p[n - 1], ms[n])
    OBVIOUS
  <2>2. \A n \in 0 .. k + 1 :
          q[n] = IF n = 0 THEN Unpaired ELSE PairMessage(q[n - 1], ms[n])
    <3> SUFFICES ASSUME NEW n \in 0 .. k + 1
                 PROVE  q[n] = IF n = 0 THEN Unpaired ELSE PairMessage(q[n - 1], ms[n])
      OBVIOUS
    <3>1. CASE n = 0
      BY <2>1, <3>1
    <3>2. CASE n = k + 1
      <4>1. n - 1 \in 0 .. k + 1 /\ n - 1 = k /\ n # 0
        BY <3>2
      <4> QED
        BY <3>2, <4>1
    <3>3. CASE n \in 1 .. k
      <4>1. n - 1 \in 0 .. k + 1 /\ n - 1 # k + 1 /\ n # k + 1 /\ n # 0 /\ n \in 0 .. k
        BY <3>3
      <4>2. q[n] = p[n] /\ q[n - 1] = p[n - 1]
        BY <4>1
      <4> QED
        BY <2>1, <4>1, <4>2
    <3> QED
      BY <3>1, <3>2, <3>3
  <2>3. q = [n \in 0 .. k + 1 |-> q[n]]
    OBVIOUS
  <2> HIDE DEF q
  <2>4. Loop(k + 1, q)
    BY <2>2, <2>3
  <2> QED
    BY <2>4
<1>3. Len(ms) \in S
  <2> HIDE DEF S
  <2> QED
    BY <1>1, <1>2, Induction
<1> DEFINE paired == CHOOSE p : Loop(Len(ms), p)
<1>4. Loop(Len(ms), paired)
  <2> HIDE DEF Loop
  <2> QED
    BY <1>3
<1>5. EnsureToolResultPairing(ms) = CloseMissing(paired[Len(ms)]).out
  BY DEF EnsureToolResultPairing
<1> HIDE DEF paired
<1>6. \A n \in 0 .. Len(ms) :
        paired[n] = IF n = 0 THEN Unpaired ELSE PairMessage(paired[n - 1], ms[n])
  BY <1>4
<1>7. paired[0] = Unpaired /\ \A n \in 1 .. Len(ms) : paired[n] = PairMessage(paired[n - 1], ms[n])
  BY <1>6
<1> QED
  BY <1>5, <1>7

(* Calls of different messages are different calls.                        *)
LEMMA UsesApart ==
  ASSUME NEW ms, Proper(ms), NEW i \in 1 .. Len(ms), NEW j \in 1 .. Len(ms), i # j
  PROVE  ms[i].uses \cap ms[j].uses = {}
<1>1. ms[i].uses \subseteq {ms[i].at} \X Nat /\ ms[j].uses \subseteq {ms[j].at} \X Nat
  BY DEF Proper, Sane
<1>2. ms[i].at # ms[j].at
  BY DEF Proper
<1> QED
  BY <1>1, <1>2

LEMMA EndsPaired ==
  ASSUME NEW acc, Paired(acc), acc.open = {}
  PROVE  WellPaired(acc.out)
<1> DEFINE out == acc.out
<1>1. out \in Seq(Message) /\ Len(out) \in Nat /\ DOMAIN out = 1 .. Len(out)
  BY DEF Paired, Repair
<1>2. Answers(out)
  BY DEF Paired
<1>3. \A i \in 1 .. Len(out) : out[i].uses # {} => i < Len(out)
  BY <1>1 DEF Paired
<1> HIDE DEF out
<1>4. \A i \in DOMAIN out : out[i].uses # {} =>
        i < Len(out) /\ out[i + 1].role = "tool" /\ out[i].uses \subseteq Ids(out[i + 1])
  BY <1>1, <1>2, <1>3 DEF Answers
<1>5. \A i \in DOMAIN out : out[i].role = "tool" =>
        /\ i > 1 /\ Ids(out[i]) \subseteq out[i - 1].uses
        /\ out[i].results # {} /\ Single(out[i].results)
  BY <1>1, <1>2 DEF Answers
<1>6. \A i, j \in DOMAIN out : i # j => Ids(out[i]) \cap Ids(out[j]) = {}
  BY <1>1, <1>2 DEF Answers
<1>7. WellPaired(out)
  BY <1>4, <1>5, <1>6 DEF WellPaired, Single
<1> QED
  BY <1>7 DEF out

(* What the loop has done after n messages.                                *)
LEMMA PairingInvariant ==
  ASSUME NEW ms, Proper(ms), NEW p, p[0] = Unpaired,
         \A n \in 1 .. Len(ms) : p[n] = PairMessage(p[n - 1], ms[n])
  PROVE  \A n \in 0 .. Len(ms) : /\ Paired(p[n])
                                 /\ \A u \in p[n].seen : \E i \in 1 .. n : u \in ms[i].uses
<1> DEFINE Good(n) == Paired(p[n]) /\ \A u \in p[n].seen : \E i \in 1 .. n : u \in ms[i].uses
           S == {n \in Nat : n <= Len(ms) => Good(n)}
<1>1. Len(ms) \in Nat
  BY DEF Proper
<1>2. Good(0)
  BY DEF Unpaired, Paired, Repair, Answers
<1>3. \A n \in Nat : n \in S => n + 1 \in S
  <2> SUFFICES ASSUME NEW n \in Nat, n + 1 <= Len(ms), Good(n) PROVE Good(n + 1)
    BY <1>1
  <2> DEFINE m == ms[n + 1]
  <2>1. n + 1 \in 1 .. Len(ms) /\ (n + 1) - 1 = n
    BY <1>1
  <2>2. m \in Message /\ Sane(m) /\ p[n + 1] = PairMessage(p[n], m)
    BY <2>1 DEF Proper
  <2>3. m.uses \cap p[n].seen = {}
    <3> SUFFICES ASSUME NEW u \in p[n].seen PROVE u \notin m.uses
      OBVIOUS
    <3>1. PICK i \in 1 .. n : u \in ms[i].uses
      OBVIOUS
    <3>2. i \in 1 .. Len(ms) /\ i # n + 1
      BY <1>1, <2>1
    <3> QED
      BY <2>1, <3>1, <3>2, UsesApart
  <2> HIDE DEF m
  <2>4. Paired(PairMessage(p[n], m)) /\ PairMessage(p[n], m).seen = p[n].seen \cup m.uses
    BY <2>2, <2>3, PairKeeps
  <2>5. \A u \in p[n + 1].seen : \E i \in 1 .. n + 1 : u \in ms[i].uses
    <3> SUFFICES ASSUME NEW u \in p[n + 1].seen PROVE \E i \in 1 .. n + 1 : u \in ms[i].uses
      OBVIOUS
    <3>1. CASE u \in m.uses
      BY <3>1 DEF m
    <3>2. CASE u \in p[n].seen
      <4>1. PICK i \in 1 .. n : u \in ms[i].uses
        BY <3>2
      <4> QED
        BY <4>1
    <3> QED
      BY <2>2, <2>4, <3>1, <3>2
  <2> QED
    BY <2>2, <2>4, <2>5
<1>4. Nat \subseteq S
  <2>1. 0 \in S
    BY <1>2
  <2> HIDE DEF S
  <2> QED
    BY <1>3, <2>1, Induction
<1> QED
  BY <1>1, <1>4

(* The repair works: whatever history it is given.                         *)
LEMMA RepairPairs ==
  ASSUME NEW ms, Proper(ms)
  PROVE  WellPaired(EnsureToolResultPairing(ms))
<1>1. Len(ms) \in Nat
  BY DEF Proper
<1>2. PICK p : /\ p[0] = Unpaired
               /\ \A n \in 1 .. Len(ms) : p[n] = PairMessage(p[n - 1], ms[n])
               /\ EnsureToolResultPairing(ms) = CloseMissing(p[Len(ms)]).out
  BY <1>1, PairingLoop
<1>3. Paired(p[Len(ms)])
  BY <1>1, <1>2, PairingInvariant
<1>4. Paired(CloseMissing(p[Len(ms)])) /\ CloseMissing(p[Len(ms)]).open = {}
  BY <1>3, NobodyOpen
<1> QED
  BY <1>2, <1>4, EndsPaired

(* Whoever speaks is heard: only tool messages may be dropped.             *)
LEMMA AtsGrow ==
  ASSUME NEW out \in Seq(Message), NEW n \in Message
  PROVE  Ats(Append(out, n)) = Ats(out) \cup {n.at}
<1> DEFINE q == Append(out, n)
<1>1. /\ Len(out) \in Nat /\ Len(q) = Len(out) + 1 /\ q[Len(out) + 1] = n
      /\ \A i \in 1 .. Len(out) : q[i] = out[i]
  OBVIOUS
<1> HIDE DEF q
<1>2. \A x \in Ats(q) : x \in Ats(out) \cup {n.at}
  <2> SUFFICES ASSUME NEW i \in 1 .. Len(q) PROVE q[i].at \in Ats(out) \cup {n.at}
    BY DEF Ats
  <2>1. i \in 1 .. Len(out) \/ i = Len(out) + 1
    BY <1>1
  <2> QED
    BY <1>1, <2>1 DEF Ats
<1>3. \A x \in Ats(out) : x \in Ats(q)
  <2> SUFFICES ASSUME NEW i \in 1 .. Len(out) PROVE out[i].at \in Ats(q)
    BY DEF Ats
  <2>1. i \in 1 .. Len(q) /\ q[i] = out[i]
    BY <1>1
  <2> QED
    BY <2>1 DEF Ats
<1>4. n.at \in Ats(q)
  <2>1. Len(out) + 1 \in 1 .. Len(q)
    BY <1>1
  <2> QED
    BY <1>1, <2>1 DEF Ats
<1>5. Ats(q) = Ats(out) \cup {n.at}
  BY <1>2, <1>3, <1>4
<1> QED
  BY <1>5 DEF q

LEMMA ClosingCopies ==
  ASSUME NEW acc, Paired(acc)
  PROVE  Ats(acc.out) \subseteq Ats(CloseMissing(acc).out)
<1>1. CASE acc.open = {}
  BY <1>1 DEF CloseMissing
<1>2. CASE acc.open # {}
  <2> DEFINE t == ToolMessage({})
  <2>1. t \in Message /\ t.role = "tool" /\ Sane(t)
    BY DEF ToolMessage, Message, Sane, Single
  <2>2. CloseMissing(acc) = Close(acc, t)
    BY <1>2 DEF CloseMissing
  <2> HIDE DEF t
  <2>3. PICK n : Closing(acc, t, n)
    BY <2>1, CloseAnswers
  <2>4. CloseMissing(acc).out = Append(acc.out, n) /\ n \in Message /\ acc.out \in Seq(Message)
    BY <2>2, <2>3 DEF Closing, Paired, Repair
  <2> QED
    BY <2>4, AtsGrow
<1> QED
  BY <1>1, <1>2

LEMMA PairCopies ==
  ASSUME NEW acc, Paired(acc), NEW m \in Message, Sane(m), m.uses \cap acc.seen = {}
  PROVE  /\ Ats(acc.out) \subseteq Ats(PairMessage(acc, m).out)
         /\ m.role # "tool" => m.at \in Ats(PairMessage(acc, m).out)
<1>1. acc.out \in Seq(Message)
  BY DEF Paired, Repair
<1>2. CASE m.role = "tool" /\ acc.open = {}
  BY <1>2 DEF PairMessage
<1>3. CASE m.role = "tool" /\ acc.open # {}
  <2>1. PICK n : Closing(acc, m, n)
    BY <1>3, CloseAnswers
  <2>2. PairMessage(acc, m).out = Append(acc.out, n) /\ n \in Message
    BY <1>3, <2>1 DEF Closing, PairMessage
  <2> QED
    BY <1>1, <1>3, <2>2, AtsGrow
<1>4. CASE m.role # "tool"
  <2> DEFINE done == CloseMissing(acc)
  <2>1. Paired(done) /\ done.open = {} /\ done.seen = acc.seen
    BY NobodyOpen
  <2>2. PairMessage(acc, m) = Copied(done, m)
    BY <1>4 DEF PairMessage, Copied
  <2>3. Ats(acc.out) \subseteq Ats(done.out)
    BY ClosingCopies
  <2> HIDE DEF done
  <2>4. Copied(done, m).out = Append(done.out, m) /\ done.out \in Seq(Message)
    <3>1. done.out \in Seq(Message)
      BY <2>1 DEF Paired, Repair
    <3>2. m.uses \cap done.seen = {}
      BY <2>1
    <3> QED
      BY <1>4, <2>1, <3>1, <3>2, CopyKeeps
  <2> QED
    BY <2>2, <2>3, <2>4, AtsGrow
<1> QED
  BY <1>2, <1>3, <1>4

LEMMA RepairCopies ==
  ASSUME NEW ms, Proper(ms), NEW i \in 1 .. Len(ms), ms[i].role # "tool"
  PROVE  ms[i].at \in Ats(EnsureToolResultPairing(ms))
<1>1. Len(ms) \in Nat
  BY DEF Proper
<1>2. PICK p : /\ p[0] = Unpaired
               /\ \A n \in 1 .. Len(ms) : p[n] = PairMessage(p[n - 1], ms[n])
               /\ EnsureToolResultPairing(ms) = CloseMissing(p[Len(ms)]).out
  BY <1>1, PairingLoop
<1>3. \A n \in 0 .. Len(ms) : /\ Paired(p[n])
                              /\ \A u \in p[n].seen : \E k \in 1 .. n : u \in ms[k].uses
  BY <1>2, PairingInvariant
<1>4. \A n \in 1 .. Len(ms) :
        /\ Ats(p[n - 1].out) \subseteq Ats(p[n].out)
        /\ ms[n].role # "tool" => ms[n].at \in Ats(p[n].out)
  <2> SUFFICES ASSUME NEW n \in 1 .. Len(ms)
               PROVE  /\ Ats(p[n - 1].out) \subseteq Ats(p[n].out)
                      /\ ms[n].role # "tool" => ms[n].at \in Ats(p[n].out)
    OBVIOUS
  <2>1. n - 1 \in 0 .. Len(ms) /\ ms[n] \in Message /\ Sane(ms[n])
    BY <1>1 DEF Proper
  <2>2. Paired(p[n - 1]) /\ \A u \in p[n - 1].seen : \E k \in 1 .. n - 1 : u \in ms[k].uses
    BY <1>3, <2>1
  <2>3. ms[n].uses \cap p[n - 1].seen = {}
    <3> SUFFICES ASSUME NEW u \in p[n - 1].seen PROVE u \notin ms[n].uses
      OBVIOUS
    <3>1. PICK k \in 1 .. n - 1 : u \in ms[k].uses
      BY <2>2
    <3>2. k \in 1 .. Len(ms) /\ k # n
      BY <1>1
    <3> QED
      BY <3>1, <3>2, UsesApart
  <2>4. p[n] = PairMessage(p[n - 1], ms[n])
    BY <1>2
  <2> QED
    BY <2>1, <2>2, <2>3, <2>4, PairCopies
<1> DEFINE S == {n \in Nat : i <= n /\ n <= Len(ms) => ms[i].at \in Ats(p[n].out)}
<1>5. \A n \in Nat : n \in S => n + 1 \in S
  <2> SUFFICES ASSUME NEW n \in Nat, n \in S, i <= n + 1, n + 1 <= Len(ms)
               PROVE  ms[i].at \in Ats(p[n + 1].out)
    OBVIOUS
  <2>1. n + 1 \in 1 .. Len(ms) /\ (n + 1) - 1 = n
    BY <1>1
  <2>2. /\ Ats(p[n].out) \subseteq Ats(p[n + 1].out)
        /\ ms[n + 1].role # "tool" => ms[n + 1].at \in Ats(p[n + 1].out)
    BY <1>4, <2>1
  <2>3. CASE i = n + 1
    BY <2>2, <2>3
  <2>4. CASE i <= n
    BY <1>1, <2>1, <2>2, <2>4
  <2> QED
    BY <2>3, <2>4
<1>6. Len(ms) \in S
  <2>1. 0 \in S
    OBVIOUS
  <2> HIDE DEF S
  <2> QED
    BY <1>1, <1>5, <2>1, Induction
<1>7. ms[i].at \in Ats(p[Len(ms)].out)
  BY <1>1, <1>6
<1>8. Paired(p[Len(ms)])
  BY <1>1, <1>3
<1>9. Ats(p[Len(ms)].out) \subseteq Ats(CloseMissing(p[Len(ms)]).out)
  BY <1>8, ClosingCopies
<1> QED
  BY <1>2, <1>7, <1>9

(* Two histories that differ in what the filter would flag: the repaired   *)
(* ones differ in the same way.                                            *)
Follows(acc, bcc) ==
  /\ bcc.seen = acc.seen /\ bcc.answered = acc.answered /\ bcc.open = acc.open
  /\ Len(bcc.out) = Len(acc.out)
  /\ \A j \in 1 .. Len(acc.out) : acc.out[j].bad => bcc.out[j].bad

LEMMA AppendFollows ==
  ASSUME NEW s \in Seq(Message), NEW t \in Seq(Message), Len(t) = Len(s),
         \A j \in 1 .. Len(s) : s[j].bad => t[j].bad,
         NEW n \in Message, NEW v \in Message, n.bad => v.bad
  PROVE  LET sn == Append(s, n)  tv == Append(t, v) IN
         Len(tv) = Len(sn) /\ \A j \in 1 .. Len(sn) : sn[j].bad => tv[j].bad
<1> DEFINE sn == Append(s, n)
           tv == Append(t, v)
<1>1. /\ Len(s) \in Nat /\ Len(sn) = Len(s) + 1 /\ Len(tv) = Len(s) + 1
      /\ sn[Len(s) + 1] = n /\ tv[Len(s) + 1] = v
      /\ \A j \in 1 .. Len(s) : sn[j] = s[j] /\ tv[j] = t[j]
  OBVIOUS
<1> HIDE DEF sn, tv
<1>2. \A j \in 1 .. Len(sn) : j \in 1 .. Len(s) \/ j = Len(s) + 1
  BY <1>1
<1>3. Len(tv) = Len(sn) /\ \A j \in 1 .. Len(sn) : sn[j].bad => tv[j].bad
  BY <1>1, <1>2
<1> QED
  BY <1>3 DEF sn, tv

LEMMA CloseFollows ==
  ASSUME NEW acc, NEW bcc, Paired(acc), Paired(bcc), Follows(acc, bcc),
         NEW m \in Message, NEW w \in Message, m.role = "tool", w.role = "tool",
         Sane(m), Sane(w), m.bad => w.bad
  PROVE  Follows(Close(acc, m), Close(bcc, w))
<1>1. PICK n : Closing(acc, m, n)
  BY CloseAnswers
<1>2. PICK v : Closing(bcc, w, v)
  BY CloseAnswers
<1>3. acc.out \in Seq(Message) /\ bcc.out \in Seq(Message)
  BY DEF Paired, Repair
<1>4. n \in Message /\ v \in Message /\ (n.bad => v.bad)
  BY <1>1, <1>2 DEF Closing
<1>5. /\ Len(Append(bcc.out, v)) = Len(Append(acc.out, n))
      /\ \A j \in 1 .. Len(Append(acc.out, n)) :
           Append(acc.out, n)[j].bad => Append(bcc.out, v)[j].bad
  <2>1. Len(bcc.out) = Len(acc.out) /\ \A j \in 1 .. Len(acc.out) : acc.out[j].bad => bcc.out[j].bad
    BY DEF Follows
  <2> QED
    BY <1>3, <1>4, <2>1, AppendFollows
<1>6. /\ Close(acc, m).out = Append(acc.out, n) /\ Close(bcc, w).out = Append(bcc.out, v)
      /\ Close(acc, m).seen = acc.seen /\ Close(bcc, w).seen = bcc.seen
      /\ Close(acc, m).answered = acc.answered \cup acc.open
      /\ Close(bcc, w).answered = bcc.answered \cup bcc.open
      /\ Close(acc, m).open = {} /\ Close(bcc, w).open = {}
  BY <1>1, <1>2 DEF Closing
<1> QED
  BY <1>5, <1>6 DEF Follows

LEMMA ClosingFollows ==
  ASSUME NEW acc, NEW bcc, Paired(acc), Paired(bcc), Follows(acc, bcc)
  PROVE  Follows(CloseMissing(acc), CloseMissing(bcc))
<1>1. bcc.open = acc.open
  BY DEF Follows
<1>2. CASE acc.open = {}
  BY <1>1, <1>2 DEF CloseMissing
<1>3. CASE acc.open # {}
  <2> DEFINE t == ToolMessage({})
  <2>1. t \in Message /\ t.role = "tool" /\ Sane(t)
    BY DEF ToolMessage, Message, Sane, Single
  <2>2. CloseMissing(acc) = Close(acc, t) /\ CloseMissing(bcc) = Close(bcc, t)
    BY <1>1, <1>3 DEF CloseMissing
  <2> HIDE DEF t
  <2> QED
    BY <2>1, <2>2, CloseFollows
<1> QED
  BY <1>2, <1>3

LEMMA PairFollows ==
  ASSUME NEW acc, NEW bcc, Paired(acc), Paired(bcc), Follows(acc, bcc),
         NEW m \in Message, NEW w \in Message, w.role = m.role, w.uses = m.uses,
         Sane(m), Sane(w), m.bad => w.bad, m.uses \cap acc.seen = {}
  PROVE  Follows(PairMessage(acc, m), PairMessage(bcc, w))
<1>1. bcc.open = acc.open
  BY DEF Follows
<1>2. CASE m.role = "tool" /\ acc.open = {}
  BY <1>1, <1>2 DEF PairMessage
<1>3. CASE m.role = "tool" /\ acc.open # {}
  <2>1. PairMessage(acc, m) = Close(acc, m) /\ PairMessage(bcc, w) = Close(bcc, w)
    BY <1>1, <1>3 DEF PairMessage
  <2>2. Follows(Close(acc, m), Close(bcc, w))
    BY <1>3, CloseFollows
  <2> QED
    BY <2>1, <2>2
<1>4. CASE m.role # "tool"
  <2> DEFINE ad == CloseMissing(acc)
             bd == CloseMissing(bcc)
  <2>1. PairMessage(acc, m) = Copied(ad, m) /\ PairMessage(bcc, w) = Copied(bd, w)
    BY <1>4 DEF PairMessage, Copied
  <2>2. Paired(ad) /\ Paired(bd) /\ Follows(ad, bd)
    BY NobodyOpen, ClosingFollows
  <2> HIDE DEF ad, bd
  <2>3. ad \in Repair /\ bd \in Repair
    BY <2>2 DEF Paired
  <2>4. /\ Len(Append(bd.out, w)) = Len(Append(ad.out, m))
        /\ \A j \in 1 .. Len(Append(ad.out, m)) :
             Append(ad.out, m)[j].bad => Append(bd.out, w)[j].bad
    <3>1. Len(bd.out) = Len(ad.out) /\ \A j \in 1 .. Len(ad.out) : ad.out[j].bad => bd.out[j].bad
      BY <2>2 DEF Follows
    <3>2. ad.out \in Seq(Message) /\ bd.out \in Seq(Message)
      BY <2>3 DEF Repair
    <3> QED
      BY <3>1, <3>2, AppendFollows
  <2>5. /\ Copied(ad, m).out = Append(ad.out, m) /\ Copied(ad, m).seen = ad.seen \cup m.uses
        /\ Copied(ad, m).answered = ad.answered /\ Copied(ad, m).open = m.uses
    BY <2>3 DEF Copied, Repair
  <2>6. /\ Copied(bd, w).out = Append(bd.out, w) /\ Copied(bd, w).seen = bd.seen \cup w.uses
        /\ Copied(bd, w).answered = bd.answered /\ Copied(bd, w).open = w.uses
    BY <2>3 DEF Copied, Repair
  <2>7. Follows(Copied(ad, m), Copied(bd, w))
    BY <2>2, <2>4, <2>5, <2>6 DEF Follows
  <2> QED
    BY <2>1, <2>7
<1> QED
  BY <1>2, <1>3, <1>4

LEMMA RepairFollows ==
  ASSUME NEW ms, NEW ns, Proper(ms), Proper(ns), Len(ns) = Len(ms),
         \A i \in 1 .. Len(ms) : /\ ns[i].role = ms[i].role /\ ns[i].uses = ms[i].uses
                                 /\ ms[i].bad => ns[i].bad,
         Flagged(EnsureToolResultPairing(ms))
  PROVE  Flagged(EnsureToolResultPairing(ns))
<1>1. Len(ms) \in Nat
  BY DEF Proper
<1>2. PICK p : /\ p[0] = Unpaired
               /\ \A n \in 1 .. Len(ms) : p[n] = PairMessage(p[n - 1], ms[n])
               /\ EnsureToolResultPairing(ms) = CloseMissing(p[Len(ms)]).out
  BY <1>1, PairingLoop
<1>3. PICK q : /\ q[0] = Unpaired
               /\ \A n \in 1 .. Len(ns) : q[n] = PairMessage(q[n - 1], ns[n])
               /\ EnsureToolResultPairing(ns) = CloseMissing(q[Len(ns)]).out
  BY <1>1, PairingLoop
<1>4. \A n \in 0 .. Len(ms) : /\ Paired(p[n])
                              /\ \A u \in p[n].seen : \E i \in 1 .. n : u \in ms[i].uses
  BY <1>2, PairingInvariant
<1>5. \A n \in 0 .. Len(ms) : Paired(q[n])
  BY <1>3, PairingInvariant
<1> DEFINE S == {n \in Nat : n <= Len(ms) => Follows(p[n], q[n])}
<1>6. 0 \in S
  BY <1>2, <1>3 DEF Follows
<1>7. \A n \in Nat : n \in S => n + 1 \in S
  <2> SUFFICES ASSUME NEW n \in Nat, n + 1 <= Len(ms), Follows(p[n], q[n])
               PROVE  Follows(p[n + 1], q[n + 1])
    BY <1>1
  <2>1. n + 1 \in 1 .. Len(ms) /\ (n + 1) - 1 = n /\ n \in 0 .. Len(ms)
    BY <1>1
  <2>2. /\ ms[n + 1] \in Message /\ Sane(ms[n + 1]) /\ ns[n + 1] \in Message /\ Sane(ns[n + 1])
        /\ p[n + 1] = PairMessage(p[n], ms[n + 1]) /\ q[n + 1] = PairMessage(q[n], ns[n + 1])
    BY <1>2, <1>3, <2>1 DEF Proper
  <2>3. ms[n + 1].uses \cap p[n].seen = {}
    <3> SUFFICES ASSUME NEW u \in p[n].seen PROVE u \notin ms[n + 1].uses
      OBVIOUS
    <3>1. PICK k \in 1 .. n : u \in ms[k].uses
      BY <1>4, <2>1
    <3>2. k \in 1 .. Len(ms) /\ k # n + 1
      BY <1>1, <2>1
    <3> QED
      BY <2>1, <3>1, <3>2, UsesApart
  <2>4. /\ ns[n + 1].role = ms[n + 1].role /\ ns[n + 1].uses = ms[n + 1].uses
        /\ ms[n + 1].bad => ns[n + 1].bad
    BY <2>1
  <2>5. Paired(p[n]) /\ Paired(q[n])
    BY <1>4, <1>5, <2>1
  <2> QED
    BY <2>2, <2>3, <2>4, <2>5, PairFollows
<1>8. Follows(p[Len(ms)], q[Len(ms)])
  <2> HIDE DEF S
  <2>1. Len(ms) \in S
    BY <1>1, <1>6, <1>7, Induction
  <2> QED
    BY <1>1, <2>1 DEF S
<1>9. Paired(p[Len(ms)]) /\ Paired(q[Len(ms)])
  BY <1>1, <1>4, <1>5
<1> DEFINE a == CloseMissing(p[Len(ms)])
           b == CloseMissing(q[Len(ms)])
<1>10. Follows(a, b) /\ Paired(a) /\ Paired(b)
  BY <1>8, <1>9, ClosingFollows, NobodyOpen
<1>11. Flagged(a.out)
  BY <1>2
<1> HIDE DEF a, b
<1>12. a.out \in Seq(Message) /\ b.out \in Seq(Message) /\ Len(b.out) = Len(a.out)
       /\ \A j \in 1 .. Len(a.out) : a.out[j].bad => b.out[j].bad
  BY <1>10 DEF Follows, Paired, Repair
<1>13. Flagged(b.out)
  <2>1. DOMAIN a.out = 1 .. Len(a.out) /\ DOMAIN b.out = 1 .. Len(a.out)
    BY <1>12
  <2> QED
    BY <1>11, <1>12, <2>1 DEF Flagged
<1> QED
  BY <1>3, <1>13 DEF b

-----------------------------------------------------------------------------
(* From the rows of the thread to the history of a request.                *)

RowSet == [role : {"user", "assistant", "tool"}, uses : SUBSET Call, results : SUBSET Results,
           bad : BOOLEAN, redacted : BOOLEAN]

SaneRow(r, i) ==
  /\ r.uses \subseteq {i} \X Nat
  /\ IF r.role = "tool" THEN r.uses = {} /\ Single(r.results) ELSE r.results = {}

RowShape == rows \in Seq(RowSet) /\ \A i \in 1 .. N : SaneRow(rows[i], i)

LEMMA LoadedIs ==
  ASSUME RowShape, NEW i \in 1 .. N, NEW R
  PROVE  LET m == Loaded(i, R) IN
         /\ m \in Message /\ Sane(m) /\ m.at = i
         /\ m.role = rows[i].role /\ m.uses = rows[i].uses
         /\ m.bad = (rows[i].bad /\ ~(rows[i].redacted \/ i \in R))
<1> DEFINE hidden == rows[i].redacted \/ i \in R
           short == {[r EXCEPT !.size = 1] : r \in rows[i].results}
           results == IF hidden THEN short ELSE rows[i].results
           m == Loaded(i, R)
<1>1. rows[i] \in RowSet /\ SaneRow(rows[i], i) /\ i \in Nat
  BY DEF RowShape, N
<1>2. short \subseteq Results /\ (Single(rows[i].results) => Single(short))
      /\ (rows[i].results = {} => short = {})
  <2> DEFINE f(r) == [r EXCEPT !.size = 1]
  <2>1. \A r \in rows[i].results : f(r) \in Results /\ f(r).id = r.id
    <3>1. \A r \in rows[i].results : r \in Results
      BY <1>1 DEF RowSet
    <3> QED
      BY <3>1 DEF Results
  <2>2. short = {f(r) : r \in rows[i].results}
    OBVIOUS
  <2> HIDE DEF f, short
  <2> QED
    BY <2>1, <2>2 DEF Single
<1> HIDE DEF short
<1>3. results \subseteq Results /\ (Single(rows[i].results) => Single(results))
      /\ (rows[i].results = {} => results = {})
  BY <1>1, <1>2 DEF RowSet
<1>4. m = [at |-> i, role |-> rows[i].role, uses |-> rows[i].uses, results |-> results,
           bad |-> rows[i].bad /\ ~hidden]
  BY DEF Loaded, short
<1> HIDE DEF results, m
<1>5. /\ m.at = i /\ m.role = rows[i].role /\ m.uses = rows[i].uses /\ m.results = results
      /\ m.bad = (rows[i].bad /\ ~hidden)
  BY <1>4
<1>6. m \in Message
  BY <1>1, <1>3, <1>4 DEF Message, RowSet
<1>7. Sane(m)
  BY <1>1, <1>3, <1>5 DEF Sane, SaneRow
<1> QED
  BY <1>5, <1>6, <1>7 DEF m

LEMMA MessagesAre ==
  ASSUME RowShape, NEW first \in Nat \ {0}, NEW last \in Nat, last <= N, NEW R
  PROVE  LET ms == Messages(first, last, R) IN
         /\ Proper(ms)
         /\ Len(ms) = IF first <= last THEN last + 1 - first ELSE 0
         /\ \A k \in 1 .. Len(ms) : ms[k] = Loaded(first + k - 1, R) /\ ms[k].at = first + k - 1
         /\ \A k \in 1 .. Len(ms) : first + k - 1 \in first .. last
<1> DEFINE ms == Messages(first, last, R)
           len == IF first <= last THEN last + 1 - first ELSE 0
<1>1. len \in Nat /\ 1 .. (last + 1 - first) = 1 .. len /\ N \in Nat
  BY DEF RowShape, N
<1>2. \A k \in 1 .. len : first + k - 1 \in first .. last /\ first + k - 1 \in 1 .. N
  BY <1>1
<1>3. \A k \in 1 .. len : LET m == Loaded(first + k - 1, R) IN
        m \in Message /\ Sane(m) /\ m.at = first + k - 1
  BY <1>2, LoadedIs
<1>4. ms = [k \in 1 .. len |-> Loaded(first + k - 1, R)]
  BY <1>1 DEF Messages
<1> HIDE DEF ms, len
<1>5. ms \in Seq(Message) /\ Len(ms) = len
  <2>1. \A k \in 1 .. len : Loaded(first + k - 1, R) \in Message
    BY <1>3
  <2>2. len \in Nat
    BY <1>1
  <2> QED
    BY <1>4, <2>1, <2>2
<1>6. \A k \in 1 .. Len(ms) : ms[k] = Loaded(first + k - 1, R)
  BY <1>4, <1>5
<1>7. \A k \in 1 .. Len(ms) : Sane(ms[k]) /\ ms[k].at = first + k - 1
  BY <1>3, <1>5, <1>6
<1>8. \A i, j \in 1 .. Len(ms) : i # j => ms[i].at # ms[j].at
  <2>1. \A i, j \in 1 .. len : i # j => first + i - 1 # first + j - 1
    BY <1>1
  <2> QED
    BY <1>5, <1>7, <2>1
<1>9. Proper(ms)
  BY <1>5, <1>7, <1>8 DEF Proper
<1> QED
  BY <1>2, <1>5, <1>6, <1>7, <1>9 DEF ms, len

LEMMA Pool ==
  ASSUME Sizes, RowShape
  PROVE  N \in Nat /\ POOL \in Nat /\ PoolStart \in Nat \ {0} /\ PoolStart <= N + 1
<1>1. N \in Nat
  BY DEF RowShape, N
<1>2. POOL \in Nat
  BY DEF Sizes, POOL
<1> QED
  BY <1>1, <1>2 DEF PoolStart

LEMMA WindowIsProper ==
  ASSUME Sizes, RowShape, NEW R
  PROVE  Proper(Window(R))
<1> DEFINE ms == Messages(PoolStart, N, R)
           trimmed == TrimToConversationWindow(ms)
           capped == EnforceHistoryByteCap(trimmed)
<1>1. Proper(ms)
  BY Pool, MessagesAre
<1> HIDE DEF ms
<1>2. Proper(trimmed)
  BY <1>1, TrimKeeps
<1> HIDE DEF trimmed
<1>3. Proper(capped)
  BY <1>2, CapKeeps
<1> HIDE DEF capped
<1>4. Elided(capped, CollapseOldToolResults(capped, KEEP))
  BY <1>3, CollapseElides DEF Proper
<1>5. Proper(CollapseOldToolResults(capped, KEEP))
  BY <1>3, <1>4, ElidedIsHistory
<1> QED
  BY <1>5 DEF Window, ms, trimmed, capped

(* Rows before a summary, the summary, rows after it.                      *)
LEMMA JoinIsProper ==
  ASSUME NEW h, NEW t, Proper(h), Proper(t), NEW c \in Nat,
         \A a \in Ats(h) : 0 < a /\ a <= c, \A a \in Ats(t) : a > c
  PROVE  LET full == h \o <<SummaryMessage>> \o t IN
         /\ Proper(full) /\ Len(full) = Len(h) + 1 + Len(t)
         /\ \A i \in 1 .. Len(h) : full[i] = h[i]
         /\ \A i \in 1 .. Len(t) : full[Len(h) + 1 + i] = t[i]
<1> DEFINE s == SummaryMessage
           full == h \o <<s>> \o t
<1>1. h \in Seq(Message) /\ t \in Seq(Message) /\ Len(h) \in Nat /\ Len(t) \in Nat
  BY DEF Proper
<1>2. s \in Message /\ Sane(s) /\ s.at = 0
  BY DEF SummaryMessage, Message, Sane
<1> HIDE DEF s
<1>3. /\ full \in Seq(Message) /\ Len(full) = Len(h) + 1 + Len(t)
      /\ \A i \in 1 .. Len(h) : full[i] = h[i]
      /\ full[Len(h) + 1] = s
      /\ \A i \in 1 .. Len(t) : full[Len(h) + 1 + i] = t[i]
  BY <1>1, <1>2
<1> HIDE DEF full
<1>4. \A i \in 1 .. Len(full) :
        \/ i \in 1 .. Len(h) /\ full[i] = h[i]
        \/ i = Len(h) + 1 /\ full[i] = s
        \/ \E k \in 1 .. Len(t) : i = Len(h) + 1 + k /\ full[i] = t[k]
  <2> SUFFICES ASSUME NEW i \in 1 .. Len(full)
               PROVE  \/ i \in 1 .. Len(h) /\ full[i] = h[i]
                      \/ i = Len(h) + 1 /\ full[i] = s
                      \/ \E k \in 1 .. Len(t) : i = Len(h) + 1 + k /\ full[i] = t[k]
    OBVIOUS
  <2>1. CASE i \in 1 .. Len(h)
    BY <1>3, <2>1
  <2>2. CASE i = Len(h) + 1
    BY <1>3, <2>2
  <2>3. CASE i > Len(h) + 1
    <3>1. i - (Len(h) + 1) \in 1 .. Len(t) /\ i = Len(h) + 1 + (i - (Len(h) + 1))
      BY <1>1, <1>3, <2>3
    <3> QED
      BY <1>3, <3>1
  <2> QED
    BY <1>1, <1>3, <2>1, <2>2, <2>3
<1>5. \A i \in 1 .. Len(full) : Sane(full[i])
  BY <1>2, <1>4 DEF Proper
<1>6. /\ \A i \in 1 .. Len(h) : h[i].at \in Nat /\ 0 < h[i].at /\ h[i].at <= c
      /\ \A i \in 1 .. Len(t) : t[i].at \in Nat /\ t[i].at > c
  <2>1. \A i \in 1 .. Len(h) : h[i] \in Message /\ h[i].at \in Ats(h)
    BY <1>1 DEF Ats
  <2>2. \A i \in 1 .. Len(t) : t[i] \in Message /\ t[i].at \in Ats(t)
    BY <1>1 DEF Ats
  <2> QED
    BY <2>1, <2>2 DEF Message
<1>7. \A i, j \in 1 .. Len(full) : i # j => full[i].at # full[j].at
  <2> SUFFICES ASSUME NEW i \in 1 .. Len(full), NEW j \in 1 .. Len(full), i # j
               PROVE  full[i].at # full[j].at
    OBVIOUS
  <2>1. CASE i \in 1 .. Len(h) /\ full[i] = h[i] /\ j \in 1 .. Len(h) /\ full[j] = h[j]
    BY <2>1 DEF Proper
  <2>2. ASSUME NEW k \in 1 .. Len(t), NEW l \in 1 .. Len(t), full[i] = t[k], full[j] = t[l],
               i = Len(h) + 1 + k, j = Len(h) + 1 + l
        PROVE  full[i].at # full[j].at
    <3>1. k # l
      BY <1>1, <2>2
    <3> QED
      BY <2>2, <3>1 DEF Proper
  <2>3. CASE i = Len(h) + 1 /\ full[i] = s
    BY <1>2, <1>4, <1>6, <2>3
  <2>4. CASE j = Len(h) + 1 /\ full[j] = s
    <3>1. \/ i \in 1 .. Len(h) /\ full[i] = h[i]
          \/ \E k \in 1 .. Len(t) : full[i] = t[k]
      BY <1>4, <2>4
    <3> QED
      BY <1>2, <1>6, <2>4, <3>1
  <2>5. ASSUME NEW k \in 1 .. Len(h), NEW l \in 1 .. Len(t) PROVE h[k].at # t[l].at
    BY <1>6, <2>5
  <2> QED
    BY <1>4, <2>1, <2>2, <2>3, <2>4, <2>5
<1>8. Proper(full)
  BY <1>3, <1>5, <1>7 DEF Proper
<1> QED
  BY <1>3, <1>8 DEF full, s

BandShape(b) ==
  b.from \in Nat \ {0} /\ b.until \in Nat /\ FIRST < b.from /\ b.from <= b.until /\ b.until <= N

SplicedHead == Messages(1, IF summary.from > FIRST THEN FIRST ELSE summary.from - 1, {})
SplicedLast == IF summary.until + LIMIT < N THEN summary.until + LIMIT ELSE N
SplicedTail ==
  CollapseOldToolResults(EnforceHistoryByteCap(Messages(summary.until + 1, SplicedLast, {})), KEEP)

LEMMA SplicedIsProper ==
  ASSUME Sizes, RowShape, BandShape(summary)
  PROVE  /\ Proper(Spliced) /\ Len(Spliced) = Len(SplicedHead) + 1 + Len(SplicedTail)
         /\ Len(SplicedHead) \in Nat /\ Len(SplicedTail) \in Nat
         /\ \A i \in 1 .. Len(SplicedHead) : Spliced[i] = SplicedHead[i]
         /\ \A i \in 1 .. Len(SplicedTail) : Spliced[Len(SplicedHead) + 1 + i] = SplicedTail[i]
<1> DEFINE ms == Messages(summary.until + 1, SplicedLast, {})
           capped == EnforceHistoryByteCap(ms)
<1>1. N \in Nat /\ FIRST \in Nat /\ LIMIT \in Nat
      /\ summary.from \in Nat /\ summary.until \in Nat
      /\ FIRST < summary.from /\ summary.from <= summary.until /\ summary.until <= N
  BY Pool DEF Sizes, BandShape
<1>2. SplicedHead = Messages(1, FIRST, {}) /\ FIRST <= N
  BY <1>1 DEF SplicedHead
<1>3. Proper(SplicedHead) /\ \A a \in Ats(SplicedHead) : 0 < a /\ a <= summary.until
  <2>1. /\ Proper(SplicedHead)
        /\ \A k \in 1 .. Len(SplicedHead) :
             SplicedHead[k].at = 1 + k - 1 /\ 1 + k - 1 \in 1 .. FIRST
    BY <1>1, <1>2, MessagesAre
  <2> QED
    BY <1>1, <2>1 DEF Ats
<1>4. SplicedLast \in Nat /\ SplicedLast <= N /\ summary.until + 1 \in Nat \ {0}
  BY <1>1 DEF SplicedLast
<1>5. Proper(ms) /\ \A a \in Ats(ms) : a > summary.until
  <2>1. /\ Proper(ms)
        /\ \A k \in 1 .. Len(ms) : /\ ms[k].at = summary.until + 1 + k - 1
                                   /\ summary.until + 1 + k - 1 \in summary.until + 1 .. SplicedLast
    BY <1>4, MessagesAre
  <2> HIDE DEF ms
  <2> QED
    BY <1>1, <1>4, <2>1, SMTT(60) DEF Ats
<1> HIDE DEF ms
<1>6. Proper(capped) /\ Ats(capped) \subseteq Ats(ms)
  BY <1>5, CapKeeps
<1> HIDE DEF capped
<1>7. Elided(capped, CollapseOldToolResults(capped, KEEP))
  BY <1>6, CollapseElides DEF Proper
<1>8. Proper(SplicedTail) /\ \A a \in Ats(SplicedTail) : a > summary.until
  <2>1. SplicedTail = CollapseOldToolResults(capped, KEEP)
    BY DEF SplicedTail, capped, ms
  <2> QED
    BY <1>5, <1>6, <1>7, <2>1, ElidedIsHistory, ElidedAts
<1>9. Spliced = SplicedHead \o <<SummaryMessage>> \o SplicedTail
  BY DEF Spliced, SplicedHead, SplicedTail, SplicedLast
<1>10. Len(SplicedHead) \in Nat /\ Len(SplicedTail) \in Nat
  BY <1>3, <1>8 DEF Proper
<1> QED
  BY <1>1, <1>3, <1>8, <1>9, <1>10, JoinIsProper

-----------------------------------------------------------------------------
(* With a summary no row is missing.                                       *)

LEMMA SplicedIsWhole ==
  ASSUME Sizes, RowShape, BandShape(summary),
         summary.from = FIRST + 1, N - summary.until <= LIMIT, MAX_BYTES = 0,
         NEW r \in 1 .. N, rows[r].role # "tool", r \notin summary.from .. summary.until
  PROVE  r \in Ats(EnsureToolResultPairing(Spliced))
<1> DEFINE ms == Messages(summary.until + 1, SplicedLast, {})
<1>1. N \in Nat /\ FIRST \in Nat /\ LIMIT \in Nat
      /\ summary.from \in Nat /\ summary.until \in Nat
      /\ FIRST < summary.from /\ summary.from <= summary.until /\ summary.until <= N
  BY Pool DEF Sizes, BandShape
<1>2. \E i \in 1 .. Len(Spliced) : Spliced[i].at = r /\ Spliced[i].role # "tool"
  <2>1. r <= FIRST \/ r > summary.until
    BY <1>1
  <2>2. CASE r <= FIRST
    <3>1. SplicedHead = Messages(1, FIRST, {}) /\ FIRST <= N
      BY <1>1 DEF SplicedHead
    <3>2. /\ Len(SplicedHead) = FIRST
          /\ \A k \in 1 .. Len(SplicedHead) : SplicedHead[k] = Loaded(1 + k - 1, {})
      <4>1. 1 \in Nat \ {0} /\ (IF 1 <= FIRST THEN FIRST + 1 - 1 ELSE 0) = FIRST
        BY <1>1
      <4> QED
        BY <1>1, <3>1, <4>1, MessagesAre
    <3>3. r \in 1 .. Len(SplicedHead) /\ SplicedHead[r] = Loaded(r, {})
      BY <1>1, <2>2, <3>2
    <3>4. SplicedHead[r].at = r /\ SplicedHead[r].role # "tool"
      BY <3>3, LoadedIs
    <3>5. Spliced[r] = SplicedHead[r] /\ r \in 1 .. Len(Spliced)
      BY <3>3, SplicedIsProper
    <3> QED
      BY <3>4, <3>5
  <2>3. CASE r > summary.until
    <3>1. SplicedLast = N
      BY <1>1 DEF SplicedLast
    <3>2. /\ Proper(ms) /\ Len(ms) = N - summary.until
          /\ \A k \in 1 .. Len(ms) : ms[k] = Loaded(summary.until + 1 + k - 1, {})
      <4>1. summary.until + 1 \in Nat \ {0} /\ SplicedLast \in Nat /\ SplicedLast <= N
            /\ summary.until + 1 <= SplicedLast
            /\ SplicedLast + 1 - (summary.until + 1) = N - summary.until
        BY <1>1, <2>3, <3>1
      <4>2. /\ Proper(ms) /\ Len(ms) = SplicedLast + 1 - (summary.until + 1)
            /\ \A k \in 1 .. Len(ms) : ms[k] = Loaded(summary.until + 1 + k - 1, {})
        BY <4>1, MessagesAre
      <4> QED
        BY <4>1, <4>2
    <3> HIDE DEF ms
    <3> DEFINE k == r - summary.until
    <3>3. k \in 1 .. Len(ms) /\ summary.until + 1 + k - 1 = r
      BY <1>1, <2>3, <3>2
    <3> HIDE DEF k
    <3>4. ms[k].at = r /\ ms[k].role # "tool"
      BY <3>2, <3>3, LoadedIs
    <3>5. SplicedTail = CollapseOldToolResults(ms, KEEP)
      BY DEF SplicedTail, EnforceHistoryByteCap, ms
    <3>6. Elided(ms, SplicedTail)
      BY <3>2, <3>5, CollapseElides DEF Proper
    <3>7. k \in 1 .. Len(SplicedTail) /\ SplicedTail[k].at = r /\ SplicedTail[k].role # "tool"
      BY <3>3, <3>4, <3>6 DEF Elided, SameBut
    <3>8. /\ Spliced[Len(SplicedHead) + 1 + k] = SplicedTail[k]
          /\ Len(SplicedHead) + 1 + k \in 1 .. Len(Spliced)
      <4>1. /\ Len(Spliced) = Len(SplicedHead) + 1 + Len(SplicedTail)
            /\ Len(SplicedHead) \in Nat /\ Len(SplicedTail) \in Nat
            /\ \A i \in 1 .. Len(SplicedTail) : Spliced[Len(SplicedHead) + 1 + i] = SplicedTail[i]
        BY SplicedIsProper
      <4> QED
        BY <3>7, <4>1
    <3> QED
      BY <3>7, <3>8
  <2> QED
    BY <2>1, <2>2, <2>3
<1>3. Proper(Spliced)
  BY SplicedIsProper
<1> QED
  BY <1>2, <1>3, RepairCopies

-----------------------------------------------------------------------------
(* The search for the message that trips the filter.                       *)

(* Redacting an innocent row clears nothing.                               *)
LEMMA InnocentClearsNothing ==
  ASSUME Sizes, RowShape, MAX_BYTES = 0, NEW B, NEW x \in 1 .. N, ~rows[x].bad, ~ProbePasses(B)
  PROVE  ~ProbePasses(B \cup {x})
<1> DEFINE ms == Messages(PoolStart, N, B)
           ns == Messages(PoolStart, N, B \cup {x})
           tm == TrimToConversationWindow(ms)
           tn == TrimToConversationWindow(ns)
           Near(a, b) == Len(b) = Len(a) /\ \A i \in 1 .. Len(a) :
                           /\ b[i].role = a[i].role /\ b[i].uses = a[i].uses
                           /\ a[i].bad => b[i].bad
<1>1. /\ Proper(ms) /\ Proper(ns) /\ Len(ns) = Len(ms)
      /\ \A k \in 1 .. Len(ms) : /\ ms[k] = Loaded(PoolStart + k - 1, B)
                                 /\ ns[k] = Loaded(PoolStart + k - 1, B \cup {x})
                                 /\ PoolStart + k - 1 \in PoolStart .. N
  <2>1. PoolStart \in Nat \ {0} /\ N \in Nat /\ N <= N
    BY Pool
  <2>2. /\ Proper(ms) /\ Len(ms) = IF PoolStart <= N THEN N + 1 - PoolStart ELSE 0
        /\ \A k \in 1 .. Len(ms) : ms[k] = Loaded(PoolStart + k - 1, B)
        /\ \A k \in 1 .. Len(ms) : PoolStart + k - 1 \in PoolStart .. N
    BY <2>1, MessagesAre
  <2>3. /\ Proper(ns) /\ Len(ns) = IF PoolStart <= N THEN N + 1 - PoolStart ELSE 0
        /\ \A k \in 1 .. Len(ns) : ns[k] = Loaded(PoolStart + k - 1, B \cup {x})
    BY <2>1, MessagesAre
  <2> HIDE DEF ms, ns
  <2>4. Len(ns) = Len(ms)
    BY <2>2, <2>3
  <2>5. \A k \in 1 .. Len(ms) : /\ ms[k] = Loaded(PoolStart + k - 1, B)
                                /\ PoolStart + k - 1 \in PoolStart .. N
    BY <2>2
  <2>6. \A k \in 1 .. Len(ms) : ns[k] = Loaded(PoolStart + k - 1, B \cup {x})
    BY <2>3, <2>4
  <2> QED
    BY <2>2, <2>3, <2>4, <2>5, <2>6
<1>2. Near(ms, ns)
  <2> SUFFICES ASSUME NEW k \in 1 .. Len(ms)
               PROVE  /\ ns[k].role = ms[k].role /\ ns[k].uses = ms[k].uses
                      /\ ms[k].bad => ns[k].bad
    BY <1>1
  <2> DEFINE i == PoolStart + k - 1
  <2>1. i \in 1 .. N /\ ms[k] = Loaded(i, B) /\ ns[k] = Loaded(i, B \cup {x})
    <3>1. PoolStart \in Nat \ {0} /\ N \in Nat
      BY Pool
    <3>2. i \in PoolStart .. N /\ ms[k] = Loaded(i, B) /\ ns[k] = Loaded(i, B \cup {x})
      BY <1>1
    <3> HIDE DEF ms, ns, i
    <3> QED
      BY <3>1, <3>2
  <2> HIDE DEF ms, ns, i
  <2>2. /\ ms[k].role = rows[i].role /\ ms[k].uses = rows[i].uses
        /\ ms[k].bad = (rows[i].bad /\ ~(rows[i].redacted \/ i \in B))
    BY <2>1, LoadedIs
  <2>3. /\ ns[k].role = rows[i].role /\ ns[k].uses = rows[i].uses
        /\ ns[k].bad = (rows[i].bad /\ ~(rows[i].redacted \/ i \in B \cup {x}))
    BY <2>1, LoadedIs
  <2> QED
    BY <2>2, <2>3
<1> HIDE DEF ms, ns
<1>3. Near(tm, tn) /\ Proper(tm) /\ Proper(tn)
  <2>1. CASE LIMIT = 0
    BY <1>1, <1>2, <2>1 DEF TrimToConversationWindow
  <2>2. CASE LIMIT # 0
    <3>1. Len(ms) \in Nat /\ \A i \in 1 .. Len(ms) : ns[i].role = ms[i].role
      BY <1>1, <1>2 DEF Proper
    <3>2. PICK n \in 0 .. Len(ms) : tm = Drop(ms, n) /\ tn = Drop(ns, n)
      BY <1>1, <2>2, <3>1, TrimCuts
    <3>3. /\ Len(tm) = Len(ms) - n /\ \A i \in 1 .. Len(ms) - n : tm[i] = ms[n + i]
          /\ Len(tn) = Len(ms) - n /\ \A i \in 1 .. Len(ms) - n : tn[i] = ns[n + i]
      <4>1. n \in 0 .. Len(ms) /\ n \in 0 .. Len(ns) /\ Proper(ms) /\ Proper(ns)
        BY <1>1
      <4>2. /\ Len(Drop(ms, n)) = Len(ms) - n
            /\ \A i \in 1 .. Len(ms) - n : Drop(ms, n)[i] = ms[n + i]
        BY <4>1, DropIsHistory
      <4>3. /\ Len(Drop(ns, n)) = Len(ns) - n
            /\ \A i \in 1 .. Len(ns) - n : Drop(ns, n)[i] = ns[n + i]
        BY <4>1, DropIsHistory
      <4> HIDE DEF tm, tn
      <4> QED
        BY <1>1, <3>2, <4>2, <4>3
    <3>4. \A i \in 1 .. Len(ms) - n : n + i \in 1 .. Len(ms)
      BY <3>1
    <3>5. Proper(tm) /\ Proper(tn)
      BY <1>1, TrimKeeps
    <3> HIDE DEF tm, tn
    <3>6. Near(tm, tn)
      <4> SUFFICES ASSUME NEW i \in 1 .. Len(tm)
                   PROVE  /\ tn[i].role = tm[i].role /\ tn[i].uses = tm[i].uses
                          /\ tm[i].bad => tn[i].bad
        BY <3>3
      <4> DEFINE h == n + i
      <4>1. h \in 1 .. Len(ms) /\ tm[i] = ms[h] /\ tn[i] = ns[h]
        BY <3>3, <3>4
      <4> HIDE DEF h
      <4> QED
        BY <1>2, <4>1
    <3> QED
      BY <3>5, <3>6
  <2> QED
    BY <2>1, <2>2
<1> HIDE DEF tm, tn
<1> DEFINE wm == CollapseOldToolResults(tm, KEEP)
           wn == CollapseOldToolResults(tn, KEEP)
<1>4. Window(B) = wm /\ Window(B \cup {x}) = wn
  BY DEF Window, EnforceHistoryByteCap, ms, ns, tm, tn
<1>5. Elided(tm, wm) /\ Elided(tn, wn)
  BY <1>3, CollapseElides DEF Proper
<1> HIDE DEF wm, wn
<1>6. Proper(wm) /\ Proper(wn) /\ Near(wm, wn)
  <2>1. Proper(wm) /\ Proper(wn)
    BY <1>3, <1>5, ElidedIsHistory
  <2>2. Near(wm, wn)
    BY <1>3, <1>5 DEF Elided, SameBut
  <2> QED
    BY <2>1, <2>2
<1>7. Flagged(EnsureToolResultPairing(wm))
  BY <1>4 DEF ProbePasses
<1>8. Flagged(EnsureToolResultPairing(wn))
  BY <1>6, <1>7, RepairFollows
<1> QED
  BY <1>4, <1>8 DEF ProbePasses

(* The culprits are among the suspects, and redacting all of those clears  *)
(* the filter where redacting none of them does not.                       *)
SearchInv(s) ==
  /\ s.suspects \subseteq 1 .. N
  /\ ~ProbePasses(s.base) /\ ProbePasses(s.base \cup s.suspects)

LEMMA HalveKeeps == ASSUME NEW s, SearchInv(s) PROVE SearchInv(Halve(s))
<1>1. /\ Left(s) \subseteq s.suspects /\ Right(s) \subseteq s.suspects
      /\ (s.base \cup Right(s)) \cup Left(s) = s.base \cup s.suspects
  BY DEF Left, Right
<1>2. CASE Ended(s)
  BY <1>2 DEF Halve
<1>3. CASE ~Ended(s) /\ Cleared(s, Right(s))
  BY <1>1, <1>3 DEF Halve, Search, SearchInv, Cleared
<1>4. CASE ~Ended(s) /\ ~Cleared(s, Right(s)) /\ Cleared(s, Left(s))
  BY <1>1, <1>4 DEF Halve, Search, SearchInv, Cleared
<1>5. CASE ~Ended(s) /\ ~Cleared(s, Right(s)) /\ ~Cleared(s, Left(s))
  <2>1. Halve(s) = Search(s.base \cup Right(s), Left(s), s.probes + 2)
    BY <1>5 DEF Halve
  <2>2. Halve(s).base = s.base \cup Right(s) /\ Halve(s).suspects = Left(s)
    BY <2>1 DEF Search
  <2>3. ~ProbePasses(Halve(s).base)
    BY <1>5, <2>2 DEF Cleared
  <2>4. Halve(s).base \cup Halve(s).suspects = s.base \cup s.suspects
    BY <1>1, <2>2
  <2> QED
    BY <1>1, <2>2, <2>3, <2>4 DEF SearchInv
<1> QED
  BY <1>2, <1>3, <1>4, <1>5

(* The loop of the search computes what its rounds say.                    *)
LEMMA SearchLoop ==
  ASSUME NEW start, PROBE_CAP \in Nat
  PROVE  \E p : /\ p[0] = start /\ \A n \in 1 .. PROBE_CAP : p[n] = Halve(p[n - 1])
                /\ Bisect(start) = p[PROBE_CAP]
<1> DEFINE Loop(k, p) == p = [n \in 0 .. k |-> IF n = 0 THEN start ELSE Halve(p[n - 1])]
           S == {k \in Nat : \E p : Loop(k, p)}
<1>1. 0 \in S
  <2>1. Loop(0, [n \in 0 .. 0 |-> start])
    OBVIOUS
  <2> HIDE DEF Loop
  <2> QED
    BY <2>1
<1>2. \A k \in Nat : k \in S => k + 1 \in S
  <2> SUFFICES ASSUME NEW k \in Nat, NEW p, Loop(k, p) PROVE \E q : Loop(k + 1, q)
    OBVIOUS
  <2> DEFINE q == [n \in 0 .. k + 1 |-> IF n = k + 1 THEN Halve(p[k]) ELSE p[n]]
  <2>1. \A n \in 0 .. k : p[n] = IF n = 0 THEN start ELSE Halve(p[n - 1])
    OBVIOUS
  <2>2. \A n \in 0 .. k + 1 : q[n] = IF n = 0 THEN start ELSE Halve(q[n - 1])
    <3> SUFFICES ASSUME NEW n \in 0 .. k + 1
                 PROVE  q[n] = IF n = 0 THEN start ELSE Halve(q[n - 1])
      OBVIOUS
    <3>1. CASE n = 0
      BY <2>1, <3>1
    <3>2. CASE n = k + 1
      <4>1. n - 1 \in 0 .. k + 1 /\ n - 1 = k /\ n # 0
        BY <3>2
      <4> QED
        BY <3>2, <4>1
    <3>3. CASE n \in 1 .. k
      <4>1. n - 1 \in 0 .. k + 1 /\ n - 1 # k + 1 /\ n # k + 1 /\ n # 0 /\ n \in 0 .. k
        BY <3>3
      <4>2. q[n] = p[n] /\ q[n - 1] = p[n - 1]
        BY <4>1
      <4> QED
        BY <2>1, <4>1, <4>2
    <3> QED
      BY <3>1, <3>2, <3>3
  <2>3. q = [n \in 0 .. k + 1 |-> q[n]]
    OBVIOUS
  <2> HIDE DEF q
  <2>4. Loop(k + 1, q)
    BY <2>2, <2>3
  <2> QED
    BY <2>4
<1>3. PROBE_CAP \in S
  <2> HIDE DEF S
  <2> QED
    BY <1>1, <1>2, Induction
<1> DEFINE round == CHOOSE p : Loop(PROBE_CAP, p)
<1>4. Loop(PROBE_CAP, round)
  <2> HIDE DEF Loop
  <2> QED
    BY <1>3
<1>5. Bisect(start) = round[PROBE_CAP]
  BY DEF Bisect
<1> HIDE DEF round
<1>6. \A n \in 0 .. PROBE_CAP : round[n] = IF n = 0 THEN start ELSE Halve(round[n - 1])
  BY <1>4
<1>7. round[0] = start /\ \A n \in 1 .. PROBE_CAP : round[n] = Halve(round[n - 1])
  BY <1>6
<1> QED
  BY <1>5, <1>7

LEMMA SearchKeeps ==
  ASSUME Sizes, NEW start, SearchInv(start)
  PROVE  SearchInv(Bisect(start))
<1>1. PROBE_CAP \in Nat
  BY DEF Sizes
<1>2. PICK p : /\ p[0] = start /\ \A n \in 1 .. PROBE_CAP : p[n] = Halve(p[n - 1])
               /\ Bisect(start) = p[PROBE_CAP]
  BY <1>1, SearchLoop
<1> DEFINE S == {n \in Nat : n <= PROBE_CAP => SearchInv(p[n])}
<1>3. 0 \in S
  BY <1>2
<1>4. \A n \in Nat : n \in S => n + 1 \in S
  <2> SUFFICES ASSUME NEW n \in Nat, n + 1 <= PROBE_CAP, SearchInv(p[n])
               PROVE  SearchInv(p[n + 1])
    BY <1>1
  <2>1. n + 1 \in 1 .. PROBE_CAP /\ (n + 1) - 1 = n
    BY <1>1
  <2>2. p[n + 1] = Halve(p[n])
    BY <1>2, <2>1
  <2> QED
    BY <2>2, HalveKeeps
<1>5. PROBE_CAP \in S
  <2> HIDE DEF S
  <2> QED
    BY <1>1, <1>3, <1>4, Induction
<1> QED
  BY <1>1, <1>2, <1>5

(* When one message is left it is one the filter flags.                    *)
LEMMA CulpritIsBad ==
  ASSUME Sizes, RowShape, ~ProbePasses({})
  PROVE  /\ Culprits \subseteq 1 .. N
         /\ MAX_BYTES = 0 /\ Cardinality(Culprits) = 1 => \A i \in Culprits : rows[i].bad
<1> DEFINE start == Search({}, Candidates, 1)
           end == Bisect(start)
<1>1. CASE Candidates = {} \/ ~ProbePasses(Candidates)
  BY <1>1, FS_EmptySet DEF Culprits
<1>2. CASE ~(Candidates = {} \/ ~ProbePasses(Candidates))
  <2>1. SearchInv(start)
    <3>1. Candidates \subseteq 1 .. N
      BY DEF Candidates
    <3>2. {} \cup Candidates = Candidates
      OBVIOUS
    <3> QED
      BY <1>2, <3>1, <3>2 DEF SearchInv, Search
  <2>2. Culprits = end.suspects
    BY <1>2 DEF Culprits
  <2> HIDE DEF start
  <2>3. SearchInv(end)
    BY <2>1, SearchKeeps
  <2> HIDE DEF end
  <2>4. Culprits \subseteq 1 .. N /\ IsFiniteSet(Culprits)
    <3>1. N \in Nat
      BY Pool
    <3>2. IsFiniteSet(1 .. N)
      BY <3>1, FS_Interval
    <3>3. end.suspects \subseteq 1 .. N
      BY <2>3 DEF SearchInv
    <3> QED
      BY <2>2, <3>2, <3>3, FS_Subset
  <2>5. ASSUME MAX_BYTES = 0, Cardinality(Culprits) = 1, NEW i \in Culprits, ~rows[i].bad
        PROVE  FALSE
    <3>1. PICK x : Culprits = {x}
      BY <2>4, <2>5, FS_Singleton
    <3>2. end.suspects = {i} /\ i \in 1 .. N
      BY <2>2, <2>4, <2>5, <3>1
    <3>3. ~ProbePasses(end.base) /\ ProbePasses(end.base \cup {i})
      BY <2>3, <3>2 DEF SearchInv
    <3> QED
      BY <2>5, <3>2, <3>3, InnocentClearsNothing
  <2> QED
    BY <2>4, <2>5
<1> QED
  BY <1>1, <1>2

-----------------------------------------------------------------------------
(* The inductive invariant: rows keep the shape the code gives them, a     *)
(* summary and a compaction that is under way stand for rows of the        *)
(* thread, and what is known of the request in flight.                     *)

SummarySet == [from : Nat, until : Nat, holds : SUBSET Nat]
JobSet     == [from : Nat, until : Nat, flagged : BOOLEAN, holds : SUBSET Nat]
TurnSet    == [phase : Phase, iter : Nat, tooLong : Nat, malformed : Nat, filtered : Nat,
               raised : Nat, failed : BOOLEAN, calls : SUBSET Call, used : SummarySet]

(* A summary is made of the end of its band; of all of it, if it fits.     *)
HoldsBand(b) ==
  \E f \in b.from .. b.until :
    /\ b.holds = f .. b.until
    /\ f > b.from =>
         /\ SUMMARY_TOTAL # 0
         /\ \/ ~(TotalBytes(BandText(f - 1, b.until)) <= SUMMARY_TOTAL)
            \/ \E i \in b.from .. b.until : rows[i].redacted

IsBand(b) == BandShape(b) /\ HoldsBand(b)

SummaryShape == summary \in SummarySet /\ (summary = NoSummary \/ IsBand(summary))

ShapedJob == {b \in JobSet : b = Spawned \/ IsBand(b)}
JobShape  == jobs \in Seq(ShapedJob)

TurnShape ==
  /\ turn \in TurnSet
  /\ turn.phase = "compacting" => turn.tooLong > 0 /\ BigEnough(Shrunk(turn.tooLong))

RequestShape ==
  /\ RequestIsPaired /\ HistoryIsWhole
  /\ turn.phase = "calling" /\ summary = NoSummary =>
       request = EnsureToolResultPairing(Window({}))

RedactionShape == MAX_BYTES = 0 => RedactedWasBad

IInv == RowShape /\ SummaryShape /\ JobShape /\ TurnShape /\ RequestShape /\ RedactionShape

LEMMA NothingIsPaired == WellPaired(<<>>)
BY DEF WellPaired

LEMMA InitInv == ASSUME Init PROVE IInv
<1>1. /\ rows = <<>> /\ summary = NoSummary /\ jobs = <<>> /\ turn = NoTurn /\ request = <<>>
      /\ N = 0
  BY DEF Init, N
<1>2. NoSummary \in SummarySet
  BY DEF NoSummary, SummarySet
<1>3. NoTurn \in TurnSet /\ NoTurn.phase = "idle"
  BY <1>2 DEF NoTurn, TurnSet, Phase
<1>4. RowShape /\ SummaryShape /\ JobShape /\ TurnShape
  BY <1>1, <1>2, <1>3 DEF RowShape, SummaryShape, JobShape, TurnShape
<1>5. RequestShape
  BY <1>1, <1>3, NothingIsPaired DEF RequestShape, RequestIsPaired, HistoryIsWhole
<1>6. RedactionShape
  BY <1>1 DEF RedactionShape, RedactedWasBad
<1> QED
  BY <1>4, <1>5, <1>6 DEF IInv

(* The text of a band, message by message.                                 *)
Marked(m) ==
  IF COLLAPSE = 0 THEN m
  ELSE [m EXCEPT !.results =
          {IF ~r.err /\ r.size >= COLLAPSE THEN [r EXCEPT !.size = MARKER] ELSE r : r \in @}]

LEMMA BandTextIs ==
  ASSUME RowShape, NEW from \in Nat \ {0}, NEW until \in Nat, until <= N, from < until
  PROVE  BandText(from, until)
           = [k \in 1 .. (until + 1 - from) |-> Marked(Loaded(from + k - 1, {}))]
<1> DEFINE ms  == Messages(from, until, {})
           len == until + 1 - from
<1>1. len \in Nat /\ len > 1 /\ ~(len <= 0 + 1)
  OBVIOUS
<1>2. /\ Len(ms) = len /\ DOMAIN ms = 1 .. len
      /\ \A k \in 1 .. len : ms[k] = Loaded(from + k - 1, {})
  <2>1. Proper(ms) /\ Len(ms) = len /\ \A k \in 1 .. Len(ms) : ms[k] = Loaded(from + k - 1, {})
    BY MessagesAre
  <2> HIDE DEF ms
  <2>2. ms \in Seq(Message)
    BY <2>1 DEF Proper
  <2> QED
    BY <2>1, <2>2
<1>3. ms = [k \in 1 .. len |-> Loaded(from + k - 1, {})]
  BY DEF Messages
<1>4. BandText(from, until) = CollapseOldToolResults(ms, 0)
  BY DEF BandText
<1> HIDE DEF ms, len
<1>5. CASE COLLAPSE = 0
  BY <1>3, <1>4, <1>5 DEF CollapseOldToolResults, Marked, len
<1>6. CASE COLLAPSE # 0
  <2> DEFINE all(i) == {IF i <= len - 0 /\ ~r.err /\ r.size >= COLLAPSE
                        THEN [r EXCEPT !.size = MARKER] ELSE r : r \in ms[i].results}
             some(i) == {IF ~r.err /\ r.size >= COLLAPSE
                         THEN [r EXCEPT !.size = MARKER] ELSE r : r \in ms[i].results}
  <2>1. CollapseOldToolResults(ms, 0)
          = [i \in 1 .. len |-> [ms[i] EXCEPT !.results = all(i)]]
    BY <1>1, <1>2, <1>6 DEF CollapseOldToolResults, OnResults
  <2>2. \A i \in 1 .. len : i <= len - 0
    BY <1>1
  <2>3. \A i \in 1 .. len : all(i) = some(i)
    BY <2>2
  <2>4. \A i \in 1 .. len : Marked(ms[i]) = [ms[i] EXCEPT !.results = some(i)]
    BY <1>6 DEF Marked
  <2> HIDE DEF all, some
  <2>5. \A i \in 1 .. len :
          [ms[i] EXCEPT !.results = all(i)] = Marked(Loaded(from + i - 1, {}))
    BY <1>2, <2>3, <2>4
  <2> QED
    BY <1>4, <2>1, <2>5 DEF len
<1> QED
  BY <1>5, <1>6

LEMMA BandTextDrops ==
  ASSUME Sizes, RowShape, NEW from \in Nat \ {0}, NEW until \in Nat, until <= N, NEW n \in Nat,
         from + n < until
  PROVE  Drop(BandText(from, until), n) = BandText(from + n, until)
<1> DEFINE bt  == BandText(from, until)
           d   == Drop(bt, n)
           len == until + 1 - from
           T(x) == Marked(Loaded(x, {}))
<1>1. bt = [k \in 1 .. len |-> T(from + k - 1)]
  BY BandTextIs
<1>2. BandText(from + n, until) = [k \in 1 .. (until + 1 - (from + n)) |-> T(from + n + k - 1)]
  <2>1. from + n \in Nat \ {0}
    OBVIOUS
  <2> QED
    BY <2>1, BandTextIs
<1> HIDE DEF T
<1>3. len \in Nat /\ until + 1 - (from + n) = len - n /\ len - n \in Nat /\ n < len
  OBVIOUS
<1>4. Proper(bt)
  <2>1. Proper(Messages(from, until, {}))
    BY MessagesAre
  <2>2. Elided(Messages(from, until, {}), bt)
    BY <2>1, CollapseElides DEF Proper, BandText
  <2> QED
    BY <2>1, <2>2, ElidedIsHistory
<1> HIDE DEF bt
<1>5. bt \in Seq(Message) /\ Len(bt) = len
  <2>1. bt \in Seq(Message) /\ DOMAIN bt = 1 .. len
    BY <1>1, <1>4 DEF Proper
  <2> QED
    BY <1>3, <2>1
<1>6. /\ d \in Seq(Message) /\ Len(d) = len - n
      /\ \A i \in 1 .. len - n : d[i] = bt[n + i]
  <2>1. n \in 0 .. Len(bt)
    BY <1>3, <1>5
  <2>2. /\ Proper(d) /\ Len(d) = Len(bt) - n
        /\ \A i \in 1 .. Len(bt) - n : d[i] = bt[n + i]
    BY <1>4, <2>1, DropIsHistory
  <2> HIDE DEF d
  <2> QED
    BY <1>5, <2>2 DEF Proper
<1> HIDE DEF d
<1>7. d = [k \in 1 .. len - n |-> d[k]]
  BY <1>6
<1>8. \A k \in 1 .. len - n : d[k] = T(from + n + k - 1)
  <2>1. \A k \in 1 .. len - n : n + k \in 1 .. len /\ from + (n + k) - 1 = from + n + k - 1
    BY <1>3
  <2> HIDE DEF len
  <2> QED
    BY <1>1, <1>6, <2>1
<1>9. d = BandText(from + n, until)
  BY <1>2, <1>3, <1>7, <1>8
<1> QED
  BY <1>9 DEF d, bt

(* What is rendered of a band is its end, and all of it if that fits.      *)
LEMMA RenderedIsEnd ==
  ASSUME Sizes, RowShape, NEW from \in Nat \ {0}, NEW until \in Nat, until <= N, from < until
  PROVE  \E f \in from .. until :
           /\ RowsOf(RenderForSummary(BandText(from, until))) = f .. until
           /\ f > from => /\ SUMMARY_TOTAL # 0
                          /\ ~(TotalBytes(BandText(f - 1, until)) <= SUMMARY_TOTAL)
<1> DEFINE bt == BandText(from, until)
           len == until + 1 - from
           Fits(n) == TotalBytes(Drop(bt, n)) <= SUMMARY_TOTAL
           S == {n \in 0 .. Len(bt) - 1 : n = Len(bt) - 1 \/ Fits(n)}
           n0 == IF SUMMARY_TOTAL = 0 THEN 0 ELSE Min(S)
<1>1. len \in Nat /\ len > 1 /\ len - 1 \in Nat /\ from + len - 1 = until
  OBVIOUS
<1>2. Proper(bt) /\ Len(bt) = len /\ \A k \in 1 .. len : bt[k].at = from + k - 1
  <2> DEFINE ms == Messages(from, until, {})
  <2>1. Proper(ms) /\ Len(ms) = len /\ \A k \in 1 .. Len(ms) : ms[k].at = from + k - 1
    BY MessagesAre
  <2>2. bt = CollapseOldToolResults(ms, 0)
    BY DEF BandText
  <2> HIDE DEF bt, len, ms
  <2>3. Elided(ms, bt)
    BY <2>1, <2>2, CollapseElides DEF Proper
  <2>4. Proper(bt)
    BY <2>1, <2>3, ElidedIsHistory
  <2> QED
    BY <2>1, <2>3, <2>4 DEF Elided, SameBut
<1>3. \A n \in Nat : from + n < until => Drop(bt, n) = BandText(from + n, until)
  BY BandTextDrops
<1>4. RenderForSummary(bt) = IF SUMMARY_TOTAL = 0 THEN bt ELSE Drop(bt, Min(S))
  BY DEF RenderForSummary, FirstWhere
<1> HIDE DEF bt, len, Fits
<1>5. /\ n0 \in 0 .. len - 1
      /\ n0 > 0 => SUMMARY_TOTAL # 0 /\ n0 - 1 \in 0 .. len - 1 /\ ~Fits(n0 - 1)
  <2>1. CASE SUMMARY_TOTAL = 0
    BY <1>1, <2>1
  <2>2. CASE SUMMARY_TOTAL # 0
    <3>1. S \in SUBSET (0 .. len - 1) /\ len - 1 \in S
      <4>1. S = {n \in 0 .. len - 1 : n = len - 1 \/ Fits(n)}
        BY <1>2
      <4>2. len - 1 \in 0 .. len - 1
        BY <1>1
      <4> HIDE DEF S
      <4> QED
        BY <4>1, <4>2
    <3>2. S \in SUBSET Nat /\ S # {}
      <4>1. 0 .. len - 1 \subseteq Nat
        BY <1>1
      <4> HIDE DEF S
      <4> QED
        BY <3>1, <4>1
    <3>3. Min(S) \in S /\ \A k \in S : Min(S) <= k
      <4> HIDE DEF S
      <4> QED
        BY <3>2, MinIsLeast
    <3>4. n0 = Min(S)
      BY <2>2
    <3>5. \A n \in 0 .. len - 1 : Fits(n) => n \in S
      BY <1>2
    <3> HIDE DEF S, n0
    <3>6. n0 \in 0 .. len - 1 /\ \A k \in S : n0 <= k
      BY <3>1, <3>3, <3>4
    <3>7. ASSUME n0 > 0 PROVE n0 - 1 \in 0 .. len - 1 /\ ~Fits(n0 - 1)
      <4>1. n0 - 1 \in 0 .. len - 1 /\ ~(n0 <= n0 - 1)
        BY <1>1, <3>6, <3>7
      <4> QED
        BY <3>5, <3>6, <4>1
    <3> QED
      BY <2>2, <3>6, <3>7
  <2> QED
    BY <2>1, <2>2
<1>6. /\ n0 \in Nat /\ from + n0 \in from .. until /\ (from + n0 > from => n0 > 0)
      /\ n0 > 0 => (from + n0) - 1 = from + (n0 - 1) /\ n0 - 1 \in Nat /\ from + (n0 - 1) < until
  <2> HIDE DEF n0
  <2> QED
    BY <1>1, <1>5
<1>7. RowsOf(RenderForSummary(bt)) = from + n0 .. until
  <2>1. CASE n0 = 0
    <3>1. RenderForSummary(bt) = bt
      <4>1. n0 = 0 /\ SUMMARY_TOTAL # 0 => Min(S) = 0
        BY <2>1
      <4>2. Drop(bt, 0) = bt
        BY <1>2 DEF Drop, Proper
      <4> QED
        BY <1>4, <2>1, <4>1, <4>2
    <3>2. DOMAIN bt = 1 .. len
      BY <1>2 DEF Proper
    <3>3. RowsOf(bt) = {from + k - 1 : k \in 1 .. len}
      BY <1>2, <3>2 DEF RowsOf
    <3>4. ASSUME NEW x \in from .. until PROVE x \in {from + k - 1 : k \in 1 .. len}
      <4>1. x - from + 1 \in 1 .. len /\ from + (x - from + 1) - 1 = x
        BY <1>1
      <4> QED
        BY <4>1
    <3>5. ASSUME NEW k \in 1 .. len PROVE from + k - 1 \in from .. until
      BY <1>1
    <3>6. {from + k - 1 : k \in 1 .. len} = from .. until
      BY <3>4, <3>5
    <3>7. from + n0 = from
      BY <2>1
    <3> HIDE DEF n0
    <3> QED
      BY <3>1, <3>3, <3>6, <3>7
  <2>2. CASE n0 # 0
    <3> DEFINE d == Drop(bt, n0)
    <3>1. n0 = Min(S) /\ RenderForSummary(bt) = d
      BY <1>4, <2>2
    <3> HIDE DEF n0
    <3>2. /\ Proper(d) /\ Len(d) = len - n0 /\ \A i \in 1 .. len - n0 : d[i] = bt[n0 + i]
      <4>1. n0 \in 0 .. Len(bt)
        BY <1>1, <1>2, <1>5
      <4> QED
        BY <1>2, <4>1, DropIsHistory
    <3> HIDE DEF d
    <3>3. len - n0 \in Nat /\ \A i \in 1 .. len - n0 : n0 + i \in 1 .. len
      BY <1>1, <1>5
    <3>4. \A i \in 1 .. len - n0 : d[i].at = from + (n0 + i) - 1
      BY <1>2, <3>2, <3>3
    <3>5. DOMAIN d = 1 .. len - n0
      BY <3>2 DEF Proper
    <3>6. RowsOf(d) = {from + (n0 + i) - 1 : i \in 1 .. len - n0}
      BY <3>4, <3>5 DEF RowsOf
    <3>7. \A x \in from + n0 .. until :
            x - from - n0 + 1 \in 1 .. len - n0 /\ from + (n0 + (x - from - n0 + 1)) - 1 = x
      BY <1>1, <1>5, <3>3
    <3>8. \A i \in 1 .. len - n0 : from + (n0 + i) - 1 \in from + n0 .. until
      BY <1>1, <1>5, <3>3
    <3>9. {from + (n0 + i) - 1 : i \in 1 .. len - n0} = from + n0 .. until
      BY <3>7, <3>8
    <3> QED
      BY <3>1, <3>6, <3>9
  <2> QED
    BY <2>1, <2>2
<1>8. n0 > 0 => /\ SUMMARY_TOTAL # 0
                /\ ~(TotalBytes(BandText((from + n0) - 1, until)) <= SUMMARY_TOTAL)
  <2> HIDE DEF n0
  <2> SUFFICES ASSUME n0 > 0
               PROVE  SUMMARY_TOTAL # 0 /\ ~(TotalBytes(BandText((from + n0) - 1, until)) <= SUMMARY_TOTAL)
    OBVIOUS
  <2>1. Drop(bt, n0 - 1) = BandText((from + n0) - 1, until)
    BY <1>3, <1>6
  <2>2. SUMMARY_TOTAL # 0 /\ ~(TotalBytes(Drop(bt, n0 - 1)) <= SUMMARY_TOTAL)
    BY <1>5 DEF Fits
  <2> QED
    BY <2>1, <2>2
<1> HIDE DEF n0
<1>9. \E f \in from .. until :
        /\ RowsOf(RenderForSummary(bt)) = f .. until
        /\ f > from => SUMMARY_TOTAL # 0 /\ ~(TotalBytes(BandText(f - 1, until)) <= SUMMARY_TOTAL)
  <2> DEFINE f == from + n0
  <2>1. f \in from .. until /\ (f > from => n0 > 0)
    BY <1>6
  <2>2. /\ RowsOf(RenderForSummary(bt)) = f .. until
        /\ n0 > 0 => SUMMARY_TOTAL # 0 /\ ~(TotalBytes(BandText(f - 1, until)) <= SUMMARY_TOTAL)
    BY <1>7, <1>8
  <2> HIDE DEF f
  <2> QED
    BY <2>1, <2>2
<1> QED
  BY <1>9 DEF bt

(* Of a band the pool is large enough for.                                 *)
LEMMA BandIsShaped ==
  ASSUME Sizes, RowShape, NEW keep \in Nat, BigEnough(keep)
  PROVE  Band(keep) \in JobSet /\ IsBand(Band(keep)) /\ Band(keep) # Spawned
<1> DEFINE from == PoolStart + FIRST
           until == N - keep
           text == RenderForSummary(BandText(from, until))
<1>1. N \in Nat /\ PoolStart \in Nat \ {0} /\ FIRST \in Nat
  BY Pool DEF Sizes
<1>2. /\ from \in Nat \ {0} /\ until \in Nat /\ FIRST < from
      /\ from < until /\ until <= N
  BY <1>1 DEF BigEnough
<1>3. Band(keep) = [from |-> from, until |-> until, flagged |-> Flagged(text), holds |-> RowsOf(text)]
  BY DEF Band
<1> HIDE DEF from, until
<1>4. PICK f \in from .. until :
        /\ RowsOf(text) = f .. until
        /\ f > from => SUMMARY_TOTAL # 0 /\ ~(TotalBytes(BandText(f - 1, until)) <= SUMMARY_TOTAL)
  BY <1>2, RenderedIsEnd
<1> HIDE DEF text
<1>5. f .. until \subseteq Nat /\ Flagged(text) \in BOOLEAN
  BY <1>2 DEF Flagged
<1>6. Band(keep) \in JobSet
  BY <1>2, <1>3, <1>4, <1>5 DEF JobSet
<1>7. HoldsBand(Band(keep))
  BY <1>3, <1>4 DEF HoldsBand
<1> QED
  BY <1>1, <1>2, <1>3, <1>6, <1>7 DEF IsBand, BandShape, Spawned

LEMMA ShrunkIsSize == ASSUME Sizes, NEW n \in Nat \ {0} PROVE Shrunk(n) \in Nat
<1> DEFINE i == IF n < 6 THEN n ELSE 6
           d == <<2, 4, 8, 16, 32, 64>>[i]
<1>1. i \in 1 .. 6
  OBVIOUS
<1>2. d \in {2, 4, 8, 16, 32, 64}
  <2> HIDE DEF i
  <2>1. i = 1 \/ i = 2 \/ i = 3 \/ i = 4 \/ i = 5 \/ i = 6
    BY <1>1
  <2> QED
    BY <2>1
<1>3. KEEP \in Nat
  BY DEF Sizes
<1>4. Shrunk(n) = Larger(KEEP \div d, 2)
  BY DEF Shrunk
<1> HIDE DEF d
<1>5. KEEP \div d \in Int
  BY <1>2, <1>3
<1> QED
  BY <1>4, <1>5 DEF Larger

(* Rows are added, or redacted.                                            *)
RowsLast ==
  /\ N \in Nat /\ N' \in Nat /\ N <= N'
  /\ \A i \in 1 .. N : rows'[i] = rows[i] \/ rows'[i].redacted

LEMMA BandStays ==
  ASSUME RowsLast, NEW b, IsBand(b)
  PROVE  IsBand(b)'
<1>1. /\ b.from \in Nat /\ b.until \in Nat /\ b.from .. b.until \subseteq 1 .. N
      /\ BandShape(b)'
  BY DEF IsBand, BandShape, RowsLast
<1>2. PICK f \in b.from .. b.until :
        /\ b.holds = f .. b.until
        /\ f > b.from =>
             /\ SUMMARY_TOTAL # 0
             /\ \/ ~(TotalBytes(BandText(f - 1, b.until)) <= SUMMARY_TOTAL)
                \/ \E i \in b.from .. b.until : rows[i].redacted
  BY DEF IsBand, HoldsBand
<1>3. CASE \E i \in b.from .. b.until : rows'[i].redacted
  BY <1>1, <1>2, <1>3 DEF IsBand, HoldsBand
<1>4. CASE ~ \E i \in b.from .. b.until : rows'[i].redacted
  <2>1. \A i \in b.from .. b.until : rows'[i] = rows[i]
    BY <1>1, <1>4 DEF RowsLast
  <2>2. ASSUME f > b.from PROVE BandText(f - 1, b.until)' = BandText(f - 1, b.until)
    <3>1. \A k \in 1 .. (b.until + 1 - (f - 1)) : (f - 1) + k - 1 \in b.from .. b.until
      BY <1>1, <2>2
    <3>2. \A i \in b.from .. b.until : Loaded(i, {})' = Loaded(i, {})
      BY <2>1 DEF Loaded
    <3>3. Messages(f - 1, b.until, {})' = Messages(f - 1, b.until, {})
      BY <3>1, <3>2 DEF Messages
    <3> QED
      BY <3>3 DEF BandText
  <2>3. f > b.from =>
          /\ SUMMARY_TOTAL # 0
          /\ \/ ~(TotalBytes(BandText(f - 1, b.until)') <= SUMMARY_TOTAL)
             \/ \E i \in b.from .. b.until : rows'[i].redacted
    BY <1>2, <1>4, <2>1, <2>2
  <2> QED
    BY <1>1, <1>2, <2>3 DEF IsBand, HoldsBand
<1> QED
  BY <1>3, <1>4

LEMMA StoreIsShaped ==
  ASSUME Sizes, RowsLast, NEW band \in JobSet, IsBand(band), Store(band)
  PROVE  SummaryShape' /\ summary' # NoSummary
<1>1. summary' = [from |-> band.from, until |-> band.until, holds |-> band.holds]
  BY DEF Store
<1>2. summary' \in SummarySet
  BY <1>1 DEF SummarySet, JobSet
<1>3. IsBand(band)'
  BY BandStays
<1>4. summary'.from = band.from /\ summary'.until = band.until /\ summary'.holds = band.holds
  BY <1>1
<1>5. IsBand(summary)'
  BY <1>3, <1>4 DEF IsBand, BandShape, HoldsBand
<1>6. band.from # 0 /\ NoSummary.from = 0
  BY DEF IsBand, BandShape, NoSummary, Sizes
<1> QED
  BY <1>2, <1>4, <1>5, <1>6 DEF SummaryShape

(* Summaries and compactions of a thread that has not become shorter.      *)
LEMMA ShapesStay ==
  ASSUME RowsLast
  PROVE  /\ SummaryShape /\ summary' = summary => SummaryShape'
         /\ ShapedJob \subseteq ShapedJob'
         /\ JobShape /\ jobs' = jobs => JobShape'
         /\ jobs' = <<>> => JobShape'
         /\ JobShape /\ jobs' = Append(jobs, Spawned) => JobShape'
<1>1. \A b : IsBand(b) => IsBand(b)'
  BY BandStays
<1>2. ShapedJob \subseteq ShapedJob'
  BY <1>1 DEF ShapedJob
<1>3. ASSUME SummaryShape, summary' = summary PROVE SummaryShape'
  <2>1. CASE summary = NoSummary
    BY <1>3, <2>1 DEF SummaryShape
  <2>2. CASE IsBand(summary)
    <3>1. IsBand(summary)'
      <4> DEFINE b == summary
      <4>1. IsBand(b)
        BY <2>2
      <4>2. \A c : c = b => (IsBand(c) => IsBand(c)')
        BY <1>1
      <4>3. \A c : c = b /\ IsBand(c) => (c = summary' /\ IsBand(c)')
        BY <1>3, <4>2
      <4> QED
        BY <1>3, <4>1, <4>3 DEF IsBand, BandShape, HoldsBand
    <3> QED
      BY <1>3, <3>1 DEF SummaryShape
  <2> QED
    BY <1>3, <2>1, <2>2 DEF SummaryShape
<1>4. ASSUME JobShape PROVE jobs \in Seq(ShapedJob')
  BY <1>2, <1>4 DEF JobShape
<1>5. Spawned \in ShapedJob'
  BY DEF ShapedJob, JobSet, Spawned
<1>6. ASSUME JobShape, jobs' = Append(jobs, Spawned) PROVE JobShape'
  <2> DEFINE S == ShapedJob'
  <2>1. jobs \in Seq(S) /\ Spawned \in S
    BY <1>4, <1>5, <1>6
  <2> HIDE DEF S
  <2>2. Append(jobs, Spawned) \in Seq(S)
    BY <2>1
  <2> QED
    BY <1>6, <2>2 DEF JobShape, S
<1>7. ASSUME jobs' = <<>> PROVE JobShape'
  BY <1>7 DEF JobShape
<1>8. ASSUME JobShape, jobs' = jobs PROVE JobShape'
  BY <1>4, <1>8 DEF JobShape
<1> QED
  BY <1>2, <1>3, <1>6, <1>7, <1>8

(* Rows are added behind the others, none of them redacted.                *)
RowsGrow ==
  /\ RowShape' /\ N \in Nat /\ N' \in Nat /\ N <= N'
  /\ \A i \in 1 .. N : rows'[i] = rows[i]
  /\ \A i \in N + 1 .. N' : ~rows'[i].redacted

LEMMA GrowIsLast == ASSUME RowsGrow PROVE RowsLast
BY DEF RowsGrow, RowsLast

LEMMA RowsStay == ASSUME RowShape, rows' = rows PROVE RowsGrow /\ RowsLast /\ N' = N
<1>1. N \in Nat /\ N' = N
  BY DEF RowShape, N
<1> QED
  BY <1>1 DEF RowsGrow, RowsLast, RowShape

LEMMA RowAdded ==
  ASSUME RowShape, NEW r \in RowSet, SaneRow(r, N + 1), ~r.redacted, AppendRow(r)
  PROVE  RowsGrow
<1>1. /\ rows \in Seq(RowSet) /\ Len(rows) \in Nat /\ N = Len(rows)
      /\ \A i \in 1 .. Len(rows) : SaneRow(rows[i], i)
  BY DEF RowShape, N
<1>2. /\ rows' = Append(rows, r) /\ rows' \in Seq(RowSet) /\ Len(rows') = Len(rows) + 1
      /\ rows'[Len(rows) + 1] = r /\ \A i \in 1 .. Len(rows) : rows'[i] = rows[i]
  BY <1>1 DEF AppendRow
<1>3. N' = Len(rows')
  BY DEF N
<1>4. \A i \in 1 .. Len(rows') : i \in 1 .. Len(rows) \/ i = Len(rows) + 1
  BY <1>1, <1>2
<1>5. \A i \in 1 .. Len(rows') : SaneRow(rows'[i], i)
  BY <1>1, <1>2, <1>4
<1> QED
  BY <1>1, <1>2, <1>3, <1>5 DEF RowsGrow, RowShape

LEMMA PlainRow ==
  ASSUME NEW role \in {"user", "assistant"}, NEW b \in BOOLEAN, NEW i,
         NEW uses \in SUBSET Call, uses \subseteq {i} \X Nat
  PROVE  LET r == Row(role, uses, {}, b) IN r \in RowSet /\ SaneRow(r, i) /\ ~r.redacted
BY DEF Row, RowSet, SaneRow

LEMMA CallsAreOfRow ==
  ASSUME RowShape, NEW n PROVE CallsOf(n) \in SUBSET Call /\ CallsOf(n) \subseteq {N + 1} \X Nat
<1>1. N + 1 \in Nat /\ 1 .. n \subseteq Nat
  BY DEF RowShape, N
<1> QED
  BY <1>1 DEF CallsOf, Call

(* What keeps the invariant when no request is in flight afterwards.       *)
LEMMA OutsideCalls ==
  ASSUME IInv, RowShape', SummaryShape', JobShape', TurnShape', RedactionShape',
         turn'.phase # "calling", request' \in {request, <<>>}
  PROVE  IInv'
<1>1. RequestIsPaired'
  BY NothingIsPaired DEF IInv, RequestShape, RequestIsPaired
<1>2. HistoryIsWhole'
  BY DEF HistoryIsWhole, FullySpliced
<1> QED
  BY <1>1, <1>2 DEF IInv, RequestShape

LEMMA NothingRedacted ==
  ASSUME RedactionShape, RowsGrow, strayed' = strayed
  PROVE  RedactionShape'
<1> SUFFICES ASSUME MAX_BYTES = 0, NEW r \in 1 .. N', rows'[r].redacted
             PROVE  rows'[r].bad \/ r \in strayed'
  BY DEF RedactionShape, RedactedWasBad
<1>1. r \in 1 .. N
  BY DEF RowsGrow
<1> QED
  BY <1>1 DEF RowsGrow, RedactionShape, RedactedWasBad

(* The step of a turn that leaves the call, and no trace but its rows.     *)
LEMMA TurnGoesOn ==
  ASSUME IInv, RowsGrow, TurnShape', turn'.phase # "calling", request' \in {request, <<>>},
         summary' = summary, strayed' = strayed,
         jobs' = jobs \/ jobs' = <<>> \/ jobs' = Append(jobs, Spawned)
  PROVE  IInv'
<1>1. SummaryShape' /\ JobShape'
  BY ShapesStay, GrowIsLast DEF IInv
<1>2. RowShape' /\ RedactionShape'
  BY NothingRedacted DEF IInv, RowsGrow
<1> QED
  BY <1>1, <1>2, OutsideCalls

LEMMA NoTurnIsTurn == turn' = NoTurn => TurnShape' /\ turn'.phase # "calling"
<1>1. NoTurn \in TurnSet /\ NoTurn.phase = "idle"
  BY DEF NoTurn, TurnSet, Phase, SummarySet, NoSummary
<1> QED
  BY <1>1 DEF TurnShape

LEMMA EndKeeps ==
  ASSUME IInv, LlmFails \/ MaxIterationsExceeded \/ LoopGuardTrips \/ Cancelled \/ Crash
  PROVE  IInv'
<1>1. EndTurn /\ rows' = rows /\ summary' = summary /\ strayed' = strayed
      /\ (jobs' = jobs \/ jobs' = <<>>)
  BY DEF LlmFails, MaxIterationsExceeded, LoopGuardTrips, Cancelled, Crash
<1>2. RowsGrow
  BY <1>1, RowsStay DEF IInv
<1> QED
  BY <1>1, <1>2, NoTurnIsTurn, TurnGoesOn DEF EndTurn

LEMMA BeginKeeps == ASSUME IInv, NEW b \in BOOLEAN, BeginTurn(b) PROVE IInv'
<1>1. RowsGrow
  <2>1. AppendRow(Row("user", {}, {}, b))
    BY DEF BeginTurn
  <2> QED
    BY <2>1, PlainRow, RowAdded DEF IInv
<1>2. turn' = [NoTurn EXCEPT !.phase = "loop"] /\ request' = request
  BY DEF BeginTurn
<1>3. turn' \in TurnSet /\ turn'.phase = "loop"
  BY <1>2 DEF NoTurn, TurnSet, Phase, SummarySet, NoSummary
<1> QED
  BY <1>1, <1>2, <1>3, TurnGoesOn DEF TurnShape, BeginTurn

(* A turn that goes on with one counter changed.                           *)
LEMMA Counted ==
  ASSUME IInv, NEW t \in TurnSet, Continue(t)
  PROVE  TurnShape' /\ turn'.phase # "calling" /\ request' = <<>>
<1>1. turn' = [t EXCEPT !.phase = "loop"] /\ request' = <<>>
  BY DEF Continue
<1>2. turn' \in TurnSet /\ turn'.phase = "loop"
  BY <1>1 DEF TurnSet, Phase
<1> QED
  BY <1>1, <1>2 DEF TurnShape

LEMMA RetriesKeep ==
  ASSUME IInv, MalformedToolArgs \/ \E b \in BOOLEAN : Escalate(b)
  PROVE  IInv'
<1>1. turn \in TurnSet
  BY DEF IInv, TurnShape
<1>2. CASE MalformedToolArgs
  <2>1. AppendRow(Row("user", {}, {}, FALSE))
        /\ Continue([turn EXCEPT !.malformed = @ + 1])
        /\ summary' = summary /\ jobs' = jobs /\ strayed' = strayed
    BY <1>2 DEF MalformedToolArgs
  <2>2. RowsGrow
    BY <2>1, PlainRow, RowAdded DEF IInv
  <2>3. [turn EXCEPT !.malformed = @ + 1] \in TurnSet
    BY <1>1 DEF TurnSet
  <2> QED
    BY <2>1, <2>2, <2>3, Counted, TurnGoesOn
<1>3. ASSUME NEW b \in BOOLEAN, Escalate(b) PROVE IInv'
  <2>1. AppendRow(Row("assistant", {}, {}, b))
        /\ Continue([turn EXCEPT !.raised = @ + 1])
        /\ summary' = summary /\ jobs' = jobs /\ strayed' = strayed
    BY <1>3 DEF Escalate
  <2>2. RowsGrow
    BY <2>1, PlainRow, RowAdded DEF IInv
  <2>3. [turn EXCEPT !.raised = @ + 1] \in TurnSet
    BY <1>1 DEF TurnSet
  <2> QED
    BY <2>1, <2>2, <2>3, Counted, TurnGoesOn
<1> QED
  BY <1>2, <1>3

LEMMA AnswerKeeps ==
  ASSUME IInv, NEW b \in BOOLEAN, NEW n \in Nat, NEW large \in BOOLEAN, Answer(b, n, large)
  PROVE  IInv'
<1>1. AppendRow(Row("assistant", CallsOf(n), {}, b)) /\ EndTurn
      /\ summary' = summary /\ strayed' = strayed
      /\ (jobs' = jobs \/ jobs' = Append(jobs, Spawned))
  BY DEF Answer
<1>2. RowsGrow
  BY <1>1, CallsAreOfRow, PlainRow, RowAdded DEF IInv
<1> QED
  BY <1>1, <1>2, NoTurnIsTurn, TurnGoesOn DEF EndTurn

LEMMA AnswerWithCallsKeeps ==
  ASSUME IInv, NEW b \in BOOLEAN, NEW n \in Nat, AnswerWithCalls(b, n)
  PROVE  IInv'
<1>1. AppendRow(Row("assistant", CallsOf(n), {}, b))
      /\ turn' = [turn EXCEPT !.phase = "tools", !.calls = CallsOf(n)]
      /\ request' = <<>> /\ summary' = summary /\ jobs' = jobs /\ strayed' = strayed
  BY DEF AnswerWithCalls
<1>2. RowsGrow
  BY <1>1, CallsAreOfRow, PlainRow, RowAdded DEF IInv
<1>3. CallsOf(n) \in SUBSET Call
  BY CallsAreOfRow DEF IInv
<1>4. turn' \in TurnSet /\ turn'.phase = "tools"
  BY <1>1, <1>3 DEF IInv, TurnShape, TurnSet, Phase
<1> QED
  BY <1>1, <1>2, <1>4, TurnGoesOn DEF TurnShape

LEMMA TwoRowsAdded ==
  ASSUME RowShape, NEW r \in RowSet, SaneRow(r, N + 1), ~r.redacted,
         NEW q \in RowSet, SaneRow(q, N + 2), ~q.redacted, rows' = rows \o <<r, q>>
  PROVE  RowsGrow
<1>1. /\ rows \in Seq(RowSet) /\ Len(rows) \in Nat /\ N = Len(rows)
      /\ \A i \in 1 .. Len(rows) : SaneRow(rows[i], i)
  BY DEF RowShape, N
<1>2. <<r, q>> \in Seq(RowSet) /\ Len(<<r, q>>) = 2 /\ <<r, q>>[1] = r /\ <<r, q>>[2] = q
  OBVIOUS
<1>3. /\ rows' \in Seq(RowSet) /\ Len(rows') = Len(rows) + 2
      /\ rows'[Len(rows) + 1] = r /\ rows'[Len(rows) + 2] = q
      /\ \A i \in 1 .. Len(rows) : rows'[i] = rows[i]
  BY <1>1, <1>2
<1>4. N' = Len(rows')
  BY DEF N
<1>5. \A i \in 1 .. Len(rows') :
        i \in 1 .. Len(rows) \/ i = Len(rows) + 1 \/ i = Len(rows) + 2
  BY <1>1, <1>3
<1>6. \A i \in 1 .. Len(rows') : SaneRow(rows'[i], i)
  BY <1>1, <1>3, <1>5
<1>7. \A i \in N + 1 .. N' : ~rows'[i].redacted
  <2> SUFFICES ASSUME NEW i \in N + 1 .. N' PROVE ~rows'[i].redacted
    OBVIOUS
  <2>1. i = Len(rows) + 1 \/ i = Len(rows) + 2
    BY <1>1, <1>3, <1>4
  <2> QED
    BY <1>3, <2>1
<1> QED
  BY <1>1, <1>3, <1>4, <1>6, <1>7, SMTT(60) DEF RowsGrow, RowShape

LEMMA ToolsKeep ==
  ASSUME IInv, NEW failures, NEW b \in BOOLEAN, NEW again \in BOOLEAN,
         ToolsDone(failures, b, again)
  PROVE  IInv'
<1> DEFINE Result(u) == [id |-> u, err |-> u \in failures,
                         size |-> IF u \in failures THEN 1 ELSE 3]
           results == {Result(u) : u \in turn.calls}
           batch == Row("tool", {}, results, b)
           feedback == Row("user", {}, {}, FALSE)
<1>1. /\ rows' = IF again THEN rows \o <<batch, feedback>> ELSE Append(rows, batch)
      /\ turn' = [turn EXCEPT !.phase = "loop", !.calls = {}, !.failed = @ \/ failures # {}]
      /\ summary' = summary /\ jobs' = jobs /\ request' = request /\ strayed' = strayed
  BY DEF ToolsDone
<1>2. results \subseteq Results /\ Single(results)
  <2>1. turn.calls \subseteq Call
    BY DEF IInv, TurnShape, TurnSet
  <2>2. \A u \in turn.calls : Result(u) \in Results /\ Result(u).id = u
    BY <2>1 DEF Results
  <2> HIDE DEF Result
  <2> QED
    BY <2>2 DEF Single
<1>3. batch \in RowSet /\ SaneRow(batch, N + 1) /\ ~batch.redacted
  <2> HIDE DEF results
  <2> QED
    BY <1>2 DEF Row, RowSet, SaneRow
<1>4. feedback \in RowSet /\ SaneRow(feedback, N + 2) /\ ~feedback.redacted
  BY PlainRow
<1> HIDE DEF batch, feedback
<1>5. RowsGrow
  <2>1. CASE again
    BY <1>1, <1>3, <1>4, <2>1, TwoRowsAdded DEF IInv
  <2>2. CASE ~again
    <3>1. AppendRow(batch)
      BY <1>1, <2>2 DEF AppendRow
    <3> QED
      BY <1>3, <3>1, RowAdded DEF IInv
  <2> QED
    BY <2>1, <2>2
<1>6. turn' \in TurnSet /\ turn'.phase = "loop"
  BY <1>1 DEF IInv, TurnShape, TurnSet, Phase
<1> QED
  BY <1>1, <1>5, <1>6, TurnGoesOn DEF TurnShape

(* What a probe sends does not change with the rest of the state.          *)
LEMMA WindowStays == ASSUME rows' = rows, NEW R PROVE Window(R)' = Window(R)
<1>1. N' = N /\ PoolStart' = PoolStart
  BY DEF N, PoolStart
<1>2. \A i : Loaded(i, R)' = Loaded(i, R)
  BY DEF Loaded
<1>3. Messages(PoolStart, N, R)' = Messages(PoolStart, N, R)
  BY <1>1, <1>2 DEF Messages
<1> QED
  BY <1>3 DEF Window

LEMMA RepairIsSequence ==
  ASSUME NEW ms, Proper(ms)
  PROVE  DOMAIN EnsureToolResultPairing(ms) = 1 .. Len(EnsureToolResultPairing(ms))
<1>1. Len(ms) \in Nat
  BY DEF Proper
<1>2. PICK p : /\ p[0] = Unpaired
               /\ \A n \in 1 .. Len(ms) : p[n] = PairMessage(p[n - 1], ms[n])
               /\ EnsureToolResultPairing(ms) = CloseMissing(p[Len(ms)]).out
  BY <1>1, PairingLoop
<1>3. Paired(p[Len(ms)])
  BY <1>1, <1>2, PairingInvariant
<1>4. Paired(CloseMissing(p[Len(ms)]))
  BY <1>3, NobodyOpen
<1> QED
  BY <1>2, <1>4 DEF Paired, Repair

LEMMA CallKeeps == ASSUME Sizes, IInv, CallLlm PROVE IInv'
<1>1. /\ turn' = [turn EXCEPT !.phase = "calling", !.used = summary, !.iter = @ + 1]
      /\ request' = EnsureToolResultPairing(LoadHistory)
      /\ rows' = rows /\ summary' = summary /\ jobs' = jobs /\ strayed' = strayed
  BY DEF CallLlm, StartCall
<1>2. RowsGrow /\ RowsLast /\ N' = N
  BY <1>1, RowsStay DEF IInv
<1>3. RowShape' /\ SummaryShape' /\ JobShape'
  BY <1>1, <1>2, ShapesStay DEF IInv, RowsGrow
<1>4. TurnShape' /\ turn'.phase = "calling" /\ turn'.used = summary
  <2>1. turn' \in TurnSet /\ turn'.phase = "calling" /\ turn'.used = summary
    <3>1. turn \in TurnSet /\ summary \in SummarySet
      BY DEF IInv, SummaryShape, TurnShape
    <3>2. turn.iter + 1 \in Nat /\ "calling" \in Phase
      BY <3>1 DEF TurnSet, Phase
    <3>3. turn' \in TurnSet
      BY <1>1, <3>1, <3>2 DEF TurnSet
    <3>4. turn'.phase = "calling" /\ turn'.used = summary
      BY <1>1, <3>1 DEF TurnSet
    <3> QED
      BY <3>3, <3>4
  <2> QED
    BY <2>1 DEF TurnShape
<1>5. summary # NoSummary => Proper(Spliced)
  BY SplicedIsProper DEF IInv, SummaryShape, IsBand
<1>6. RequestIsPaired'
  <2>1. Proper(LoadHistory)
    BY <1>5, WindowIsProper DEF IInv, LoadHistory
  <2> QED
    BY <1>1, <2>1, RepairPairs DEF RequestIsPaired
<1>7. HistoryIsWhole'
  <2> SUFFICES ASSUME summary # NoSummary, summary.from = FIRST + 1,
                      N - summary.until <= LIMIT, MAX_BYTES = 0,
                      NEW r \in 1 .. N, rows[r].role # "tool"
               PROVE  \/ r \in Sent' \/ r \in summary.holds
                      \/ /\ r \in Omitted(summary)' /\ SUMMARY_TOTAL # 0
                         /\ OverBudget(summary)'
    <3>1. FullySpliced' => /\ summary # NoSummary /\ summary.from = FIRST + 1
                           /\ N - summary.until <= LIMIT /\ MAX_BYTES = 0
      BY <1>2, <1>4 DEF FullySpliced
    <3>2. Omitted(turn.used)' = Omitted(summary)' /\ OverBudget(turn.used)' = OverBudget(summary)'
      BY <1>1, <1>4 DEF Omitted, OverBudget
    <3> QED
      BY <1>1, <1>2, <1>4, <3>1, <3>2 DEF HistoryIsWhole
  <2>1. CASE r \notin summary.from .. summary.until
    <3>1. r \in Ats(EnsureToolResultPairing(Spliced))
      BY <2>1, SplicedIsWhole DEF IInv, SummaryShape, IsBand
    <3>2. request' = EnsureToolResultPairing(Spliced) /\ DOMAIN request' = 1 .. Len(request')
      BY <1>1, <1>5, RepairIsSequence DEF LoadHistory
    <3>3. r # 0
      BY <1>2 DEF RowsGrow
    <3>4. r \in Sent'
      BY <3>1, <3>2, <3>3 DEF Sent, RowsOf, Ats
    <3> QED
      BY <3>4
  <2>2. CASE r \in summary.from .. summary.until
    <3>1. /\ summary' = summary /\ summary.from \in Nat /\ summary.until \in Nat
          /\ IsBand(summary)
      BY <1>1 DEF IInv, SummaryShape, IsBand, BandShape
    <3>2. PICK f \in summary.from .. summary.until :
            /\ summary.holds = f .. summary.until
            /\ f > summary.from =>
                 /\ SUMMARY_TOTAL # 0
                 /\ \/ ~(TotalBytes(BandText(f - 1, summary.until)) <= SUMMARY_TOTAL)
                    \/ \E i \in summary.from .. summary.until : rows[i].redacted
      BY <3>1 DEF IsBand, HoldsBand
    <3>3. r \in Nat /\ (r \in summary.holds \/ r < f)
      BY <2>2, <3>1, <3>2
    <3>4. ASSUME r < f PROVE r \in Omitted(summary)' /\ SUMMARY_TOTAL # 0 /\ OverBudget(summary)'
      <4>1. /\ f > summary.from /\ f - 1 \in summary.from .. summary.until
            /\ (f - 1) + 1 = f /\ f \in summary.holds
            /\ \A h \in summary.holds : r < h /\ f - 1 < h
        BY <2>2, <3>1, <3>2, <3>3, <3>4
      <4>2. r \in Omitted(summary)' /\ f - 1 \in Omitted(summary)'
        BY <1>1, <2>2, <4>1 DEF Omitted
      <4>3. BandText(f - 1, summary.until)' = BandText(f - 1, summary.until)
        BY <1>1 DEF BandText, Messages, Loaded
      <4>4. CASE ~(TotalBytes(BandText(f - 1, summary.until)) <= SUMMARY_TOTAL)
        BY <1>1, <3>2, <4>1, <4>2, <4>3, <4>4 DEF OverBudget
      <4>5. CASE \E i \in summary.from .. summary.until : rows[i].redacted
        BY <1>1, <3>2, <4>1, <4>2, <4>5 DEF OverBudget
      <4> QED
        BY <3>2, <4>1, <4>2, <4>4, <4>5
    <3> QED
      BY <3>3, <3>4
  <2> QED
    BY <2>1, <2>2
<1>8. summary' = NoSummary => request' = EnsureToolResultPairing(Window({})')
  <2>1. Window({})' = Window({})
    BY <1>1, WindowStays
  <2> QED
    BY <1>1, <2>1 DEF LoadHistory
<1>9. RedactionShape'
  BY <1>1, <1>2, NothingRedacted DEF IInv
<1> QED
  BY <1>3, <1>4, <1>6, <1>7, <1>8, <1>9 DEF IInv, RequestShape

LEMMA TooLongKeeps == ASSUME Sizes, IInv, TooLong PROVE IInv'
<1>1. /\ rows' = rows /\ summary' = summary /\ jobs' = jobs /\ strayed' = strayed
      /\ request' = <<>>
      /\ IF BigEnough(Shrunk(turn.tooLong + 1))
         THEN turn' = [turn EXCEPT !.phase = "compacting", !.tooLong = @ + 1]
         ELSE turn' = [[turn EXCEPT !.tooLong = @ + 1] EXCEPT !.phase = "loop"]
  BY DEF TooLong, Continue
<1>2. RowsGrow
  BY <1>1, RowsStay DEF IInv
<1>3. turn \in TurnSet /\ turn.tooLong + 1 \in Nat \ {0}
  BY DEF IInv, TurnShape, TurnSet
<1>4. CASE BigEnough(Shrunk(turn.tooLong + 1))
  <2>1. turn' \in TurnSet /\ turn'.phase = "compacting" /\ turn'.tooLong = turn.tooLong + 1
    BY <1>1, <1>3, <1>4 DEF TurnSet, Phase
  <2>2. BigEnough(Shrunk(turn.tooLong))'
    BY <1>1, <1>4, <2>1 DEF BigEnough, PoolStart, N
  <2>3. turn'.tooLong > 0
    BY <1>3, <2>1
  <2> QED
    BY <1>1, <1>2, <2>1, <2>2, <2>3, TurnGoesOn DEF TurnShape
<1>5. CASE ~BigEnough(Shrunk(turn.tooLong + 1))
  <2>1. turn' \in TurnSet /\ turn'.phase = "loop"
    BY <1>1, <1>3, <1>5 DEF TurnSet, Phase
  <2> QED
    BY <1>1, <1>2, <2>1, TurnGoesOn DEF TurnShape
<1> QED
  BY <1>4, <1>5

LEMMA CompactKeeps == ASSUME Sizes, IInv, CompactInTurn PROVE IInv'
<1> DEFINE band == Band(Shrunk(turn.tooLong))
<1>1. /\ rows' = rows /\ jobs' = jobs /\ strayed' = strayed /\ turn.phase = "compacting"
      /\ \/ (Store(band) \/ summary' = summary) /\ Goto("loop") /\ request' = request
         \/ EndTurn /\ summary' = summary
  BY DEF CompactInTurn
<1>2. RowsGrow /\ RowsLast /\ N' = N
  BY <1>1, RowsStay DEF IInv
<1>3. RowShape' /\ JobShape' /\ RedactionShape'
  BY <1>1, <1>2, ShapesStay, NothingRedacted DEF IInv, RowsGrow
<1>4. IsBand(band) /\ band \in JobSet
  <2>1. turn.tooLong \in Nat \ {0} /\ BigEnough(Shrunk(turn.tooLong))
    BY <1>1 DEF IInv, TurnShape, TurnSet
  <2> QED
    BY <2>1, ShrunkIsSize, BandIsShaped DEF IInv
<1> HIDE DEF band
<1>5. SummaryShape'
  <2>1. CASE Store(band)
    BY <1>2, <1>4, <2>1, StoreIsShaped
  <2>2. CASE summary' = summary
    BY <1>2, <2>2, ShapesStay DEF IInv
  <2> QED
    BY <1>1, <2>1, <2>2
<1>6. TurnShape' /\ turn'.phase # "calling" /\ request' \in {request, <<>>}
  <2>1. CASE EndTurn
    BY <2>1, NoTurnIsTurn DEF EndTurn
  <2>2. CASE Goto("loop") /\ request' = request
    <3>1. turn' \in TurnSet /\ turn'.phase = "loop"
      BY <2>2 DEF Goto, IInv, TurnShape, TurnSet, Phase
    <3> QED
      BY <2>2, <3>1 DEF TurnShape
  <2> QED
    BY <1>1, <2>1, <2>2
<1> QED
  BY <1>3, <1>5, <1>6, OutsideCalls

LEMMA RemoveKeeps ==
  ASSUME NEW S, NEW s \in Seq(S), NEW i \in 1 .. Len(s)
  PROVE  RemoveAt(s, i) \in Seq(S)
BY DEF RemoveAt

(* A background compaction beside a call: the request is what it was.      *)
LEMMA BesideTurn ==
  ASSUME IInv, rows' = rows, turn' = turn, request' = request, strayed' = strayed,
         SummaryShape', JobShape', summary' = summary \/ summary' # NoSummary
  PROVE  IInv'
<1>1. RowsGrow /\ N' = N
  BY RowsStay DEF IInv
<1>2. RowShape' /\ RedactionShape'
  BY <1>1, NothingRedacted DEF IInv, RowsGrow
<1>3. TurnShape'
  BY DEF IInv, TurnShape, BigEnough, PoolStart, N
<1>4. RequestIsPaired' /\ HistoryIsWhole'
  <2>1. Omitted(turn.used)' = Omitted(turn.used) /\ OverBudget(turn.used)' = OverBudget(turn.used)
    <3>1. \A r : BandText(r, turn.used.until)' = BandText(r, turn.used.until)
      BY DEF BandText, Messages, Loaded
    <3> QED
      BY <3>1 DEF Omitted, OverBudget
  <2>2. FullySpliced' <=> FullySpliced
    BY <1>1 DEF FullySpliced
  <2>3. Sent' = Sent
    BY DEF Sent, RowsOf
  <2> QED
    BY <1>1, <2>1, <2>2, <2>3 DEF IInv, RequestShape, RequestIsPaired, HistoryIsWhole
<1>5. turn'.phase = "calling" /\ summary' = NoSummary =>
        request' = EnsureToolResultPairing(Window({})')
  <2>1. Window({})' = Window({})
    BY WindowStays
  <2> QED
    BY <2>1 DEF IInv, RequestShape
<1> QED
  BY <1>2, <1>3, <1>4, <1>5 DEF IInv, RequestShape

LEMMA JobsKeep ==
  ASSUME Sizes, IInv, NEW j, JobReads(j) \/ JobWrites(j)
  PROVE  IInv'
<1>1. /\ rows' = rows /\ turn' = turn /\ request' = request /\ strayed' = strayed
      /\ j \in DOMAIN jobs
  BY DEF JobReads, JobWrites
<1>2. RowsLast /\ N' = N /\ N \in Nat
  BY <1>1, RowsStay DEF IInv, RowsGrow
<1>3. j \in 1 .. Len(jobs) /\ jobs \in Seq(ShapedJob) /\ jobs \in Seq(ShapedJob')
      /\ ShapedJob \subseteq ShapedJob'
  BY <1>1, <1>2, ShapesStay DEF IInv, JobShape
<1>4. CASE JobReads(j)
  <2> DEFINE band == Band(Larger(KEEP, 2))
  <2>1. JobShape'
    <3>1. CASE BigEnough(Larger(KEEP, 2))
      <4>1. Larger(KEEP, 2) \in Nat
        BY DEF Sizes, Larger
      <4>2. band \in ShapedJob
        BY <3>1, <4>1, BandIsShaped DEF IInv, ShapedJob
      <4>3. jobs' = [jobs EXCEPT ![j] = band]
        BY <1>4, <3>1 DEF JobReads
      <4> HIDE DEF band
      <4>4. band \in ShapedJob'
        BY <1>3, <4>2
      <4> DEFINE S == ShapedJob'
      <4>5. jobs \in Seq(S) /\ band \in S
        BY <1>3, <4>4
      <4> HIDE DEF S
      <4>6. [jobs EXCEPT ![j] = band] \in Seq(S)
        BY <1>3, <4>5
      <4> QED
        BY <4>3, <4>6 DEF JobShape, S
    <3>2. CASE ~BigEnough(Larger(KEEP, 2))
      <4>1. jobs' = RemoveAt(jobs, j)
        BY <1>4, <3>2 DEF JobReads
      <4> QED
        BY <1>3, <4>1, RemoveKeeps DEF JobShape
    <3> QED
      BY <3>1, <3>2
  <2>2. summary' = summary /\ SummaryShape'
    BY <1>2, <1>4, ShapesStay DEF JobReads, IInv
  <2> QED
    BY <1>1, <2>1, <2>2, BesideTurn
<1>5. CASE JobWrites(j)
  <2>1. /\ jobs' = RemoveAt(jobs, j) /\ jobs[j] # Spawned
        /\ Store(jobs[j]) \/ summary' = summary
    BY <1>5 DEF JobWrites
  <2>2. JobShape'
    BY <1>3, <2>1, RemoveKeeps DEF JobShape
  <2>3. jobs[j] \in JobSet /\ IsBand(jobs[j])
    <3>1. jobs[j] \in ShapedJob
      BY <1>3
    <3> QED
      BY <2>1, <3>1 DEF ShapedJob
  <2>4. SummaryShape' /\ (summary' = summary \/ summary' # NoSummary)
    <3>1. CASE Store(jobs[j])
      BY <1>2, <2>3, <3>1, StoreIsShaped
    <3>2. CASE summary' = summary
      BY <1>2, <3>2, ShapesStay DEF IInv
    <3> QED
      BY <2>1, <3>1, <3>2
  <2> QED
    BY <1>1, <2>2, <2>4, BesideTurn
<1> QED
  BY <1>4, <1>5

LEMMA FilteredKeeps == ASSUME Sizes, IInv, ContentFiltered PROVE IInv'
<1>1. /\ turn.phase = "calling" /\ Flagged(request) /\ summary' = summary /\ jobs' = jobs
      /\ RowShape /\ turn \in TurnSet
  BY DEF ContentFiltered, Blocked, IInv, TurnShape
<1>2. CASE Cardinality(Culprits) = 1
  <2>1. PICK i \in Culprits : rows' = [rows EXCEPT ![i].redacted = TRUE]
    BY <1>2 DEF ContentFiltered
  <2>2. /\ Continue([turn EXCEPT !.filtered = @ + 1])
        /\ strayed' = IF summary = NoSummary THEN strayed ELSE strayed \cup Culprits
    BY <1>2 DEF ContentFiltered
  <2>3. /\ rows \in Seq(RowSet) /\ Len(rows) \in Nat /\ N = Len(rows)
        /\ \A k \in 1 .. Len(rows) : SaneRow(rows[k], k) /\ rows[k] \in RowSet
    BY <1>1 DEF RowShape, N
  <2> DEFINE hidden == [rows[i] EXCEPT !.redacted = TRUE]
  <2>4. /\ rows' = [rows EXCEPT ![i] = hidden]
        /\ \A k \in 1 .. Len(rows) : rows'[k] = IF k = i THEN hidden ELSE rows[k]
    <3>1. rows' = [rows EXCEPT ![i] = hidden]
      BY <2>1
    <3>2. DOMAIN rows = 1 .. Len(rows)
      BY <2>3
    <3> HIDE DEF hidden
    <3> QED
      BY <3>1, <3>2
  <2>5. \A k \in 1 .. Len(rows) : /\ rows'[k] \in RowSet /\ SaneRow(rows'[k], k)
                                  /\ rows'[k].bad = rows[k].bad
                                  /\ rows'[k].redacted => rows[k].redacted \/ k = i
    <3>1. i \in 1 .. Len(rows) =>
            /\ hidden \in RowSet /\ SaneRow(hidden, i) /\ hidden.bad = rows[i].bad
      BY <2>3 DEF RowSet, SaneRow
    <3> HIDE DEF hidden
    <3> QED
      BY <2>3, <2>4, <3>1
  <2>6. rows' \in Seq(RowSet) /\ Len(rows') = Len(rows) /\ N' = N
    <3>1. rows' = [k \in 1 .. Len(rows) |-> rows'[k]]
      <4> HIDE DEF hidden
      <4>1. DOMAIN rows = 1 .. Len(rows)
        BY <2>3
      <4>2. rows' = [k \in DOMAIN rows |-> IF k = i THEN hidden ELSE rows[k]]
        BY <2>4, Zenon
      <4> QED
        BY <4>1, <4>2
    <3>2. rows' \in Seq(RowSet) /\ Len(rows') = Len(rows)
      BY <2>3, <2>5, <3>1
    <3> QED
      BY <2>3, <3>2 DEF N
  <2>7. RowShape'
    BY <2>3, <2>5, <2>6 DEF RowShape
  <2>8. SummaryShape' /\ JobShape'
    <3>1. hidden.redacted \/ i \notin 1 .. Len(rows)
      BY <2>3 DEF RowSet
    <3> HIDE DEF hidden
    <3>2. RowsLast
      BY <2>3, <2>4, <2>6, <3>1 DEF RowsLast
    <3> QED
      BY <1>1, <3>2, ShapesStay DEF IInv
  <2>9. RedactionShape'
    <3> SUFFICES ASSUME MAX_BYTES = 0, NEW r \in 1 .. N, rows'[r].redacted
                 PROVE  rows'[r].bad \/ r \in strayed'
      BY <2>6 DEF RedactionShape, RedactedWasBad
    <3>1. rows'[r].bad = rows[r].bad /\ (rows[r].redacted \/ r = i)
      BY <2>3, <2>5
    <3>2. rows[r].redacted => rows[r].bad \/ r \in strayed
      BY DEF IInv, RedactionShape, RedactedWasBad
    <3>3. CASE summary = NoSummary
      <4>1. ~ProbePasses({})
        BY <1>1, <3>3 DEF IInv, RequestShape, ProbePasses
      <4>2. rows[i].bad
        BY <1>1, <1>2, <2>1, <4>1, CulpritIsBad
      <4> QED
        BY <2>2, <3>1, <3>2, <3>3, <4>2
    <3>4. CASE summary # NoSummary
      BY <2>1, <2>2, <3>1, <3>2, <3>4
    <3> QED
      BY <3>3, <3>4
  <2>10. TurnShape' /\ turn'.phase # "calling" /\ request' = <<>>
    <3>1. [turn EXCEPT !.filtered = @ + 1] \in TurnSet
      BY <1>1 DEF TurnSet
    <3> QED
      BY <2>2, <3>1, Counted
  <2> QED
    BY <2>7, <2>8, <2>9, <2>10, OutsideCalls
<1>3. CASE Cardinality(Culprits) # 1
  <2>1. AppendRow(Row("assistant", {}, {}, FALSE)) /\ EndTurn /\ strayed' = strayed
    BY <1>3 DEF ContentFiltered
  <2>2. RowsGrow
    BY <1>1, <2>1, PlainRow, RowAdded
  <2> QED
    BY <1>1, <2>1, <2>2, NoTurnIsTurn, TurnGoesOn DEF EndTurn
<1> QED
  BY <1>2, <1>3

LEMMA NextInv == ASSUME Sizes, IInv, [Next]_vars PROVE IInv'
<1>1. CASE Respond
  <2>1. ASSUME NEW b \in BOOLEAN, NEW n \in 0 .. MaxUses, NEW large \in BOOLEAN,
               Answer(b, n, large)
        PROVE  IInv'
    BY <2>1, AnswerKeeps
  <2>2. ASSUME NEW b \in BOOLEAN, NEW n \in 1 .. MaxUses, AnswerWithCalls(b, n) PROVE IInv'
    BY <2>2, AnswerWithCallsKeeps
  <2> QED
    BY <1>1, <2>1, <2>2, EndKeeps, RetriesKeep, TooLongKeeps, FilteredKeeps DEF Respond
<1>2. CASE AfterCall
  <2>1. ASSUME NEW failures \in SUBSET turn.calls, NEW b \in BOOLEAN, NEW again \in BOOLEAN,
               ToolsDone(failures, b, again)
        PROVE  IInv'
    BY <2>1, ToolsKeep
  <2> QED
    BY <1>1, <1>2, <2>1, EndKeeps, CompactKeeps DEF AfterCall
<1>3. CASE \E b \in BOOLEAN : BeginTurn(b)
  BY <1>3, BeginKeeps
<1>4. CASE \E j \in 1 .. MaxJobs : JobReads(j) \/ JobWrites(j)
  BY <1>4, JobsKeep
<1>5. CASE UNCHANGED vars
  <2>1. /\ rows' = rows /\ turn' = turn /\ request' = request /\ strayed' = strayed
        /\ summary' = summary /\ jobs' = jobs
    BY <1>5 DEF vars
  <2>2. SummaryShape' /\ JobShape'
    BY <2>1, RowsStay, ShapesStay DEF IInv, RowsGrow
  <2> QED
    BY <2>1, <2>2, BesideTurn
<1> QED
  BY <1>2, <1>3, <1>4, <1>5, CallKeeps, EndKeeps DEF Next

(* What the runs of the thread check follows from the invariant.           *)
LEMMA InvPairsRequest == ASSUME IInv PROVE RequestIsPaired
BY DEF IInv, RequestShape

LEMMA InvKeepsHistory ==
  ASSUME IInv, MAX_BYTES = 0 PROVE HistoryIsWhole /\ RedactedWasBad
BY DEF IInv, RequestShape, RedactionShape
=============================================================================
