-------------------------- MODULE ProcessWatch_proofs --------------------------
(***************************************************************************)
(* Theorems about ProcessWatch, for any processes, names and buffer sizes: *)
(* type correctness, with what the tracker counts, and that the watcher    *)
(* knows which processes live, and their names, when it has caught up with *)
(* the kernel and lost no event.                                           *)
(*                                                                         *)
(* The tracker is looked at as a record: Sane says what it keeps, the      *)
(* lemmas about Bump, Named and Disappear what each of them makes of it.   *)
(***************************************************************************)
EXTENDS ProcessWatch, FiniteSetTheorems, SequenceTheorems,
        WellFoundedInduction, TLAPS

Flips  == [name : Names, running : BOOLEAN]
Raw    == [what : {"fork", "exec", "comm", "exit"}, pid : Pids,
           parent : Pids \cup {None}, name : Names \cup {None}]

\* A fork has a parent, a change of the name the name.
Events == {e \in Raw : /\ e.what = "fork" => e.parent \in Pids
                       /\ e.what = "comm" => e.name \in Names}

Having(f, n) == {p \in DOMAIN f : f[p] = n}

\* The tracker of pids f, counts c and flips s.
Tracking(f, c, s) == [pids |-> f, counts |-> c, flips |-> s]

Sane(f, c, s) ==
    /\ DOMAIN f \subseteq Pids /\ f \in [DOMAIN f -> Names]
    /\ c \in [Names -> Nat] /\ s \in Seq(Flips)
    /\ \A n \in Names : c[n] = Cardinality(Having(f, n))

\* The flips s, where there were none old, say the last word about each count.
Says(old, c, s) == \A n \in Names : /\ c[n] > 0 => Latest(s, n, old[n]) = TRUE
                                    /\ c[n] = 0 => Latest(s, n, old[n]) = FALSE

LEMMA Least ==
  ASSUME NEW S \in SUBSET Nat, S # {}
  PROVE  \E m \in S : \A k \in S : m =< k
<1> DEFINE less == OpToRel(<, Nat)
<1>1. \A i, j \in Nat : i < j => <<i, j>> \in less
  BY DEF OpToRel
<1>2. IsWellFoundedOn(less, Nat)
  BY NatLessThanWellFounded
<1> HIDE DEF less
<1>3. PICK m \in S : \A k \in S : ~(<<k, m>> \in less)
  BY <1>2, WFMin
<1>4. ASSUME NEW k \in S PROVE m =< k
  <2>1. ~(k < m)
    BY <1>1, <1>3
  <2> QED BY <2>1
<1> QED BY <1>4

\* A set of naturals that are at most n has a greatest element.
LEMMA Greatest ==
  ASSUME NEW n \in Nat, NEW S \in SUBSET (0 .. n), S # {}
  PROVE  Max(S) \in S /\ \A k \in S : Max(S) >= k
<1> DEFINE below == {d \in 0 .. n : n - d \in S}
<1>1. \A k \in S : n - k \in 0 .. n /\ n - (n - k) = k
  OBVIOUS
<1>2. below \in SUBSET Nat /\ below # {}
  <2>1. PICK k \in S : TRUE
    OBVIOUS
  <2>2. n - k \in below
    BY <1>1
  <2>3. below \subseteq Nat
    OBVIOUS
  <2> QED BY <2>2, <2>3
<1>3. PICK d \in below : \A e \in below : d =< e
  BY <1>2, Least
<1>4. n - d \in S /\ d \in 0 .. n
  OBVIOUS
<1>5. ASSUME NEW k \in S PROVE n - d >= k
  <2>1. n - k \in below
    BY <1>1
  <2>2. d =< n - k
    BY <1>3, <2>1
  <2> QED BY <1>4, <2>2
<1> QED BY <1>4, <1>5 DEF Max

LEMMA FlipOf ==
  ASSUME NEW s \in Seq(Flips), NEW n \in Names, NEW old,
         NEW f \in Flips
  PROVE  /\ Append(s, f) \in Seq(Flips)
         /\ n = f.name => Latest(Append(s, f), n, old) = f.running
         /\ n # f.name => Latest(Append(s, f), n, old) = Latest(s, n, old)
<1> DEFINE u == Append(s, f)
           before == {k \in DOMAIN s : s[k].name = n}
           after == {k \in DOMAIN u : u[k].name = n}
<1>2. /\ u \in Seq(Flips) /\ Len(s) \in Nat /\ Len(u) = Len(s) + 1
      /\ DOMAIN u = 1 .. Len(s) + 1 /\ DOMAIN s = 1 .. Len(s)
      /\ u[Len(s) + 1] = f /\ \A k \in 1 .. Len(s) : u[k] = s[k]
  BY AppendProperties, LenProperties
<1>3. CASE n = f.name
  <2>1. Len(s) + 1 \in after /\ \A k \in after : Len(s) + 1 >= k
    BY <1>2, <1>3
  <2>2. \A k \in after : k \in Nat
    BY <1>2
  <2>3. Max(after) = Len(s) + 1
    BY <2>1, <2>2, <1>2 DEF Max
  <2> QED BY <1>2, <1>3, <2>1, <2>3 DEF Latest
<1>4. CASE n # f.name
  <2>1. after = before
    BY <1>2, <1>4
  <2>2. CASE before = {}
    BY <1>2, <1>4, <2>1, <2>2 DEF Latest
  <2>3. CASE before # {}
    <3>1. before \in SUBSET (0 .. Len(s))
      BY <1>2
    <3>2. Max(before) \in before
      BY <1>2, <2>3, <3>1, Greatest
    <3>3. u[Max(before)] = s[Max(before)]
      BY <1>2, <3>2
    <3> QED BY <1>2, <1>4, <2>1, <2>3, <3>3 DEF Latest
  <2> QED BY <2>2, <2>3
<1> QED BY <1>2, <1>3, <1>4

-----------------------------------------------------------------------------
(* The tracker. *)

\* What Bump makes of the counts and of the flips.
Plus(k, d) == IF k + d < 0 THEN 0 ELSE k + d
Bumped(c, n, d) == [c EXCEPT ![n] = Plus(@, d)]
Flipped(c, s, n, d) ==
    IF c[n] = 0 /\ c[n] + d > 0 THEN Append(s, [name |-> n, running |-> TRUE])
    ELSE IF c[n] > 0 /\ c[n] + d = 0
    THEN Append(s, [name |-> n, running |-> FALSE]) ELSE s

LEMMA BumpIs ==
  ASSUME NEW f, NEW c \in [Names -> Nat], NEW s \in Seq(Flips),
         NEW n \in Names, NEW d \in {1, -1}
  PROVE  Bump(Tracking(f, c, s), n, d)
           = Tracking(f, Bumped(c, n, d), Flipped(c, s, n, d))
<1> DEFINE t == Tracking(f, c, s)
<1>1. t.counts = c /\ t.flips = s /\ t.pids = f
  BY DEF Tracking
<1>2. ASSUME NEW x, NEW y
      PROVE  [t EXCEPT !.counts[n] = x, !.flips = y]
                = Tracking(f, [c EXCEPT ![n] = x], y)
  <2>1. ASSUME NEW a PROVE [t EXCEPT !.counts = a, !.flips = y] = Tracking(f, a, y)
    <3>1. [t EXCEPT !.counts = a] = Tracking(f, a, s)
      BY DEF Tracking
    <3>2. [Tracking(f, a, s) EXCEPT !.flips = y] = Tracking(f, a, y)
      BY DEF Tracking
    <3> QED BY Zenon, <3>1, <3>2
  <2> HIDE DEF t
  <2> QED BY Zenon, <1>1, <2>1
<1>3. ASSUME NEW x
      PROVE  [t EXCEPT !.counts[n] = x] = Tracking(f, [c EXCEPT ![n] = x], s)
  <2>1. ASSUME NEW a PROVE [t EXCEPT !.counts = a] = Tracking(f, a, s)
    BY DEF Tracking
  <2> HIDE DEF t
  <2> QED BY Zenon, <1>1, <2>1
<1> HIDE DEF t
<1>4. CASE c[n] + d < 0
  <2>1. Bump(t, n, d) = [t EXCEPT !.counts[n] = 0]
    BY Zenon, <1>1, <1>4 DEF Bump
  <2>2. ~(c[n] > 0 /\ c[n] + d = 0) /\ ~(c[n] = 0 /\ c[n] + d > 0)
    BY <1>4
  <2> QED BY Zenon, <1>3, <1>4, <2>1, <2>2 DEF Bumped, Plus, Flipped, t
<1>5. CASE ~(c[n] + d < 0)
  <2>1. Bump(t, n, d) = [t EXCEPT !.counts[n] = c[n] + d,
                                  !.flips = Flipped(c, s, n, d)]
    BY Zenon, <1>1, <1>5 DEF Bump, Flipped
  <2> QED BY Zenon, <1>2, <1>5, <2>1 DEF Bumped, Plus, t
<1> QED BY <1>4, <1>5

LEMMA BumpCounts ==
  ASSUME NEW c \in [Names -> Nat], NEW n \in Names, NEW d \in {1, -1}
  PROVE  /\ Bumped(c, n, d) \in [Names -> Nat]
         /\ Bumped(c, n, d)[n] = Plus(c[n], d)
         /\ \A m \in Names : m # n => Bumped(c, n, d)[m] = c[m]
<1>1. c[n] \in Nat /\ c[n] + d \in Int
  OBVIOUS
<1> QED BY <1>1 DEF Bumped, Plus

LEMMA BumpSays ==
  ASSUME NEW old, NEW c \in [Names -> Nat], NEW s \in Seq(Flips),
         NEW n \in Names, NEW d \in {1, -1}
  PROVE  /\ Flipped(c, s, n, d) \in Seq(Flips)
         /\ Says(old, c, s) => Says(old, Bumped(c, n, d), Flipped(c, s, n, d))
<1> DEFINE c2 == Bumped(c, n, d)
           s2 == Flipped(c, s, n, d)
<1>1. c[n] \in Nat /\ c[n] + d \in Int
  OBVIOUS
<1>2. /\ c2 \in [Names -> Nat] /\ c2[n] = Plus(c[n], d)
      /\ \A m \in Names : m # n => c2[m] = c[m]
  BY BumpCounts
<1>3. CASE c[n] = 0 /\ c[n] + d > 0
  <2>1. PICK f \in Flips : f = [name |-> n, running |-> TRUE]
    BY DEF Flips
  <2>2. f.name = n /\ f.running = TRUE
    BY <2>1
  <2>3. s2 = Append(s, f)
    BY Zenon, <1>3, <2>1 DEF Flipped
  <2>4. c2[n] > 0 /\ c2[n] # 0
    BY <1>1, <1>2, <1>3 DEF Plus
  <2> HIDE DEF c2, s2
  <2>5. s2 \in Seq(Flips)
    BY Zenon, <2>3, FlipOf
  <2>6. \A m \in Names : /\ m = n => Latest(s2, m, old[m]) = f.running
                         /\ m # n => Latest(s2, m, old[m]) = Latest(s, m, old[m])
    BY <2>2, <2>3, FlipOf
  <2>7. Says(old, c, s) => Says(old, c2, s2)
    BY <1>2, <2>2, <2>4, <2>6 DEF Says
  <2> QED BY Zenon, <1>2, <2>5, <2>7 DEF c2, s2
<1>4. CASE c[n] > 0 /\ c[n] + d = 0
  <2>1. PICK f \in Flips : f = [name |-> n, running |-> FALSE]
    BY DEF Flips
  <2>2. f.name = n /\ f.running = FALSE /\ ~(c[n] = 0)
    BY <1>1, <1>4, <2>1
  <2>3. s2 = Append(s, f)
    BY Zenon, <1>4, <2>1, <2>2 DEF Flipped
  <2>4. ~(c2[n] > 0)
    BY <1>1, <1>2, <1>4 DEF Plus
  <2> HIDE DEF c2, s2
  <2>5. s2 \in Seq(Flips)
    BY Zenon, <2>3, FlipOf
  <2>6. \A m \in Names : /\ m = n => Latest(s2, m, old[m]) = f.running
                         /\ m # n => Latest(s2, m, old[m]) = Latest(s, m, old[m])
    BY <2>2, <2>3, FlipOf
  <2>7. Says(old, c, s) => Says(old, c2, s2)
    BY <1>2, <2>2, <2>4, <2>6 DEF Says
  <2> QED BY Zenon, <1>2, <2>5, <2>7 DEF c2, s2
<1>5. CASE ~(c[n] = 0 /\ c[n] + d > 0) /\ ~(c[n] > 0 /\ c[n] + d = 0)
  <2>1. s2 = s
    BY Zenon, <1>5 DEF Flipped
  <2>2. (c2[n] > 0 <=> c[n] > 0) /\ (c2[n] = 0 <=> c[n] = 0)
    BY <1>1, <1>2, <1>5 DEF Plus
  <2> HIDE DEF c2, s2
  <2>3. Says(old, c, s) => Says(old, c2, s2)
    BY Zenon, <1>2, <2>1, <2>2 DEF Says
  <2> QED BY Zenon, <1>2, <2>1, <2>3 DEF c2, s2
<1> QED BY <1>3, <1>4, <1>5

\* f with the name n for p.
Over(f, p, n) == [q \in DOMAIN f \cup {p} |-> IF q = p THEN n ELSE f[q]]

LEMMA NamedIs ==
  ASSUME NEW old, NEW f, NEW c, NEW s, Sane(f, c, s), NEW p \in Pids, NEW n \in Names
  PROVE  \E c2, s2 :
           /\ Named(Tracking(f, c, s), p, n) = Tracking(Over(f, p, n), c2, s2)
           /\ Sane(Over(f, p, n), c2, s2)
           /\ Says(old, c, s) => Says(old, c2, s2)
<1> DEFINE t == Tracking(f, c, s)
           g == Over(f, p, n)
<1>1. t.pids = f /\ \A h, a, b : Put(Tracking(h, a, b), p, n) = Tracking(Over(h, p, n), a, b)
  BY DEF Tracking, Put, Over
<1>2. /\ DOMAIN g = DOMAIN f \cup {p} /\ g[p] = n
      /\ \A q \in DOMAIN f \ {p} : g[q] = f[q]
      /\ DOMAIN g \subseteq Pids /\ g \in [DOMAIN g -> Names]
  BY DEF Over, Sane
<1>3. /\ c \in [Names -> Nat] /\ s \in Seq(Flips)
      /\ \A m \in Names : c[m] = Cardinality(Having(f, m)) /\ c[m] \in Nat
      /\ \A m : IsFiniteSet(Having(f, m))
  <2>1. \A m : Having(f, m) \subseteq Pids
    BY DEF Sane, Having
  <2> QED BY <2>1, WatchAssumption, FS_Subset DEF Sane
<1> HIDE DEF g
<1>4. CASE p \notin DOMAIN f
  <2> DEFINE c2 == Bumped(c, n, 1)
             s2 == Flipped(c, s, n, 1)
  <2>0. 1 \in {1, -1}
    OBVIOUS
  <2>1. Named(t, p, n) = Bump(Tracking(g, c, s), n, 1)
    BY <1>1, <1>4 DEF Named, g
  <2>2. Named(t, p, n) = Tracking(g, c2, s2)
    BY <1>3, <2>1, BumpIs
  <2>3. /\ Having(g, n) = Having(f, n) \cup {p} /\ p \notin Having(f, n)
        /\ \A m \in Names \ {n} : Having(g, m) = Having(f, m)
    BY <1>2, <1>4 DEF Having
  <2>4. /\ c2 \in [Names -> Nat] /\ s2 \in Seq(Flips)
        /\ c2[n] = Plus(c[n], 1)
        /\ \A m \in Names : m # n => c2[m] = c[m]
        /\ Says(old, c, s) => Says(old, c2, s2)
    BY <1>3, <2>0, BumpCounts, BumpSays
  <2> HIDE DEF c2, s2
  <2>5. Cardinality(Having(g, n)) = c[n] + 1
    BY <1>3, <2>3, FS_AddElement
  <2>6. c2[n] = c[n] + 1
    BY <1>3, <2>4 DEF Plus
  <2>7. Sane(g, c2, s2)
    BY <1>2, <1>3, <2>3, <2>4, <2>5, <2>6 DEF Sane
  <2> QED BY <2>2, <2>4, <2>7 DEF g
<1>5. CASE p \in DOMAIN f /\ f[p] = n
  <2>1. Named(t, p, n) = t /\ g = f
    BY <1>1, <1>5 DEF Named, Over, Sane, g
  <2> QED BY <2>1 DEF g
<1>6. CASE p \in DOMAIN f /\ f[p] # n
  <2>1. PICK o \in Names : o = f[p]
    BY <1>6 DEF Sane
  <2> DEFINE c1 == Bumped(c, o, -1)
             s1 == Flipped(c, s, o, -1)
             c2 == Bumped(c1, n, 1)
             s2 == Flipped(c1, s1, n, 1)
  <2>2. -1 \in {1, -1} /\ 1 \in {1, -1} /\ o # n
    BY <1>6, <2>1
  <2>3. Bump(t, o, -1) = Tracking(f, c1, s1)
    BY <1>3, <2>2, BumpIs
  <2>4. /\ c1 \in [Names -> Nat] /\ s1 \in Seq(Flips)
        /\ c1[o] = Plus(c[o], -1)
        /\ \A m \in Names : m # o => c1[m] = c[m]
        /\ Says(old, c, s) => Says(old, c1, s1)
    BY <1>3, <2>2, BumpCounts, BumpSays
  <2> HIDE DEF c1, s1
  <2>5. Named(t, p, n) = Bump(Tracking(g, c1, s1), n, 1)
    BY <1>1, <1>6, <2>1, <2>3 DEF Named, g
  <2>6. Named(t, p, n) = Tracking(g, c2, s2)
    BY <2>4, <2>5, BumpIs
  <2>7. /\ c2 \in [Names -> Nat] /\ s2 \in Seq(Flips)
        /\ c2[n] = Plus(c1[n], 1)
        /\ \A m \in Names : m # n => c2[m] = c1[m]
        /\ Says(old, c1, s1) => Says(old, c2, s2)
    BY <2>2, <2>4, BumpCounts, BumpSays
  <2> HIDE DEF c2, s2
  <2>8. /\ Having(g, n) = Having(f, n) \cup {p} /\ p \notin Having(f, n)
        /\ Having(g, o) = Having(f, o) \ {p} /\ p \in Having(f, o)
        /\ \A m \in Names \ {n, o} : Having(g, m) = Having(f, m)
    <3>1. Having(g, n) = Having(f, n) \cup {p} /\ p \notin Having(f, n)
      BY <1>2, <1>6 DEF Having
    <3>2. Having(g, o) = Having(f, o) \ {p} /\ p \in Having(f, o)
      BY <1>2, <1>6, <2>1, <2>2 DEF Having
    <3>3. \A m \in Names \ {n, o} : Having(g, m) = Having(f, m)
      BY <1>2, <1>6, <2>1 DEF Having
    <3> QED BY <3>1, <3>2, <3>3
  <2>9. Cardinality(Having(g, n)) = c[n] + 1
    BY <1>3, <2>8, FS_AddElement, ZenonT(30)
  <2>10. Cardinality(Having(g, o)) = c[o] - 1 /\ IsFiniteSet(Having(g, o))
    BY <1>3, <2>8, FS_RemoveElement
  <2>11. c[o] > 0
    BY <1>3, <2>10, FS_CardinalityType
  <2>12. c2[n] = c[n] + 1 /\ c2[o] = c[o] - 1
         /\ \A m \in Names \ {n, o} : c2[m] = c[m]
    BY <1>3, <2>2, <2>4, <2>7, <2>11 DEF Plus
  <2>13. \A m \in Names : c2[m] = Cardinality(Having(g, m))
    BY <1>3, <2>8, <2>9, <2>10, <2>12
  <2>14. Sane(g, c2, s2)
    BY <1>2, <2>7, <2>13 DEF Sane
  <2> QED BY <2>4, <2>6, <2>7, <2>14 DEF g
<1> QED BY <1>4, <1>5, <1>6

\* f2 is f without p.
Gone(f2, f, p) == DOMAIN f2 = DOMAIN f \ {p} /\ \A q \in DOMAIN f2 : f2[q] = f[q]

LEMMA DisappearIs ==
  ASSUME NEW old, NEW f, NEW c, NEW s, Sane(f, c, s), NEW p \in Pids
  PROVE  \E f2, c2, s2 :
           /\ Disappear(Tracking(f, c, s), p) = Tracking(f2, c2, s2)
           /\ Sane(f2, c2, s2) /\ Gone(f2, f, p)
           /\ Says(old, c, s) => Says(old, c2, s2)
<1> DEFINE t == Tracking(f, c, s)
           g == Restrict(f, DOMAIN f \ {p})
<1>1. CASE p \notin DOMAIN f
  <2>1. Disappear(t, p) = t /\ Gone(f, f, p)
    BY <1>1 DEF Disappear, Tracking, Gone
  <2> QED BY <2>1
<1>2. CASE p \in DOMAIN f
  <2>0. PICK o \in Names : o = f[p]
    BY <1>2 DEF Sane
  <2>1. /\ DOMAIN g = DOMAIN f \ {p} /\ \A q \in DOMAIN g : g[q] = f[q]
        /\ DOMAIN g \subseteq Pids /\ g \in [DOMAIN g -> Names]
    BY DEF Restrict, Sane
  <2>2. /\ c \in [Names -> Nat] /\ s \in Seq(Flips)
        /\ \A m \in Names : c[m] = Cardinality(Having(f, m)) /\ c[m] \in Nat
        /\ IsFiniteSet(Having(f, o))
    <3>1. Having(f, o) \subseteq Pids
      BY DEF Sane, Having
    <3> QED BY <3>1, WatchAssumption, FS_Subset DEF Sane
  <2> DEFINE c2 == Bumped(c, o, -1)
             s2 == Flipped(c, s, o, -1)
  <2>3. Disappear(t, p) = Bump(Tracking(g, c, s), o, -1)
    BY <1>2, <2>0 DEF Disappear, Tracking
  <2> HIDE DEF g
  <2>4. -1 \in {1, -1}
    OBVIOUS
  <2>5. Disappear(t, p) = Tracking(g, c2, s2)
    BY <2>2, <2>3, <2>4, BumpIs
  <2>6. /\ c2 \in [Names -> Nat] /\ s2 \in Seq(Flips)
        /\ c2[o] = Plus(c[o], -1)
        /\ \A m \in Names : m # o => c2[m] = c[m]
        /\ Says(old, c, s) => Says(old, c2, s2)
    BY <2>2, <2>4, BumpCounts, BumpSays
  <2> HIDE DEF c2, s2
  <2>7. /\ Having(g, o) = Having(f, o) \ {p} /\ p \in Having(f, o)
        /\ \A m \in Names \ {o} : Having(g, m) = Having(f, m)
    BY <1>2, <2>0, <2>1 DEF Having
  <2>8. Cardinality(Having(g, o)) = c[o] - 1 /\ IsFiniteSet(Having(g, o))
    BY <2>2, <2>7, FS_RemoveElement
  <2>9. c[o] > 0
    BY <2>2, <2>8, FS_CardinalityType
  <2>10. c2[o] = c[o] - 1
    BY <2>2, <2>6, <2>9 DEF Plus
  <2>11. \A m \in Names : c2[m] = Cardinality(Having(g, m))
    BY <2>2, <2>6, <2>7, <2>8, <2>10
  <2>12. Sane(g, c2, s2)
    BY <2>1, <2>6, <2>11 DEF Sane
  <2>13. Gone(g, f, p)
    BY <2>1 DEF Gone
  <2> QED BY <2>5, <2>6, <2>12, <2>13
<1> QED BY <1>1, <1>2

-----------------------------------------------------------------------------
(* What an event does to the tracker. *)

Types ==
    /\ proc \in [Pids -> Names \cup {None}]
    /\ zombies \subseteq {p \in Pids : proc[p] # None}
    /\ net \in Seq(Events) /\ Len(net) =< MaxEvents
    /\ overrun \in BOOLEAN
    /\ pc \in {"closed", "seeding", "running"}
    /\ listed \subseteq Pids
    /\ Sane(pids, counts, <<>>)
    /\ queue \in Seq(Flips) /\ Len(queue) =< MaxQueueLen
    /\ told \in [Names -> BOOLEAN]
    /\ \A n \in Names : told[n] <=> counts[n] > 0

\* The pids that are tracked and their names, f, once the event e has been handled.
Followed(f, e) ==
    /\ \A q \in Pids \ {e.pid} : /\ q \in DOMAIN f <=> q \in DOMAIN pids
                                 /\ q \in DOMAIN f => f[q] = pids[q]
    /\ e.what = "exit" => e.pid \notin DOMAIN f
    /\ e.what = "comm" => e.pid \in DOMAIN f /\ f[e.pid] = e.name
    /\ e.what = "fork" /\ proc[e.pid] # None => e.pid \in DOMAIN f
    /\ e.what = "exec" /\ proc[e.pid] # None
        => e.pid \in DOMAIN f /\ f[e.pid] = proc[e.pid]

LEMMA TrackerIs == Types => /\ Tracker = Tracking(pids, counts, <<>>)
                            /\ Sane(pids, counts, <<>>) /\ Says(told, counts, <<>>)
<1> SUFFICES ASSUME Types PROVE Says(told, counts, <<>>)
  BY DEF Types, Tracker, Tracking
<1>1. \A n \in Names : Latest(<<>>, n, told[n]) = told[n]
  BY DEF Latest
<1>2. \A n \in Names : told[n] \in BOOLEAN /\ counts[n] \in Nat /\ (told[n] <=> counts[n] > 0)
  BY DEF Types, Sane
<1>3. ASSUME NEW n \in Names
      PROVE  (counts[n] > 0 => told[n] = TRUE) /\ (counts[n] = 0 => told[n] = FALSE)
  <2>1. counts[n] = 0 => ~(counts[n] > 0)
    BY <1>2
  <2> QED BY Zenon, <1>2, <2>1
<1> QED BY Zenon, <1>1, <1>3 DEF Says

LEMMA Renames ==
  ASSUME Types, NEW e \in Events, NEW n \in Names, e.what # "exit",
         e.what = "exec" => proc[e.pid] = n, e.what = "comm" => e.name = n,
         HandleEvent(Tracker, e) = Named(Tracker, e.pid, n)
  PROVE  \E f, c, s : /\ HandleEvent(Tracker, e) = Tracking(f, c, s)
                      /\ Sane(f, c, s) /\ Says(told, c, s) /\ Followed(f, e)
<1>0. e.pid \in Pids
  BY DEF Events, Raw
<1>1. PICK c, s : /\ Named(Tracking(pids, counts, <<>>), e.pid, n)
                       = Tracking(Over(pids, e.pid, n), c, s)
                  /\ Sane(Over(pids, e.pid, n), c, s)
                  /\ Says(told, counts, <<>>) => Says(told, c, s)
  BY <1>0, TrackerIs, NamedIs
<1>2. /\ DOMAIN Over(pids, e.pid, n) = DOMAIN pids \cup {e.pid}
      /\ Over(pids, e.pid, n)[e.pid] = n
      /\ \A q \in DOMAIN pids \ {e.pid} : Over(pids, e.pid, n)[q] = pids[q]
  BY DEF Over
<1>3. Followed(Over(pids, e.pid, n), e)
  BY <1>2 DEF Followed
<1> QED BY <1>1, <1>3, TrackerIs

LEMMA Leaves ==
  ASSUME Types, NEW e \in Events, HandleEvent(Tracker, e) = Tracker,
         e.what \in {"fork", "exec"}, proc[e.pid] = None
  PROVE  \E f, c, s : /\ HandleEvent(Tracker, e) = Tracking(f, c, s)
                      /\ Sane(f, c, s) /\ Says(told, c, s) /\ Followed(f, e)
<1>1. Followed(pids, e)
  BY DEF Followed
<1> QED BY <1>1, TrackerIs

LEMMA Handled ==
  ASSUME Types, NEW e \in Events
  PROVE  \E f, c, s : /\ HandleEvent(Tracker, e) = Tracking(f, c, s)
                      /\ Sane(f, c, s) /\ Says(told, c, s) /\ Followed(f, e)
<1>1. /\ e.pid \in Pids /\ proc[e.pid] \in Names \cup {None}
      /\ e.what \in {"fork", "exec", "comm", "exit"}
  BY DEF Events, Raw, Types
<1>2. CASE e.what = "fork"
  <2>1. HandleEvent(Tracker, e) = IF ForkName(Tracker, e) = None THEN Tracker
                                  ELSE Named(Tracker, e.pid, ForkName(Tracker, e))
    BY <1>2 DEF HandleEvent
  <2>2. Tracker.pids = pids /\ e.parent \in Pids
    BY <1>2 DEF Tracker, Events
  <2>3. ForkName(Tracker, e) \in Names \cup {None}
    BY <1>1, <2>2 DEF ForkName, Types, Sane
  <2>4. ForkName(Tracker, e) = None => proc[e.pid] = None
    BY <1>1, <2>2, WatchAssumption DEF ForkName, Types, Sane
  <2>5. PICK n : n = ForkName(Tracker, e)
    OBVIOUS
  <2>6. CASE n = None
    <3>1. HandleEvent(Tracker, e) = Tracker
      BY <2>1, <2>5, <2>6
    <3> QED BY Zenon, <1>2, <2>4, <2>5, <2>6, <3>1, Leaves
  <2>7. CASE n # None
    <3>1. HandleEvent(Tracker, e) = Named(Tracker, e.pid, n) /\ n \in Names
      BY <2>1, <2>3, <2>5, <2>7
    <3> QED BY <1>2, <3>1, Renames
  <2> QED BY <2>6, <2>7
<1>3. CASE e.what = "exec"
  <2>1. HandleEvent(Tracker, e) = IF proc[e.pid] = None THEN Tracker
                                  ELSE Named(Tracker, e.pid, proc[e.pid])
    BY <1>3 DEF HandleEvent
  <2>2. PICK n : n = proc[e.pid]
    OBVIOUS
  <2>3. CASE n = None
    <3>1. HandleEvent(Tracker, e) = Tracker
      BY <2>1, <2>2, <2>3
    <3> QED BY <1>3, <2>2, <2>3, <3>1, Leaves
  <2>4. CASE n # None
    <3>1. HandleEvent(Tracker, e) = Named(Tracker, e.pid, n) /\ n \in Names
      BY <1>1, <2>1, <2>2, <2>4
    <3> QED BY <1>3, <2>2, <2>4, <3>1, Renames
  <2> QED BY <2>3, <2>4
<1>4. CASE e.what = "comm"
  <2>1. HandleEvent(Tracker, e) = Named(Tracker, e.pid, e.name)
    BY <1>4 DEF HandleEvent
  <2>2. e.name \in Names
    BY <1>4 DEF Events
  <2> QED BY <1>4, <2>1, <2>2, Renames
<1>5. CASE e.what = "exit"
  <2>1. HandleEvent(Tracker, e) = Disappear(Tracker, e.pid)
    BY <1>5 DEF HandleEvent
  <2>2. PICK f, c, s : /\ Disappear(Tracking(pids, counts, <<>>), e.pid) = Tracking(f, c, s)
                       /\ Sane(f, c, s) /\ Gone(f, pids, e.pid)
                       /\ Says(told, counts, <<>>) => Says(told, c, s)
    BY <1>1, TrackerIs, DisappearIs
  <2>3. Followed(f, e)
    BY <1>5, <2>2 DEF Followed, Gone
  <2> QED BY <2>1, <2>2, <2>3, TrackerIs
<1> QED BY <1>1, <1>2, <1>3, <1>4, <1>5

-----------------------------------------------------------------------------
(* Types. *)

LEMMA NothingTracked == Sane(<<>>, [n \in Names |-> 0], <<>>)
<1>1. \A n : Having(<<>>, n) = {}
  BY DEF Having
<1>2. \A n \in Names : [m \in Names |-> 0][n] = Cardinality(Having(<<>>, n))
  BY <1>1, FS_EmptySet
<1> QED BY <1>2 DEF Sane

LEMMA InitTypes == Init => Types
<1> SUFFICES ASSUME Init PROVE Types
  OBVIOUS
<1>3. Sane(pids, counts, <<>>)
  <2>1. pids = <<>> /\ counts = [n \in Names |-> 0]
    BY DEF Init
  <2> QED BY Zenon, NothingTracked, <2>1
<1>4. /\ told \in [Names -> BOOLEAN] /\ \A n \in Names : told[n] <=> counts[n] > 0
  <2>1. \A n \in Names : ~told[n] /\ ~(counts[n] > 0)
    BY DEF Init
  <2> QED BY <2>1 DEF Init
<1>5. net \in Seq(Events) /\ queue \in Seq(Flips) /\ Len(net) =< MaxEvents /\ Len(queue) =< MaxQueueLen
  BY WatchAssumption DEF Init
<1> QED BY <1>3, <1>4, <1>5 DEF Init, Types

LEMMA NewestIs ==
  ASSUME NEW q \in Seq(Flips)
  PROVE  Newest(q) \in Seq(Flips) /\ Len(Newest(q)) =< MaxQueueLen
<1>1. Len(q) \in Nat /\ MaxQueueLen \in Nat
  BY LenProperties, WatchAssumption
<1>2. CASE Len(q) =< MaxQueueLen
  BY <1>2 DEF Newest
<1>3. CASE ~(Len(q) =< MaxQueueLen)
  <2>1. Newest(q) = SubSeq(q, Len(q) - MaxQueueLen + 1, Len(q))
    BY <1>3 DEF Newest
  <2>2. /\ Len(q) - MaxQueueLen + 1 \in Int /\ Len(q) - MaxQueueLen + 1 > 0
        /\ \A i \in (Len(q) - MaxQueueLen + 1) .. Len(q) : q[i] \in Flips
    BY <1>1, <1>3, ElementOfSeq
  <2>3. /\ SubSeq(q, Len(q) - MaxQueueLen + 1, Len(q)) \in Seq(Flips)
        /\ Len(SubSeq(q, Len(q) - MaxQueueLen + 1, Len(q)))
             = IF Len(q) - MaxQueueLen + 1 =< Len(q)
               THEN Len(q) - (Len(q) - MaxQueueLen + 1) + 1 ELSE 0
    BY <1>1, <2>2, SubSeqProperties
  <2> QED BY <1>1, <2>1, <2>3
<1> QED BY <1>2, <1>3

\* What the kernel sends is in the socket's buffer, or is known to be lost.
LEMMA Sends ==
  ASSUME Types, NEW e \in Events, Send(e)
  PROVE  /\ net' \in Seq(Events) /\ Len(net') =< MaxEvents /\ overrun' \in BOOLEAN
         /\ pc # "closed" /\ ~overrun' => ~overrun /\ net' = Append(net, e)
         /\ UNCHANGED <<pc, listed, pids, counts, queue, told>>
<1>1. CASE pc # "closed" /\ Len(net) < MaxEvents
  <2>1. net' = Append(net, e) /\ overrun' = overrun
    BY <1>1 DEF Send
  <2>2. Append(net, e) \in Seq(Events) /\ Len(Append(net, e)) = Len(net) + 1
    BY AppendProperties DEF Types
  <2>3. Len(net) + 1 =< MaxEvents
    BY <1>1, WatchAssumption, LenProperties DEF Types
  <2> QED BY <2>1, <2>2, <2>3 DEF Send, Types, module
<1>2. CASE ~(pc # "closed" /\ Len(net) < MaxEvents)
  BY <1>2 DEF Send, Types, module
<1> QED BY <1>1, <1>2 DEF Send, module

\* The event of each step of the kernel.
LEMMA Sent ==
  ASSUME NEW p \in Pids, NEW c \in Pids, NEW n \in Names
  PROVE  /\ Event("fork", c, p, None) \in Events
         /\ Event("exec", p, None, None) \in Events
         /\ Event("comm", p, None, n) \in Events
         /\ Event("exit", p, None, None) \in Events
BY DEF Event, Events, Raw

\* The event e says what has become of its process and its name.
Tells(e) ==
    /\ e.pid \in Living <=> e.what # "exit"
    /\ e.pid \in Living \ copied => /\ e.what \in {"exec", "comm"}
                                    /\ e.what = "comm" => e.name = proc[e.pid]

\* A step of the kernel is about one process, and its event tells of it.
LEMMA KernelMoves ==
  ASSUME Types, Fork \/ Exec \/ SetComm \/ Exit
  PROVE  \E p \in Pids, e \in Events :
           /\ Send(e) /\ e.pid = p /\ Tells(e)'
           /\ proc' \in [Pids -> Names \cup {None}]
           /\ zombies' \subseteq {q \in Pids : proc'[q] # None}
           /\ \A q \in Pids \ {p} :
                /\ proc'[q] = proc[q] /\ (q \in zombies' <=> q \in zombies)
                /\ (q \in ghosts' <=> q \in ghosts) /\ (q \in copied' <=> q \in copied)
<1>0. /\ proc \in [Pids -> Names \cup {None}] /\ None \notin Names
      /\ zombies \subseteq {p \in Pids : proc[p] # None}
  BY WatchAssumption DEF Types
<1>1. CASE Fork
  <2>1. PICK p \in Living, c \in Pids :
          /\ proc[c] = None /\ proc' = [proc EXCEPT ![c] = proc[p]]
          /\ ghosts' = ghosts \ {c} /\ copied' = copied \cup {c}
          /\ Send(Event("fork", c, p, None)) /\ zombies' = zombies
    BY <1>1 DEF Fork
  <2>2. PICK e \in Events : e = Event("fork", c, p, None)
    BY <2>1, Sent, WatchAssumption DEF Living
  <2>3. e.pid = c /\ e.what = "fork"
    BY <2>2 DEF Event
  <2>4. /\ proc' \in [Pids -> Names \cup {None}] /\ proc'[c] # None
        /\ \A q \in Pids \ {c} : proc'[q] = proc[q]
        /\ c \notin zombies /\ proc[c] = None
    BY <1>0, <2>1 DEF Living
  <2>5. c \in Living' /\ c \in copied'
    BY <2>1, <2>4 DEF Living
  <2>6. Tells(e)'
    BY <2>3, <2>5 DEF Tells
  <2> QED BY <1>0, <2>1, <2>2, <2>3, <2>4, <2>6
<1>2. CASE Exec
  <2>1. PICK p \in Living, n \in Names :
          /\ proc' = [proc EXCEPT ![p] = n] /\ copied' = copied \ {p}
          /\ Send(Event("exec", p, None, None)) /\ UNCHANGED <<zombies, ghosts>>
    BY <1>2 DEF Exec
  <2>2. PICK e \in Events : e = Event("exec", p, None, None)
    BY <2>1, Sent DEF Living
  <2>3. e.pid = p /\ e.what = "exec"
    BY <2>2 DEF Event
  <2>4. /\ proc' \in [Pids -> Names \cup {None}] /\ proc'[p] = n
        /\ \A q \in Pids \ {p} : proc'[q] = proc[q]
        /\ p \notin zombies /\ p \in Pids
    BY <1>0, <2>1 DEF Living
  <2>5. p \in Living'
    BY <1>0, <2>1, <2>4 DEF Living
  <2>6. Tells(e)'
    BY <2>3, <2>5 DEF Tells
  <2> QED BY <1>0, <2>1, <2>2, <2>3, <2>4, <2>6
<1>3. CASE SetComm
  <2>1. PICK p \in Living, n \in Names :
          /\ proc' = [proc EXCEPT ![p] = n] /\ copied' = copied \ {p}
          /\ Send(Event("comm", p, None, n)) /\ UNCHANGED <<zombies, ghosts>>
    BY <1>3 DEF SetComm
  <2>2. PICK e \in Events : e = Event("comm", p, None, n)
    BY <2>1, Sent DEF Living
  <2>3. e.pid = p /\ e.what = "comm" /\ e.name = n
    BY <2>2 DEF Event
  <2>4. /\ proc' \in [Pids -> Names \cup {None}] /\ proc'[p] = n
        /\ \A q \in Pids \ {p} : proc'[q] = proc[q]
        /\ p \notin zombies /\ p \in Pids
    BY <1>0, <2>1 DEF Living
  <2>5. p \in Living'
    BY <1>0, <2>1, <2>4 DEF Living
  <2>6. Tells(e)'
    BY <2>3, <2>4, <2>5 DEF Tells
  <2> QED BY <1>0, <2>1, <2>2, <2>3, <2>4, <2>6
<1>4. CASE Exit
  <2>1. PICK p \in Living :
          /\ zombies' = zombies \cup {p} /\ UNCHANGED <<proc, ghosts, copied>>
          /\ Send(Event("exit", p, None, None))
    BY <1>4 DEF Exit
  <2>2. PICK e \in Events : e = Event("exit", p, None, None)
    BY <2>1, Sent, WatchAssumption DEF Living
  <2>3. e.pid = p /\ e.what = "exit"
    BY <2>2 DEF Event
  <2>4. p \notin Living' /\ p \in Pids /\ proc[p] # None
    BY <2>1 DEF Living
  <2>5. Tells(e)'
    BY <2>3, <2>4 DEF Tells
  <2> QED BY <1>0, <2>1, <2>2, <2>3, <2>4, <2>5
<1> QED BY <1>1, <1>2, <1>3, <1>4

LEMMA KernelTypes ==
  ASSUME Types, Fork \/ Exec \/ SetComm \/ Exit
  PROVE  Types'
BY KernelMoves, Sends DEF Types

LEMMA SeedTypes ==
  ASSUME Types, SeedPid
  PROVE  /\ Types' /\ pc = "seeding" /\ UNCHANGED <<proc, net, overrun, pc>>
         /\ UNCHANGED <<zombies, ghosts, copied>>
         /\ \E p \in listed :
              /\ listed' = listed \ {p}
              /\ pids' = IF proc[p] = None THEN pids ELSE Over(pids, p, proc[p])
<1>1. /\ pc = "seeding" /\ UNCHANGED <<proc, zombies, ghosts, copied, net, overrun, pc, queue>>
  BY DEF SeedPid, kernel
<1>2. PICK p \in listed :
        /\ listed' = listed \ {p}
        /\ LET t == IF proc[p] = None THEN Tracker ELSE Named(Tracker, p, proc[p])
           IN  Track(t) /\ told' = [n \in Names |-> t.counts[n] > 0]
  BY DEF SeedPid
<1>3. \E f, c, s :
        /\ Tracking(f, c, s) = IF proc[p] = None THEN Tracker ELSE Named(Tracker, p, proc[p])
        /\ Sane(f, c, s) /\ f = IF proc[p] = None THEN pids ELSE Over(pids, p, proc[p])
  <2>1. PICK n : n = proc[p]
    OBVIOUS
  <2>2. CASE n = None
    <3> QED BY Zenon, <2>1, <2>2, TrackerIs
  <2>3. CASE n # None
    <3>1. n \in Names /\ p \in Pids
      BY <2>1, <2>3 DEF Types
    <3>2. PICK c, s : /\ Named(Tracking(pids, counts, <<>>), p, n)
                           = Tracking(Over(pids, p, n), c, s)
                      /\ Sane(Over(pids, p, n), c, s)
                      /\ Says(told, counts, <<>>) => Says(told, c, s)
      BY <3>1, TrackerIs, NamedIs
    <3>3. Tracking(Over(pids, p, n), c, s) = IF proc[p] = None THEN Tracker ELSE Named(Tracker, p, proc[p])
      BY <2>1, <2>3, <3>2, TrackerIs
    <3> QED BY Zenon, <2>1, <2>3, <3>2, <3>3
  <2> QED BY <2>2, <2>3
<1>4. PICK f, c, s :
        /\ Tracking(f, c, s) = IF proc[p] = None THEN Tracker ELSE Named(Tracker, p, proc[p])
        /\ Sane(f, c, s) /\ f = IF proc[p] = None THEN pids ELSE Over(pids, p, proc[p])
  BY <1>3
<1>5. pids' = f /\ counts' = c /\ told' = [n \in Names |-> c[n] > 0]
  <2>1. Tracking(f, c, s).pids = f /\ Tracking(f, c, s).counts = c
    BY DEF Tracking
  <2> QED BY Zenon, <1>2, <1>4, <2>1 DEF Track
<1>6. Types'
  <2>1. Sane(f, c, <<>>)
    BY <1>4 DEF Sane
  <2>2. told' \in [Names -> BOOLEAN]
    BY <1>5
  <2>3. \A n \in Names : told'[n] <=> c[n] > 0
    BY Zenon, <1>5
  <2> QED BY <1>1, <1>2, <1>5, <2>1, <2>2, <2>3 DEF Types
<1> QED BY <1>1, <1>2, <1>4, <1>5, <1>6

LEMMA ReceiveTypes ==
  ASSUME Types, Receive
  PROVE  /\ Types' /\ Followed(pids', Head(net)) /\ net # <<>> /\ net' = Tail(net)
         /\ UNCHANGED <<proc, zombies, ghosts, copied, overrun, pc>> /\ pc = "running"
<1> DEFINE e == Head(net)
<1>1. e \in Events /\ Tail(net) \in Seq(Events) /\ Len(Tail(net)) = Len(net) - 1 /\ net # <<>>
  BY HeadTailProperties DEF Types, Receive
<1> HIDE DEF e
<1>2. PICK f, c, s : /\ HandleEvent(Tracker, e) = Tracking(f, c, s)
                     /\ Sane(f, c, s) /\ Says(told, c, s) /\ Followed(f, e)
  BY <1>1, Handled
<1> DEFINE t == Tracking(f, c, s)
<1>3. t.pids = f /\ t.counts = c /\ t.flips = s
  BY DEF Tracking
<1>4. /\ pids' = f /\ counts' = c /\ queue' \in {Newest(queue \o s), queue}
      /\ told' = [n \in Names |-> Latest(s, n, told[n])]
  BY <1>2, <1>3 DEF Receive, Track, e
<1>5. /\ net' = Tail(net) /\ pc = "running"
      /\ UNCHANGED <<proc, zombies, ghosts, copied, overrun, pc, listed>>
  BY DEF Receive, kernel
<1>6. queue' \in Seq(Flips) /\ Len(queue') =< MaxQueueLen
  <2>1. queue \o s \in Seq(Flips)
    BY <1>2, ConcatProperties DEF Types, Sane
  <2> QED BY <1>4, <2>1, NewestIs DEF Types
<1>7. Sane(f, c, <<>>)
  BY <1>2 DEF Sane
<1>8. \A n \in Names : told'[n] \in BOOLEAN /\ (told'[n] <=> c[n] > 0)
  <2>1. ASSUME NEW n \in Names PROVE c[n] > 0 \/ (c[n] = 0 /\ ~(c[n] > 0))
    BY <1>2 DEF Sane
  <2>2. \A n \in Names : told'[n] = Latest(s, n, told[n])
    BY <1>4
  <2> QED BY Zenon, <1>2, <2>1, <2>2 DEF Says
<1>9. told' \in [Names -> BOOLEAN]
  BY <1>4, <1>8
<1>10. Len(net') =< MaxEvents
  BY <1>1, <1>5, LenProperties, WatchAssumption DEF Types
<1>11. Types'
  BY <1>1, <1>4, <1>5, <1>6, <1>7, <1>8, <1>9, <1>10 DEF Types
<1> QED BY <1>1, <1>2, <1>4, <1>5, <1>11 DEF e

LEMMA ListenTypes ==
  ASSUME Types, Listen
  PROVE  /\ Types' /\ pc' = "seeding" /\ net' = <<>> /\ proc' = proc
         /\ pids' = <<>> /\ listed' = {p \in Pids : proc[p] # None}
         /\ zombies' = zombies /\ ghosts' = zombies /\ copied' = {}
<1>1. /\ pids' = <<>> /\ counts' = [n \in Names |-> 0] /\ told' = [n \in Names |-> FALSE]
      /\ net' = <<>> /\ overrun' = FALSE /\ pc' = "seeding"
      /\ listed' = {p \in Pids : proc[p] # None} /\ UNCHANGED <<proc, zombies, queue>>
      /\ ghosts' = zombies /\ copied' = {}
  BY DEF Listen, Track
<1>2. Sane(pids', counts', <<>>)
  BY Zenon, <1>1, NothingTracked
<1>3. told' \in [Names -> BOOLEAN] /\ \A n \in Names : told'[n] <=> counts'[n] > 0
  <2>1. \A n \in Names : ~told'[n] /\ ~(counts'[n] > 0)
    BY <1>1
  <2> QED BY <1>1, <2>1
<1>4. net' \in Seq(Events) /\ Len(net') =< MaxEvents
  BY <1>1, WatchAssumption
<1> QED BY <1>1, <1>2, <1>3, <1>4 DEF Types

LEMMA UpdateTypes ==
  ASSUME Types, Update
  PROVE  /\ Types' /\ UNCHANGED <<kernel, net, overrun, listed, pids>>
         /\ pc' \in {pc, "closed"}
<1>1. queue' \in Seq(Flips) /\ Len(queue') =< MaxQueueLen
  <2>1. queue' = queue \/ queue' = <<>>
    BY DEF Update, Empty, Drain
  <2>2. CASE queue' = queue
    BY <2>2 DEF Types
  <2>3. CASE queue' = <<>>
    BY <2>3, WatchAssumption
  <2> QED BY <2>1, <2>2, <2>3
<1>2. /\ UNCHANGED <<kernel, net, overrun, listed, pids, counts, told>>
      /\ pc' \in {pc, "closed"}
  BY DEF Update, Empty, Drain, Asks
<1> QED BY <1>1, <1>2 DEF Types, kernel

LEMMA ReapTypes ==
  ASSUME Types, Reap
  PROVE  /\ Types' /\ Living' = Living /\ \A p \in Living : proc'[p] = proc[p]
         /\ UNCHANGED <<ghosts, copied, net, overrun, pc, listed, pids>>
<1>1. PICK p \in zombies : /\ zombies' = zombies \ {p}
                            /\ proc' = [proc EXCEPT ![p] = None]
  BY DEF Reap
<1>2. /\ proc' \in [Pids -> Names \cup {None}] /\ p \in Pids
      /\ zombies' \subseteq {q \in Pids : proc'[q] # None}
      /\ proc'[p] = None /\ \A q \in Pids \ {p} : proc'[q] = proc[q]
  BY <1>1 DEF Types
<1>3. Living' = Living /\ \A q \in Living : proc'[q] = proc[q]
  BY <1>1, <1>2 DEF Living
<1> QED BY <1>2, <1>3 DEF Reap, module, Types

LEMMA FailTypes ==
  ASSUME Types, ReceiveFails
  PROVE  Types' /\ pc' = "closed"
<1>1. net' \in Seq(Events) /\ Len(net') =< MaxEvents
  BY WatchAssumption DEF ReceiveFails
<1> QED BY <1>1 DEF Types, ReceiveFails, kernel

LEMMA TypesNext == Types /\ [Next]_vars => Types'
<1> SUFFICES ASSUME Types, [Next]_vars PROVE Types'
  OBVIOUS
<1>1. CASE Fork \/ Exec \/ SetComm \/ Exit
  BY <1>1, KernelTypes
<1>2. CASE Seeded
  BY <1>2 DEF Types, Seeded, kernel
<1>3. CASE UNCHANGED vars
  BY <1>3 DEF Types, vars, kernel
<1>4. CASE ReaderEnds
  BY <1>4 DEF Types, ReaderEnds, kernel
<1> QED BY <1>1, <1>2, <1>3, <1>4, ReapTypes, ListenTypes, SeedTypes, ReceiveTypes, FailTypes, UpdateTypes
        DEF Next, Watcher

LEMMA SpecTypes == Spec => []Types
BY InitTypes, TypesNext, PTL DEF Spec

\* The counts are those of the tracked pids and the flips that went out say
\* what they say, whatever the events are and whenever they are handled.
THEOREM TypeCorrect == Spec => []TypeOK
<1>1. Types => TypeOK
  BY DEF Types, TypeOK, Sane, Having
<1> QED BY <1>1, SpecTypes, PTL

-----------------------------------------------------------------------------
(* The watcher and the kernel. *)

\* The events of q about p, and the last of them.
About(q, p) == {k \in DOMAIN q : q[k].pid = p}
LastAbout(q, p, k) == k \in About(q, p) /\ \A j \in About(q, p) : j =< k

\* The processes with no event in q are in settled; for the others the last
\* event is in right.
Keeps(q, settled, right) == \A p \in Pids :
    /\ About(q, p) = {} => p \in settled
    /\ \A k : LastAbout(q, p, k) => q[k] \in right

\* What is tracked, and while /proc is read also what is left to read.
Known == DOMAIN pids \cup {p \in listed : pc = "seeding"}

\* The processes of which the watcher knows what it should.
Settled == {p \in Pids :
    /\ p \in Living => p \in Known
    /\ p \in Known => p \in Living \cup ghosts
    /\ p \in Living \ copied /\ p \in DOMAIN pids => pids[p] = proc[p]}

Right == {e \in Events : Tells(e)}

InStep == pc # "closed" /\ ~overrun => Keeps(net, Settled, Right)

Watching == Types /\ InStep

\* An event that is sent is the last about its process.
LEMMA AppendKeeps ==
  ASSUME NEW q \in Seq(Events), NEW e \in Events, NEW s, NEW s2, NEW r, NEW r2,
         Keeps(q, s, r), e \in r2,
         \A p \in Pids \ {e.pid} : p \in s => p \in s2,
         \A d \in Events : d.pid # e.pid /\ d \in r => d \in r2
  PROVE  Keeps(Append(q, e), s2, r2)
<1> DEFINE u == Append(q, e)
<1>1. /\ Len(q) \in Nat /\ DOMAIN q = 1 .. Len(q) /\ DOMAIN u = 1 .. Len(q) + 1
      /\ u[Len(q) + 1] = e /\ \A k \in 1 .. Len(q) : u[k] = q[k] /\ q[k] \in Events
  <2>1. u \in Seq(Events) /\ Len(u) = Len(q) + 1
    BY AppendProperties
  <2> QED BY <2>1, AppendProperties, LenProperties, ElementOfSeq
<1> HIDE DEF u
<1>2. ASSUME NEW p \in Pids
      PROVE  /\ About(u, p) = {} => p \in s2
             /\ \A k : LastAbout(u, p, k) => u[k] \in r2
  <2>1. CASE p = e.pid
    <3>1. Len(q) + 1 \in About(u, p)
      BY <1>1, <2>1 DEF About
    <3>2. ASSUME NEW k, LastAbout(u, p, k) PROVE k = Len(q) + 1
      BY <1>1, <3>1, <3>2 DEF About, LastAbout
    <3> QED BY <1>1, <3>1, <3>2
  <2>2. CASE p # e.pid
    <3>1. About(u, p) = About(q, p) /\ \A k \in About(q, p) : u[k] = q[k]
      BY <1>1, <2>2 DEF About
    <3>2. \A k \in About(q, p) : q[k] \in Events /\ q[k].pid = p
      BY <1>1 DEF About
    <3>3. ASSUME NEW k, LastAbout(u, p, k) PROVE u[k] \in r2
      <4>1. LastAbout(q, p, k) /\ k \in About(q, p)
        BY <3>1, <3>3 DEF LastAbout
      <4>2. q[k] \in r
        BY <4>1 DEF Keeps
      <4> QED BY <2>2, <3>1, <3>2, <4>1, <4>2
    <3> QED BY <2>2, <3>1, <3>3 DEF Keeps
  <2> QED BY <2>1, <2>2
<1> QED BY <1>2 DEF Keeps, u

\* When the event that is handled is the last about its process, that one is settled.
LEMMA TailKeeps ==
  ASSUME NEW q \in Seq(Events), q # <<>>, NEW e, e = Head(q),
         NEW s, NEW s2, NEW r, Keeps(q, s, r), e \in r => e.pid \in s2,
         \A p \in Pids \ {e.pid} : p \in s => p \in s2
  PROVE  Keeps(Tail(q), s2, r)
<1> DEFINE u == Tail(q)
<1>1. /\ Len(q) \in Nat /\ Len(q) > 0 /\ DOMAIN q = 1 .. Len(q) /\ DOMAIN u = 1 .. Len(q) - 1
      /\ q[1] = e /\ \A k \in 1 .. Len(q) - 1 : u[k] = q[k + 1]
  <2>1. u \in Seq(Events) /\ Len(u) = Len(q) - 1
    BY HeadTailProperties
  <2>2. q[1] = e /\ Len(q) # 0
    BY EmptySeq
  <2> QED BY <2>1, <2>2, HeadTailProperties, LenProperties
<1> HIDE DEF u
<1>2. ASSUME NEW p \in Pids
      PROVE  /\ About(u, p) = {} => p \in s2
             /\ \A k : LastAbout(u, p, k) => u[k] \in r
  <2>1. \A k \in 1 .. Len(q) - 1 : k \in About(u, p) <=> k + 1 \in About(q, p)
    BY <1>1 DEF About
  <2>2. ASSUME NEW j \in About(q, p) PROVE j = 1 \/ (j - 1 \in About(u, p) /\ j - 1 \in Nat)
    <3>1. j \in 1 .. Len(q)
      BY <1>1 DEF About
    <3>2. CASE j # 1
      <4>1. j - 1 \in 1 .. Len(q) - 1 /\ (j - 1) + 1 = j
        BY <1>1, <3>1, <3>2
      <4> QED BY <2>1, <4>1
    <3> QED BY <3>2
  <2>3. ASSUME NEW k, LastAbout(u, p, k) PROVE u[k] \in r
    <3>1. k \in 1 .. Len(q) - 1
      BY <1>1, <2>3 DEF About, LastAbout
    <3>2. k + 1 \in About(q, p) /\ u[k] = q[k + 1]
      BY <1>1, <2>1, <2>3, <3>1 DEF LastAbout
    <3>3. ASSUME NEW j \in About(q, p) PROVE j =< k + 1
      <4>1. j = 1 \/ (j - 1 =< k /\ j - 1 \in Nat)
        BY <2>2, <2>3 DEF LastAbout
      <4>2. j \in Nat
        BY <1>1 DEF About
      <4> QED BY <3>1, <4>1, <4>2
    <3> QED BY <3>2, <3>3 DEF Keeps, LastAbout
  <2>4. ASSUME About(u, p) = {} PROVE p \in s2
    <3>1. \A j \in About(q, p) : j = 1
      BY <2>2, <2>4
    <3>2. CASE p = e.pid
      <4>1. LastAbout(q, p, 1)
        BY <1>1, <3>1, <3>2 DEF About, LastAbout
      <4> QED BY <1>1, <3>2, <4>1 DEF Keeps
    <3>3. CASE p # e.pid
      <4>1. About(q, p) = {}
        BY <1>1, <3>1, <3>3 DEF About
      <4> QED BY <3>3, <4>1 DEF Keeps
    <3> QED BY <3>2, <3>3
  <2> QED BY <2>3, <2>4
<1> QED BY <1>2 DEF Keeps, u

LEMMA InitWatching == Init => Watching
BY InitTypes DEF Watching, InStep, Init

LEMMA KernelWatching ==
  ASSUME Watching, Fork \/ Exec \/ SetComm \/ Exit, pc' # "closed", ~overrun'
  PROVE  Keeps(net', Settled', Right')
<1>1. Types
  BY DEF Watching
<1>2. PICK p \in Pids, e \in Events :
        /\ Send(e) /\ e.pid = p /\ Tells(e)'
        /\ \A q \in Pids \ {p} :
             /\ proc'[q] = proc[q] /\ (q \in zombies' <=> q \in zombies)
             /\ (q \in ghosts' <=> q \in ghosts) /\ (q \in copied' <=> q \in copied)
  BY <1>1, KernelMoves
<1>3. /\ pc # "closed" /\ ~overrun /\ net' = Append(net, e) /\ Known' = Known
      /\ net \in Seq(Events) /\ pids' = pids
  BY <1>1, <1>2, Sends DEF Types, Known
<1>4. Keeps(net, Settled, Right)
  BY <1>3 DEF Watching, InStep
<1>5. \A q \in Pids \ {p} : q \in Living' <=> q \in Living
  BY <1>2 DEF Living
<1>6. \A q \in Pids \ {p} : q \in Settled => q \in Settled'
  BY <1>2, <1>3, <1>5 DEF Settled
<1>7. ASSUME NEW d \in Events, d.pid # p, d \in Right PROVE d \in Right'
  <2>1. d.pid \in Pids \ {p} /\ Tells(d)
    BY <1>7 DEF Right, Events, Raw
  <2> QED BY <1>2, <1>5, <2>1 DEF Right, Tells
<1>8. e \in Right'
  BY <1>2 DEF Right
<1>9. Keeps(Append(net, e), Settled', Right')
  BY <1>2, <1>3, <1>4, <1>6, <1>7, <1>8, AppendKeeps
<1> QED BY <1>3, <1>9

LEMMA ListenWatching ==
  ASSUME Watching, Listen
  PROVE  Keeps(net', Settled', Right')
<1>1. /\ Types /\ net' = <<>> /\ pids' = <<>> /\ Living' = Living
      /\ Known' = {p \in Pids : proc[p] # None} /\ ghosts' = zombies
  BY ListenTypes DEF Watching, Living, Known
<1>2. Pids \subseteq Settled'
  BY <1>1 DEF Settled, Living
<1>3. \A p : About(<<>>, p) = {}
  BY DEF About
<1> QED BY <1>1, <1>2, <1>3 DEF Keeps, LastAbout

LEMMA SeedWatching ==
  ASSUME Watching, SeedPid, ~overrun'
  PROVE  Keeps(net', Settled', Right')
<1>1. /\ pc = "seeding" /\ UNCHANGED <<proc, net, overrun, pc>>
      /\ UNCHANGED <<zombies, ghosts, copied>>
      /\ \E p \in listed :
           /\ listed' = listed \ {p}
           /\ pids' = IF proc[p] = None THEN pids ELSE Over(pids, p, proc[p])
  BY SeedTypes DEF Watching
<1>2. Keeps(net, Settled, Right)
  BY <1>1 DEF Watching, InStep
<1>3. PICK p \in listed :
        /\ listed' = listed \ {p}
        /\ pids' = IF proc[p] = None THEN pids ELSE Over(pids, p, proc[p])
  BY <1>1
<1>4. net' = net /\ Living' = Living /\ Right' = Right
  BY <1>1 DEF Living, Right, Tells
<1>5. /\ DOMAIN pids' = DOMAIN pids \cup {q \in {p} : proc[q] # None}
      /\ \A q \in DOMAIN pids' : IF q = p /\ proc[p] # None THEN pids'[q] = proc[q]
                                 ELSE pids'[q] = pids[q]
  BY <1>3 DEF Over
<1>6. /\ Known = DOMAIN pids \cup listed /\ Known' = DOMAIN pids' \cup listed'
  BY <1>1 DEF Known
<1>7. ASSUME NEW q \in Settled PROVE q \in Settled'
  <2>1. q \in Living => q \in Known'
    BY <1>3, <1>5, <1>6 DEF Settled, Living
  <2>2. q \in Known' => q \in Living \cup ghosts
    BY <1>3, <1>5, <1>6 DEF Settled
  <2>3. q \in Living \ copied /\ q \in DOMAIN pids' => pids'[q] = proc[q]
    BY <1>5 DEF Settled
  <2> QED BY <1>1, <1>4, <2>1, <2>2, <2>3 DEF Settled
<1> QED BY <1>2, <1>4, <1>7 DEF Keeps

LEMMA ReceiveWatching ==
  ASSUME Watching, Receive, ~overrun'
  PROVE  Keeps(net', Settled', Right')
<1>1. /\ Followed(pids', Head(net)) /\ net # <<>> /\ net' = Tail(net)
      /\ UNCHANGED <<proc, zombies, ghosts, copied, overrun, pc>> /\ pc = "running"
  BY ReceiveTypes DEF Watching
<1>2. Keeps(net, Settled, Right) /\ net \in Seq(Events)
  BY <1>1 DEF Watching, InStep, Types
<1>3. PICK e : e = Head(net)
  OBVIOUS
<1>4. e.pid \in Pids /\ e.what \in {"fork", "exec", "comm", "exit"}
  BY <1>1, <1>2, <1>3, HeadTailProperties DEF Events, Raw
<1>5. /\ Known = DOMAIN pids /\ Known' = DOMAIN pids' /\ Living' = Living
      /\ Right' = Right
  BY <1>1 DEF Known, Living, Right, Tells
<1>6. \A q \in Pids \ {e.pid} : q \in Settled => q \in Settled'
  BY <1>1, <1>3, <1>5 DEF Followed, Settled
<1>7. ASSUME e \in Right PROVE e.pid \in Settled'
  <2>1. Tells(e) /\ Followed(pids', e)
    BY <1>1, <1>3, <1>7 DEF Right
  <2>2. e.pid \in Living => proc[e.pid] # None
    BY DEF Living
  <2>3. e.pid \in Living <=> e.pid \in DOMAIN pids'
    BY <1>4, <2>1, <2>2 DEF Tells, Followed
  <2>4. e.pid \in Living \ copied => pids'[e.pid] = proc[e.pid]
    BY <2>1, <2>2 DEF Tells, Followed
  <2> QED BY <1>1, <1>4, <1>5, <2>3, <2>4 DEF Settled
<1>8. Keeps(Tail(net), Settled', Right)
  BY <1>1, <1>2, <1>3, <1>6, <1>7, TailKeeps
<1> QED BY <1>1, <1>5, <1>8

LEMMA NextWatching == Watching /\ [Next]_vars => Watching'
<1> SUFFICES ASSUME Watching, [Next]_vars, pc' # "closed", ~overrun'
             PROVE  Keeps(net', Settled', Right')
  BY TypesNext DEF Watching, InStep
<1>1. CASE Seeded \/ Update \/ ReaderEnds \/ UNCHANGED vars
  <2>1. /\ UNCHANGED <<proc, zombies, ghosts, copied, net, overrun, pids, listed>>
        /\ pc # "closed"
        /\ pc' = pc \/ listed = {}
    BY <1>1, UpdateTypes DEF Watching, Seeded, ReaderEnds, vars, kernel
  <2>2. Known' = Known /\ Living' = Living
    BY <2>1 DEF Living, Known
  <2>3. Settled' = Settled /\ Right' = Right
    BY <2>1, <2>2 DEF Settled, Right, Tells
  <2> QED BY <2>1, <2>3 DEF Watching, InStep
<1>2. CASE Reap
  <2>1. /\ Living' = Living /\ \A p \in Living : proc'[p] = proc[p]
        /\ UNCHANGED <<ghosts, copied, net, overrun, pc, listed, pids>>
    BY <1>2, ReapTypes DEF Watching
  <2>2. Known' = Known
    BY <2>1 DEF Known
  <2>3. Settled' = Settled
    BY <2>1, <2>2 DEF Settled
  <2>4. Right' = Right
    BY <2>1 DEF Right, Tells
  <2> QED BY <2>1, <2>3, <2>4 DEF Watching, InStep
<1>3. CASE ReceiveFails
  BY <1>3, FailTypes DEF Watching
<1> QED BY <1>1, <1>2, <1>3, KernelWatching, ListenWatching, SeedWatching, ReceiveWatching
        DEF Next, Watcher

\* When the watcher has read all events and lost none it tracks every process
\* that lives, and no other but those that were zombies when it began to listen,
\* and has the names of those that have set one since they were forked or were
\* there before, even though it reads /proc and names late, while processes come,
\* go and stay on as zombies.
THEOREM WatchesTheLiving == Spec => []TracksTheLiving
<1>1. Watching => TracksTheLiving
  <2> SUFFICES ASSUME Watching, pc = "running", net = <<>>, ~overrun
               PROVE  /\ Living \subseteq DOMAIN pids
                      /\ DOMAIN pids \subseteq Living \cup ghosts
                      /\ \A p \in Living \ copied : pids[p] = proc[p]
    BY DEF TracksTheLiving
  <2>1. \A p : About(net, p) = {}
    BY DEF About
  <2>2. Known = DOMAIN pids /\ DOMAIN pids \subseteq Pids /\ Living \subseteq Pids
    BY DEF Known, Watching, Types, Sane, Living
  <2>3. Pids \subseteq Settled
    BY <2>1 DEF Watching, InStep, Keeps
  <2> QED BY <2>2, <2>3 DEF Settled
<1>2. Spec => []Watching
  BY InitWatching, NextWatching, PTL DEF Spec
<1> QED BY <1>1, <1>2, PTL

=============================================================================
