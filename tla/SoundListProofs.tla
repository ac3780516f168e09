-------------------------- MODULE SoundListProofs --------------------------
(***************************************************************************)
(* Proofs about SoundList, for a pool of any size and any number of        *)
(* clients. What is found by following links cannot be said by a formula,  *)
(* so the invariant ranks the sounds: a list is a set of them that the     *)
(* links lead through from the lowest rank to the highest.                 *)
(***************************************************************************)
EXTENDS SoundList, FiniteSetTheorems, WellFoundedInduction, TLAPS

USE PoolAssumption

\* A list: its links lead from its head, that has the lowest rank, to the sound
\* of the next rank, and from that of the highest rank nowhere.
Chain(next, head, A, r) ==
    /\ A \subseteq Sounds /\ r \in [Sounds -> Int]
    /\ \A x, y \in A : r[x] = r[y] => x = y
    /\ head = SOUNDLIST_EMPTY => A = {}
    /\ head # SOUNDLIST_EMPTY => head \in A /\ \A y \in A : r[head] <= r[y]
    /\ \A x \in A :
         /\ next[x] = SOUNDLIST_EMPTY => \A y \in A : r[y] <= r[x]
         /\ next[x] # SOUNDLIST_EMPTY =>
              /\ next[x] \in A /\ r[x] < r[next[x]]
              /\ \A y \in A : r[y] <= r[x] \/ r[next[x]] <= r[y]

\* The active sounds A and the free ones F. The clients' sounds come last among
\* the active ones, where Reset may cut them off.
Partition(l, A, F, r, q) ==
    /\ Chain(l.m_iNext, l.m_iActiveSound, A, r)
    /\ Chain(l.m_iNext, l.m_iFreeSound, F, q)
    /\ A \cap F = {} /\ F \cap ClientSounds = {}
    /\ Sounds \ ClientSounds \subseteq A \cup F
    /\ \A c \in A \cap ClientSounds, x \in A : r[c] <= r[x] => x \in ClientSounds

Partitioned(l) ==
    \E A, F \in SUBSET Sounds, r, q \in [Sounds -> Int] : Partition(l, A, F, r, q)

SoundInv ==
    /\ TypeOK
    /\ Partitioned(lists)
    /\ \A c \in ClientSounds : expires[c] = "never"

\* What leads to s, an active sound or the end: the one before, or the head.
Leads(l, A, p, s) ==
    /\ p = SOUNDLIST_EMPTY => l.m_iActiveSound = s
    /\ p # SOUNDLIST_EMPTY => p \in A /\ l.m_iNext[p] = s

\* What is ranked from s on.
Onward(A, r, s) == {y \in A : r[s] <= r[y]}

\* After k rounds Think has come to an active sound, or to the end, and knows
\* the one before; it has passed k sounds, freed those that were expired and no
\* others.
WalkInv(w, k) ==
    \E A, F \in SUBSET Sounds, r, q \in [Sounds -> Int] :
        /\ Partition(w.l, A, F, r, q)
        /\ w.iSound \in A \cup {SOUNDLIST_EMPTY}
        /\ Leads(w.l, A, w.iPreviousSound, w.iSound)
        /\ w.iSound # SOUNDLIST_EMPTY =>
              Cardinality(Onward(A, r, w.iSound)) + k <= MAX_WORLD_SOUNDS
        /\ \A x \in A : expires[x] = "now" => w.iSound # SOUNDLIST_EMPTY /\ r[w.iSound] <= r[x]
        /\ \A x \in SoundsOf(ActiveList(lists)) : expires[x] # "now" => x \in A

-----------------------------------------------------------------------------
(* Numbers and recursive functions.                                        *)

\* The links' numbers.
LEMMA Numbers ==
    /\ Sounds \subseteq Nat /\ ClientSounds \subseteq Sounds
    /\ SOUNDLIST_EMPTY \notin Sounds /\ SOUNDLIST_EMPTY \in Links
    /\ Sounds \subseteq Links /\ Links \ {SOUNDLIST_EMPTY} = Sounds
  BY DEF Sounds, ClientSounds, Links, SOUNDLIST_EMPTY

\* A set of numbers has a smallest one.
LEMMA Smallest ==
    ASSUME NEW S, S \subseteq Nat, S # {}
    PROVE  \E i \in S : \A j \in S : i <= j
<1>1. IsWellFoundedOn(OpToRel(<, Nat), Nat)
  BY NatLessThanWellFounded
<1>2. PICK i \in S : \A j \in S : ~(<<j, i>> \in OpToRel(<, Nat))
  BY <1>1, WFMin
<1>3. \A j \in S : ~(j < i)
  BY <1>2 DEF OpToRel
<1> QED
  BY <1>3

\* A set of numbers that has 0, and each number after one it has, has all.
LEMMA Upward ==
    ASSUME NEW n \in Nat, NEW T, 0 \in T,
           \A k \in Nat : k < n /\ k \in T => k + 1 \in T
    PROVE  \A k \in 0..n : k \in T
<1> DEFINE S == {k \in 0..n : k \notin T}
<1> SUFFICES ASSUME S # {} PROVE FALSE
  OBVIOUS
<1>1. PICK i \in S : \A j \in S : i <= j
  <2>1. S \subseteq Nat
    OBVIOUS
  <2> HIDE DEF S
  <2> QED
    BY <2>1, Smallest
<1>2. i \in 0..n /\ i # 0
  OBVIOUS
<1>3. i - 1 \in T
  <2>1. i - 1 \in 0..n /\ i - 1 < i
    BY <1>2
  <2> QED
    BY <1>1, <2>1
<1>4. i \in T
  <2>1. i - 1 \in Nat /\ i - 1 < n /\ (i - 1) + 1 = i
    BY <1>2
  <2> QED
    BY <1>3, <2>1
<1> QED
  BY <1>4

\* A function may be defined by what it is at 0 and by a step.
Definable(S, init, step, n) ==
    \E f \in [0..n -> S] : \A k \in 0..n : f[k] = IF k = 0 THEN init ELSE step[f[k - 1]]

LEMMA Recursion ==
    ASSUME NEW S, NEW init \in S, NEW step \in [S -> S], NEW n \in Nat
    PROVE  Definable(S, init, step, n)
<1> DEFINE T == {m \in Nat : Definable(S, init, step, m)}
<1>1. 0 \in T
  <2> DEFINE f == [k \in 0..0 |-> init]
  <2>1. f \in [0..0 -> S] /\ \A k \in 0..0 : f[k] = IF k = 0 THEN init ELSE step[f[k - 1]]
    OBVIOUS
  <2> HIDE DEF f
  <2> QED
    BY <2>1 DEF Definable
<1>2. ASSUME NEW m \in Nat, Definable(S, init, step, m)
      PROVE  Definable(S, init, step, m + 1)
  <2>1. PICK f \in [0..m -> S] : \A k \in 0..m : f[k] = IF k = 0 THEN init ELSE step[f[k - 1]]
    BY <1>2 DEF Definable
  <2> DEFINE g == [k \in 0..(m + 1) |-> IF k <= m THEN f[k] ELSE step[f[m]]]
  <2>2. g \in [0..(m + 1) -> S]
    OBVIOUS
  <2>3. ASSUME NEW k \in 0..(m + 1)
        PROVE  g[k] = IF k = 0 THEN init ELSE step[g[k - 1]]
    <3>1. CASE k = 0
      BY <2>1, <3>1
    <3>2. CASE k # 0 /\ k <= m
      <4>1. f[k] = step[f[k - 1]] /\ k - 1 \in 0..m
        BY <2>1, <3>2
      <4> QED
        BY <3>2, <4>1
    <3>3. CASE k = m + 1
      BY <3>3
    <3> QED
      BY <3>1, <3>2, <3>3
  <2> HIDE DEF g
  <2> QED
    BY <2>2, <2>3 DEF Definable
<1>3. n \in T
  <2>1. \A k \in Nat : k \in T => k + 1 \in T
    BY <1>2
  <2> HIDE DEF T
  <2>2. \A k \in 0..n : k \in T
    BY <1>1, <2>1, Upward
  <2> QED
    BY <2>2
<1> QED
  BY <1>3

\* Following the links of a pool gives links.
LEMMA ListFromIs ==
    ASSUME NEW l \in Pools, NEW first \in Links
    PROVE  LET list == ListFrom(l, first) IN
           /\ list \in [0..MAX_WORLD_SOUNDS -> Links] /\ list[0] = first
           /\ \A k \in Nat : k < MAX_WORLD_SOUNDS =>
                  list[k + 1] = IF list[k] = SOUNDLIST_EMPTY THEN SOUNDLIST_EMPTY
                                ELSE l.m_iNext[list[k]]
<1> DEFINE After(s) == IF s = SOUNDLIST_EMPTY THEN SOUNDLIST_EMPTY ELSE l.m_iNext[s]
           step == [s \in Links |-> After(s)]
           Def(f) == [k \in 0..MAX_WORLD_SOUNDS |-> IF k = 0 THEN first ELSE After(f[k - 1])]
<1>1. \A s \in Links : After(s) \in Links
  BY Numbers DEF Pools
<1>2. step \in [Links -> Links]
  BY <1>1
<1>3. PICK f \in [0..MAX_WORLD_SOUNDS -> Links] :
        \A k \in 0..MAX_WORLD_SOUNDS : f[k] = IF k = 0 THEN first ELSE step[f[k - 1]]
  <2>1. MAX_WORLD_SOUNDS \in Nat
    OBVIOUS
  <2> HIDE DEF step
  <2>2. Definable(Links, first, step, MAX_WORLD_SOUNDS)
    BY <1>2, <2>1, Recursion
  <2> QED
    BY <2>2 DEF Definable
<1>4. f = Def(f)
  <2>1. \A k \in 0..MAX_WORLD_SOUNDS : k # 0 => f[k - 1] \in Links
    <3>1. \A k \in 0..MAX_WORLD_SOUNDS : k # 0 => k - 1 \in 0..MAX_WORLD_SOUNDS
      OBVIOUS
    <3> QED
      BY <3>1
  <2>2. \A k \in 0..MAX_WORLD_SOUNDS : k # 0 => step[f[k - 1]] = After(f[k - 1])
    BY <2>1
  <2> HIDE DEF step, After
  <2> QED
    BY <1>3, <2>2
<1>5. ListFrom(l, first) = Def(ListFrom(l, first))
  <2>1. ListFrom(l, first) = CHOOSE list : list = Def(list)
    BY DEF ListFrom
  <2> HIDE DEF Def
  <2> QED
    BY <1>4, <2>1
<1> DEFINE list == ListFrom(l, first)
<1> HIDE DEF list
<1>6. /\ list[0] = first
      /\ \A k \in Nat : k < MAX_WORLD_SOUNDS => list[k + 1] = After(list[k])
  <2> HIDE DEF After
  <2>1. \A k \in 0..MAX_WORLD_SOUNDS : list[k] = IF k = 0 THEN first ELSE After(list[k - 1])
    BY <1>5 DEF list
  <2>2. \A k \in Nat : k < MAX_WORLD_SOUNDS =>
            k + 1 \in 0..MAX_WORLD_SOUNDS /\ k + 1 # 0 /\ (k + 1) - 1 = k
    OBVIOUS
  <2> QED
    BY <2>1, <2>2
<1>7. \A k \in 0..MAX_WORLD_SOUNDS : list[k] \in Links
  <2> DEFINE T == {k \in Nat : list[k] \in Links}
  <2>1. 0 \in T
    BY <1>6
  <2>2. \A k \in Nat : k < MAX_WORLD_SOUNDS /\ k \in T => k + 1 \in T
    BY <1>1, <1>6
  <2>3. \A k \in 0..MAX_WORLD_SOUNDS : k \in T
    <3> HIDE DEF T
    <3> QED
      BY <2>1, <2>2, Upward
  <2> QED
    BY <2>3
<1>8. list \in [0..MAX_WORLD_SOUNDS -> Links]
  BY <1>5, <1>7 DEF list
<1> QED
  BY <1>6, <1>8 DEF list

-----------------------------------------------------------------------------
(* What the list operations do to a chain.                                 *)

\* A list depends on the links of its own sounds only.
LEMMA SameLinks ==
    ASSUME NEW next, NEW next2, NEW head, NEW A, NEW r, Chain(next, head, A, r),
           \A x \in A : next2[x] = next[x]
    PROVE  Chain(next2, head, A, r)
  BY DEF Chain

\* A sound may be put in front.
Ranked(next, s, A, r) ==
    \E r2 \in [Sounds -> Int] : /\ Chain(next, s, A \cup {s}, r2)
                               /\ \A x \in A : r2[x] = r[x] /\ r2[s] < r[x]

LEMMA Push ==
    ASSUME NEW next, NEW next2, NEW head, NEW A, NEW r, Chain(next, head, A, r),
           NEW s \in Sounds, s \notin A, next2[s] = head, \A x \in A : next2[x] = next[x]
    PROVE  Ranked(next2, s, A, r)
<1> DEFINE low == IF head = SOUNDLIST_EMPTY THEN 0 ELSE r[head] - 1
           r2 == [r EXCEPT ![s] = low]
<1>1. A \subseteq Sounds /\ r \in [Sounds -> Int]
  BY DEF Chain
<1>2. low \in Int /\ \A x \in A : r[x] \in Int /\ low < r[x]
  <2>1. CASE head = SOUNDLIST_EMPTY
    BY <2>1 DEF Chain
  <2>2. CASE head # SOUNDLIST_EMPTY
    <3>1. head \in A /\ \A x \in A : r[head] <= r[x]
      BY <2>2 DEF Chain
    <3>2. \A x \in A : r[x] \in Int
      BY <1>1
    <3> QED
      BY <2>2, <3>1, <3>2
  <2> QED
    BY <2>1, <2>2
<1>3. r2 \in [Sounds -> Int] /\ r2[s] = low /\ \A x \in A : r2[x] = r[x]
  <2> HIDE DEF low
  <2> QED
    BY <1>1, <1>2
<1> HIDE DEF r2, low
<1>4. \A x, y \in A \cup {s} : r2[x] = r2[y] => x = y
  BY <1>2, <1>3 DEF Chain
<1>5. s # SOUNDLIST_EMPTY /\ \A y \in A \cup {s} : r2[s] <= r2[y]
  BY <1>2, <1>3, Numbers
<1>6. ASSUME NEW x \in A
      PROVE  /\ next2[x] = SOUNDLIST_EMPTY => \A y \in A \cup {s} : r2[y] <= r2[x]
             /\ next2[x] # SOUNDLIST_EMPTY =>
                  /\ next2[x] \in A \cup {s} /\ r2[x] < r2[next2[x]]
                  /\ \A y \in A \cup {s} : r2[y] <= r2[x] \/ r2[next2[x]] <= r2[y]
  <2>1. CASE next2[x] = SOUNDLIST_EMPTY
    <3>1. \A y \in A : r[y] <= r[x]
      BY <2>1 DEF Chain
    <3> QED
      BY <1>2, <1>3, <2>1, <3>1
  <2>2. CASE next2[x] # SOUNDLIST_EMPTY
    <3>1. /\ next2[x] \in A /\ r[x] < r[next2[x]]
          /\ \A y \in A : r[y] <= r[x] \/ r[next2[x]] <= r[y]
      BY <2>2 DEF Chain
    <3> QED
      BY <1>2, <1>3, <2>2, <3>1
  <2> QED
    BY <2>1, <2>2
<1>7. /\ next2[s] = SOUNDLIST_EMPTY => \A y \in A \cup {s} : r2[y] <= r2[s]
      /\ next2[s] # SOUNDLIST_EMPTY =>
           /\ next2[s] \in A \cup {s} /\ r2[s] < r2[next2[s]]
           /\ \A y \in A \cup {s} : r2[y] <= r2[s] \/ r2[next2[s]] <= r2[y]
  <2>1. CASE head = SOUNDLIST_EMPTY
    BY <1>2, <1>3, <2>1 DEF Chain
  <2>2. CASE head # SOUNDLIST_EMPTY
    <3>1. head \in A /\ \A x \in A : r[head] <= r[x]
      BY <2>2 DEF Chain
    <3> QED
      BY <1>2, <1>3, <2>2, <3>1
  <2> QED
    BY <2>1, <2>2
<1>8. Chain(next2, s, A \cup {s}, r2)
  <2>1. \A x \in A \cup {s} :
          /\ next2[x] = SOUNDLIST_EMPTY => \A y \in A \cup {s} : r2[y] <= r2[x]
          /\ next2[x] # SOUNDLIST_EMPTY =>
               /\ next2[x] \in A \cup {s} /\ r2[x] < r2[next2[x]]
               /\ \A y \in A \cup {s} : r2[y] <= r2[x] \/ r2[next2[x]] <= r2[y]
    BY <1>6, <1>7
  <2>2. A \cup {s} \subseteq Sounds
    BY <1>1
  <2> QED
    BY <1>3, <1>4, <1>5, <2>1, <2>2 DEF Chain
<1> QED
  BY <1>2, <1>3, <1>8 DEF Ranked

\* The first sound may be taken away.
LEMMA Pop ==
    ASSUME NEW next, NEW head, NEW A, NEW r, Chain(next, head, A, r), head # SOUNDLIST_EMPTY
    PROVE  head \in A /\ Chain(next, next[head], A \ {head}, r)
<1>1. /\ A \subseteq Sounds /\ r \in [Sounds -> Int] /\ SOUNDLIST_EMPTY \notin A
      /\ \A x, y \in A : r[x] = r[y] => x = y
      /\ head \in A /\ \A y \in A : r[head] <= r[y]
      /\ \A x \in A : r[x] \in Int
  BY Numbers DEF Chain
<1>2. \A x \in A \ {head} : r[head] < r[x]
  BY <1>1
<1>3. next[head] = SOUNDLIST_EMPTY => A \ {head} = {}
  <2>1. next[head] = SOUNDLIST_EMPTY => \A y \in A : r[y] <= r[head]
    BY <1>1 DEF Chain
  <2> QED
    BY <1>1, <1>2, <2>1
<1>4. next[head] # SOUNDLIST_EMPTY =>
        next[head] \in A \ {head} /\ \A y \in A \ {head} : r[next[head]] <= r[y]
  <2>1. next[head] # SOUNDLIST_EMPTY =>
          /\ next[head] \in A /\ r[head] < r[next[head]]
          /\ \A y \in A : r[y] <= r[head] \/ r[next[head]] <= r[y]
    BY <1>1 DEF Chain
  <2> QED
    BY <1>1, <1>2, <2>1
<1>5. ASSUME NEW x \in A \ {head}
      PROVE  /\ next[x] = SOUNDLIST_EMPTY => \A y \in A \ {head} : r[y] <= r[x]
             /\ next[x] # SOUNDLIST_EMPTY =>
                  /\ next[x] \in A \ {head} /\ r[x] < r[next[x]]
                  /\ \A y \in A \ {head} : r[y] <= r[x] \/ r[next[x]] <= r[y]
  <2>1. /\ next[x] = SOUNDLIST_EMPTY => \A y \in A : r[y] <= r[x]
        /\ next[x] # SOUNDLIST_EMPTY =>
             /\ next[x] \in A /\ r[x] < r[next[x]]
             /\ \A y \in A : r[y] <= r[x] \/ r[next[x]] <= r[y]
    BY DEF Chain
  <2> QED
    BY <1>1, <1>2, <2>1
<1>6. A \ {head} \subseteq Sounds /\ \A x, y \in A \ {head} : r[x] = r[y] => x = y
  BY <1>1
<1> QED
  BY <1>1, <1>3, <1>4, <1>5, <1>6 DEF Chain

\* So may one that is not the first, if the one before it is known.
LEMMA Unlink ==
    ASSUME NEW next, NEW next2, NEW head, NEW A, NEW r, Chain(next, head, A, r),
           NEW p \in A, NEW s, next[p] = s, s # SOUNDLIST_EMPTY,
           next2[p] = next[s], \A x \in A \ {p, s} : next2[x] = next[x]
    PROVE  /\ s \in A /\ p # s
           /\ Chain(next2, head, A \ {s}, r)
<1>1. /\ A \subseteq Sounds /\ r \in [Sounds -> Int] /\ SOUNDLIST_EMPTY \notin A
      /\ \A x, y \in A : r[x] = r[y] => x = y
      /\ \A x \in A : r[x] \in Int
  BY Numbers DEF Chain
<1>2. /\ s \in A /\ r[p] < r[s]
      /\ \A y \in A : r[y] <= r[p] \/ r[s] <= r[y]
  BY DEF Chain
<1>3. p # s
  BY <1>1, <1>2
<1>4. /\ next[s] = SOUNDLIST_EMPTY => \A y \in A : r[y] <= r[s]
      /\ next[s] # SOUNDLIST_EMPTY =>
           /\ next[s] \in A /\ r[s] < r[next[s]]
           /\ \A y \in A : r[y] <= r[s] \/ r[next[s]] <= r[y]
  BY <1>2 DEF Chain
<1>5. head \in A \ {s} /\ head # SOUNDLIST_EMPTY /\ \A y \in A \ {s} : r[head] <= r[y]
  <2>1. head # SOUNDLIST_EMPTY /\ head \in A /\ \A y \in A : r[head] <= r[y]
    BY DEF Chain
  <2> QED
    BY <1>1, <1>2, <2>1
<1>6. /\ next2[p] = SOUNDLIST_EMPTY => \A y \in A \ {s} : r[y] <= r[p]
      /\ next2[p] # SOUNDLIST_EMPTY =>
           /\ next2[p] \in A \ {s} /\ r[p] < r[next2[p]]
           /\ \A y \in A \ {s} : r[y] <= r[p] \/ r[next2[p]] <= r[y]
  <2>1. \A y \in A \ {s} : r[y] <= r[p] \/ r[s] < r[y]
    BY <1>1, <1>2
  <2>2. CASE next[s] = SOUNDLIST_EMPTY
    BY <1>1, <1>2, <1>4, <2>1, <2>2
  <2>3. CASE next[s] # SOUNDLIST_EMPTY
    BY <1>1, <1>2, <1>4, <2>1, <2>3
  <2> QED
    BY <2>2, <2>3
<1>7. ASSUME NEW x \in A \ {p, s}
      PROVE  /\ next2[x] = SOUNDLIST_EMPTY => \A y \in A \ {s} : r[y] <= r[x]
             /\ next2[x] # SOUNDLIST_EMPTY =>
                  /\ next2[x] \in A \ {s} /\ r[x] < r[next2[x]]
                  /\ \A y \in A \ {s} : r[y] <= r[x] \/ r[next2[x]] <= r[y]
  <2>1. /\ next2[x] = SOUNDLIST_EMPTY => \A y \in A : r[y] <= r[x]
        /\ next2[x] # SOUNDLIST_EMPTY =>
             /\ next2[x] \in A /\ r[x] < r[next2[x]]
             /\ \A y \in A : r[y] <= r[x] \/ r[next2[x]] <= r[y]
    BY DEF Chain
  <2>2. next2[x] # s
    <3>1. r[x] # r[p] /\ r[x] # r[s]
      BY <1>1, <1>2
    <3>2. r[x] <= r[p] \/ r[s] <= r[x]
      BY <1>2
    <3>3. next2[x] = s => r[x] < r[s] /\ (r[p] <= r[x] \/ r[s] <= r[p])
      BY <1>2, <2>1, Numbers
    <3> QED
      BY <1>1, <1>2, <3>1, <3>2, <3>3
  <2> QED
    BY <2>1, <2>2
<1>8. /\ A \ {s} \subseteq Sounds /\ \A x, y \in A \ {s} : r[x] = r[y] => x = y
      /\ \A x \in A \ {s} :
           /\ next2[x] = SOUNDLIST_EMPTY => \A y \in A \ {s} : r[y] <= r[x]
           /\ next2[x] # SOUNDLIST_EMPTY =>
                /\ next2[x] \in A \ {s} /\ r[x] < r[next2[x]]
                /\ \A y \in A \ {s} : r[y] <= r[x] \/ r[next2[x]] <= r[y]
  BY <1>1, <1>6, <1>7
<1> QED
  BY <1>1, <1>2, <1>3, <1>5, <1>8 DEF Chain

\* A list may be cut off after one of its sounds.
LEMMA Cut ==
    ASSUME NEW next, NEW next2, NEW head, NEW A, NEW r, Chain(next, head, A, r),
           NEW s \in A, next2[s] = SOUNDLIST_EMPTY, \A x \in A \ {s} : next2[x] = next[x]
    PROVE  Chain(next2, head, {x \in A : r[x] <= r[s]}, r)
<1> DEFINE B == {x \in A : r[x] <= r[s]}
<1>1. /\ A \subseteq Sounds /\ r \in [Sounds -> Int] /\ SOUNDLIST_EMPTY \notin A
      /\ \A x, y \in A : r[x] = r[y] => x = y
      /\ \A x \in A : r[x] \in Int
      /\ head \in A /\ head # SOUNDLIST_EMPTY /\ \A y \in A : r[head] <= r[y]
  BY Numbers DEF Chain
<1>2. ASSUME NEW x \in B
      PROVE  /\ next2[x] = SOUNDLIST_EMPTY => \A y \in B : r[y] <= r[x]
             /\ next2[x] # SOUNDLIST_EMPTY =>
                  /\ next2[x] \in B /\ r[x] < r[next2[x]]
                  /\ \A y \in B : r[y] <= r[x] \/ r[next2[x]] <= r[y]
  <2>1. CASE x = s
    BY <2>1
  <2>2. CASE x # s
    <3>1. /\ next2[x] = SOUNDLIST_EMPTY => \A y \in A : r[y] <= r[x]
          /\ next2[x] # SOUNDLIST_EMPTY =>
               /\ next2[x] \in A /\ r[x] < r[next2[x]]
               /\ \A y \in A : r[y] <= r[x] \/ r[next2[x]] <= r[y]
      BY <2>2 DEF Chain
    <3>2. r[x] < r[s]
      BY <1>1, <2>2
    <3> QED
      BY <1>1, <3>1, <3>2
  <2> QED
    BY <2>1, <2>2
<1>3. B \subseteq Sounds /\ head \in B /\ \A x, y \in B : r[x] = r[y] => x = y
  BY <1>1
<1>4. \A y \in B : r[head] <= r[y]
  BY <1>1
<1> HIDE DEF B
<1>5. Chain(next2, head, B, r)
  BY <1>1, <1>2, <1>3, <1>4 DEF Chain
<1> QED
  BY <1>5 DEF B

-----------------------------------------------------------------------------
(* Following the links of a chain.                                         *)

\* Going up in rank among so many sounds, the list ends in time, and it leaves
\* none out.
LEMMA FollowChain ==
    ASSUME NEW l \in Pools, NEW head \in Links, NEW A, NEW r, Chain(l.m_iNext, head, A, r),
           NEW list, list = ListFrom(l, head)
    PROVE  Ends(list) /\ SoundsOf(list) = A
<1> DEFINE n == MAX_WORLD_SOUNDS
<1>1. /\ n \in Nat /\ list[0] = head
      /\ \A k \in 0..n : list[k] \in Links
      /\ \A k \in Nat : k < n =>
             /\ list[k] = SOUNDLIST_EMPTY => list[k + 1] = SOUNDLIST_EMPTY
             /\ list[k] # SOUNDLIST_EMPTY => list[k + 1] = l.m_iNext[list[k]]
  BY ListFromIs
<1>2. /\ A \subseteq Sounds /\ SOUNDLIST_EMPTY \notin A
      /\ \A x \in A : r[x] \in Int
      /\ head = SOUNDLIST_EMPTY => A = {}
      /\ head # SOUNDLIST_EMPTY => head \in A /\ \A y \in A : r[head] <= r[y]
      /\ \A x \in A :
           /\ l.m_iNext[x] = SOUNDLIST_EMPTY => \A y \in A : r[y] <= r[x]
           /\ l.m_iNext[x] # SOUNDLIST_EMPTY =>
                /\ l.m_iNext[x] \in A /\ r[x] < r[l.m_iNext[x]]
                /\ \A y \in A : r[y] <= r[x] \/ r[l.m_iNext[x]] <= r[y]
  BY Numbers DEF Chain
<1> HIDE DEF n
<1>3. \A k \in 0..n : list[k] \in A \cup {SOUNDLIST_EMPTY}
  <2> DEFINE T == {k \in Nat : list[k] \in A \cup {SOUNDLIST_EMPTY}}
  <2>1. 0 \in T
    BY <1>1, <1>2
  <2>2. \A k \in Nat : k < n /\ k \in T => k + 1 \in T
    BY <1>1, <1>2
  <2>3. \A k \in 0..n : k \in T
    <3> HIDE DEF T
    <3> QED
      BY <1>1, <2>1, <2>2, Upward
  <2> QED
    BY <2>3
<1>4. list[n] = SOUNDLIST_EMPTY
  <2> SUFFICES ASSUME list[n] # SOUNDLIST_EMPTY PROVE FALSE
    OBVIOUS
  <2>1. \A k \in 0..n : list[k] # SOUNDLIST_EMPTY
    <3> DEFINE T == {k \in Nat : k <= n => list[n - k] # SOUNDLIST_EMPTY}
    <3>1. 0 \in T
      BY <1>1
    <3>2. ASSUME NEW k \in Nat, k < n, k \in T
          PROVE  k + 1 \in T
      <4>1. n - (k + 1) \in Nat /\ n - (k + 1) < n /\ (n - (k + 1)) + 1 = n - k
        BY <1>1, <3>2
      <4> QED
        BY <1>1, <3>2, <4>1
    <3>3. \A k \in 0..n : k \in T
      <4> HIDE DEF T
      <4> QED
        BY <1>1, <3>1, <3>2, Upward
    <3>4. \A k \in 0..n : n - k \in 0..n /\ n - (n - k) = k
      BY <1>1
    <3>5. \A k \in 0..n : list[n - k] # SOUNDLIST_EMPTY
      BY <3>3
    <3> QED
      BY <3>4, <3>5
  <2>2. \A k \in 0..n : list[k] \in A
    BY <1>3, <2>1
  <2>3. \A k \in 0..n : \A j \in 0..n : j < k => r[list[j]] < r[list[k]]
    <3> DEFINE T == {k \in Nat : k <= n => \A j \in 0..n : j < k => r[list[j]] < r[list[k]]}
    <3>1. 0 \in T
      OBVIOUS
    <3>2. ASSUME NEW k \in Nat, k < n, k \in T
          PROVE  k + 1 \in T
      <4>1. k \in 0..n /\ k + 1 \in 0..n
        BY <1>1, <3>2
      <4>2. list[k] \in A /\ list[k + 1] \in A /\ list[k + 1] = l.m_iNext[list[k]]
        BY <1>1, <2>1, <2>2, <3>2, <4>1
      <4>3. r[list[k]] < r[list[k + 1]]
        BY <1>2, <4>2
      <4>4. ASSUME NEW j \in 0..n, j < k + 1
            PROVE  r[list[j]] < r[list[k + 1]]
        <5>1. CASE j = k
          BY <4>3, <5>1
        <5>2. CASE j < k
          <6>1. r[list[j]] < r[list[k]] /\ r[list[j]] \in Int
            BY <1>2, <2>2, <3>2, <4>1, <5>2
          <6> QED
            BY <1>2, <4>2, <4>3, <6>1
        <5> QED
          BY <4>1, <4>4, <5>1, <5>2
      <4> QED
        BY <4>4
    <3>3. \A k \in 0..n : k \in T
      <4> HIDE DEF T
      <4> QED
        BY <1>1, <3>1, <3>2, Upward
    <3> QED
      BY <3>3
  <2>4. \A j, k \in 0..n : list[j] = list[k] => j = k
    <3> SUFFICES ASSUME NEW j \in 0..n, NEW k \in 0..n, list[j] = list[k], j # k PROVE FALSE
      OBVIOUS
    <3>1. r[list[j]] \in Int /\ r[list[k]] \in Int
      BY <1>2, <2>2
    <3>2. j < k \/ k < j
      BY <1>1
    <3> QED
      BY <2>3, <3>1, <3>2
  <2>5. IsFiniteSet(0..n) /\ Cardinality(0..n) = n + 1
    BY <1>1, FS_Interval
  <2>6. IsFiniteSet(Sounds) /\ Cardinality(Sounds) = n
    BY FS_Interval DEF Sounds, n
  <2>7. list \in Injection(0..n, Sounds)
    <3>1. list \in [0..n -> Sounds]
      BY <1>2, <2>2, ListFromIs DEF n
    <3> QED
      BY <2>4, <3>1 DEF Injection, IsInjective
  <2> QED
    BY <1>1, <2>5, <2>6, <2>7, FS_Injection DEF ExistsInjection
<1>5. A \subseteq SoundsOf(list)
  <2> SUFFICES ASSUME NEW x \in A, \A k \in 0..n : list[k] # x PROVE FALSE
    BY <1>2 DEF SoundsOf, n
  <2> DEFINE T == {k \in Nat : k <= n => list[k] # SOUNDLIST_EMPTY /\ r[list[k]] < r[x]}
  <2>1. 0 \in T
    <3>1. list[0] # x /\ head \in A /\ head # SOUNDLIST_EMPTY /\ r[head] <= r[x]
      BY <1>1, <1>2
    <3>2. r[head] # r[x]
      BY <1>1, <3>1 DEF Chain
    <3> QED
      BY <1>1, <1>2, <3>1, <3>2
  <2>2. ASSUME NEW k \in Nat, k < n, k \in T
        PROVE  k + 1 \in T
    <3>1. k \in 0..n /\ k + 1 \in 0..n
      BY <1>1, <2>2
    <3>2. list[k] \in A /\ list[k + 1] = l.m_iNext[list[k]] /\ r[list[k]] < r[x]
      BY <1>1, <1>3, <2>2, <3>1
    <3>3. list[k + 1] # SOUNDLIST_EMPTY /\ list[k + 1] \in A /\ r[list[k + 1]] <= r[x]
      BY <1>2, <3>2
    <3>4. r[list[k + 1]] # r[x]
      BY <3>1, <3>3 DEF Chain
    <3> QED
      BY <1>2, <3>3, <3>4
  <2>3. \A k \in 0..n : k \in T
    <3> HIDE DEF T
    <3> QED
      BY <1>1, <2>1, <2>2, Upward
  <2>4. n \in T
    <3> HIDE DEF T
    <3> QED
      BY <1>1, <2>3
  <2> QED
    BY <1>4, <2>4
<1>6. SoundsOf(list) \subseteq A
  BY <1>3 DEF SoundsOf, n
<1> QED
  BY <1>4, <1>5, <1>6 DEF Ends, n

-----------------------------------------------------------------------------
(* The operations.                                                         *)

\* An allocated sound is no client's, and comes first.
LEMMA IAllocSoundPartition ==
    ASSUME NEW l \in Pools, Partitioned(l), l.m_iFreeSound # SOUNDLIST_EMPTY
    PROVE  /\ l.m_iFreeSound \in Sounds \ ClientSounds
           /\ IAllocSound(l) \in Pools /\ Partitioned(IAllocSound(l))
<1> DEFINE s == l.m_iFreeSound
           next2 == [l.m_iNext EXCEPT ![s] = l.m_iActiveSound]
<1>1. PICK A \in SUBSET Sounds, F \in SUBSET Sounds, r \in [Sounds -> Int], q \in [Sounds -> Int] :
        Partition(l, A, F, r, q)
  BY DEF Partitioned
<1>2. s \in F /\ Chain(l.m_iNext, l.m_iNext[s], F \ {s}, q)
  BY <1>1, Pop DEF Partition
<1>3. s \in Sounds \ ClientSounds /\ s \notin A
  BY <1>1, <1>2 DEF Partition
<1>4. /\ l.m_iNext \in [Sounds -> Links] /\ l.m_iActiveSound \in Links
      /\ next2 \in [Sounds -> Links] /\ next2[s] = l.m_iActiveSound
      /\ \A x \in Sounds : x # s => next2[x] = l.m_iNext[x]
  BY <1>3 DEF Pools
<1>5. IAllocSound(l) = [m_iFreeSound |-> l.m_iNext[s], m_iNext |-> next2, m_iActiveSound |-> s]
  BY DEF IAllocSound
<1>6. l.m_iNext[s] \in Links /\ s \in Links
  BY <1>3, <1>4, Numbers
<1> HIDE DEF next2, s
<1>7. IAllocSound(l) \in Pools
  BY <1>4, <1>5, <1>6 DEF Pools
<1>8. Chain(next2, l.m_iNext[s], F \ {s}, q)
  <2>1. \A x \in F \ {s} : next2[x] = l.m_iNext[x]
    BY <1>4
  <2> QED
    BY <1>2, <2>1, SameLinks
<1>9. PICK r2 \in [Sounds -> Int] : /\ Chain(next2, s, A \cup {s}, r2)
                                   /\ \A x \in A : r2[x] = r[x] /\ r2[s] < r[x]
  <2>1. Chain(l.m_iNext, l.m_iActiveSound, A, r)
    BY <1>1 DEF Partition
  <2>2. \A x \in A : next2[x] = l.m_iNext[x]
    BY <1>3, <1>4
  <2>3. Ranked(next2, s, A, r)
    BY <1>3, <1>4, <2>1, <2>2, Push
  <2> QED
    BY <2>3 DEF Ranked
<1>10. ASSUME NEW c \in (A \cup {s}) \cap ClientSounds, NEW x \in A \cup {s}, r2[c] <= r2[x]
       PROVE  x \in ClientSounds
  <2>1. c \in A
    BY <1>3
  <2>2. r2[c] \in Int /\ r2[x] \in Int /\ r2[s] \in Int /\ r2[s] < r[c] /\ r2[c] = r[c]
    BY <1>3, <1>9, <2>1
  <2>3. x # s
    BY <1>10, <2>2
  <2>4. x \in A /\ r[c] <= r[x]
    BY <1>9, <1>10, <2>1, <2>3
  <2> QED
    BY <1>1, <2>1, <2>4 DEF Partition
<1>11. Partition(IAllocSound(l), A \cup {s}, F \ {s}, r2, q)
  <2>1. /\ (A \cup {s}) \cap (F \ {s}) = {} /\ (F \ {s}) \cap ClientSounds = {}
        /\ Sounds \ ClientSounds \subseteq (A \cup {s}) \cup (F \ {s})
    BY <1>1, <1>3 DEF Partition
  <2> QED
    BY <1>5, <1>8, <1>9, <1>10, <2>1 DEF Partition
<1> QED
  BY <1>3, <1>7, <1>11 DEF Partitioned, s

\* A sound that goes on top of the free ones.
Freed(l, A, F, r) == \E q \in [Sounds -> Int] : Partition(l, A, F, r, q)

LEMMA PushFree ==
    ASSUME NEW l \in Pools, NEW A \in SUBSET Sounds, NEW F \in SUBSET Sounds,
           NEW r \in [Sounds -> Int], NEW q \in [Sounds -> Int], Partition(l, A, F, r, q),
           NEW s \in A \ ClientSounds, NEW l2, l2.m_iFreeSound = s,
           l2.m_iNext[s] = l.m_iFreeSound, \A x \in F : l2.m_iNext[x] = l.m_iNext[x],
           Chain(l2.m_iNext, l2.m_iActiveSound, A \ {s}, r)
    PROVE  Freed(l2, A \ {s}, F \cup {s}, r)
<1>1. s \in Sounds /\ s \notin F /\ Chain(l.m_iNext, l.m_iFreeSound, F, q)
  BY DEF Partition
<1>2. PICK q2 \in [Sounds -> Int] : Chain(l2.m_iNext, s, F \cup {s}, q2)
  <2>1. Ranked(l2.m_iNext, s, F, q)
    BY <1>1, Push
  <2> QED
    BY <2>1 DEF Ranked
<1>3. /\ (A \ {s}) \cap (F \cup {s}) = {} /\ (F \cup {s}) \cap ClientSounds = {}
      /\ Sounds \ ClientSounds \subseteq (A \ {s}) \cup (F \cup {s})
      /\ \A c \in (A \ {s}) \cap ClientSounds, x \in A \ {s} : r[c] <= r[x] => x \in ClientSounds
  BY DEF Partition
<1> QED
  BY <1>2, <1>3 DEF Partition, Freed

\* Freeing an active sound, with the one before it.
LEMMA FreeSoundPartition ==
    ASSUME NEW l \in Pools, NEW A \in SUBSET Sounds, NEW F \in SUBSET Sounds,
           NEW r \in [Sounds -> Int], NEW q \in [Sounds -> Int], Partition(l, A, F, r, q),
           NEW s \in A \ ClientSounds, NEW p \in Links, Leads(l, A, p, s),
           NEW l2, l2 = FreeSound(l, s, p)
    PROVE  /\ Freed(l2, A \ {s}, F \cup {s}, r)
           /\ l.m_iNext[s] \in (A \ {s}) \cup {SOUNDLIST_EMPTY}
           /\ Leads(l2, A \ {s}, p, l.m_iNext[s])
<1>1. /\ s \in Sounds /\ s # SOUNDLIST_EMPTY /\ A \cap F = {}
      /\ Chain(l.m_iNext, l.m_iActiveSound, A, r)
      /\ l.m_iNext \in [Sounds -> Links]
  BY Numbers DEF Partition, Pools
<1>2. CASE p = SOUNDLIST_EMPTY
  <2>1. /\ l2.m_iFreeSound = s /\ l2.m_iActiveSound = l.m_iNext[s]
        /\ l2.m_iNext = [l.m_iNext EXCEPT ![s] = l.m_iFreeSound]
    BY <1>2 DEF FreeSound
  <2>2. /\ l2.m_iNext[s] = l.m_iFreeSound
        /\ \A x \in Sounds : x # s => l2.m_iNext[x] = l.m_iNext[x]
    BY <1>1, <2>1
  <2>3. Chain(l.m_iNext, l.m_iNext[s], A \ {s}, r)
    BY <1>1, <1>2, Pop DEF Leads
  <2>4. \A x \in A \ {s} : l2.m_iNext[x] = l.m_iNext[x]
    BY <2>2
  <2>5. Chain(l2.m_iNext, l2.m_iActiveSound, A \ {s}, r)
    BY <2>1, <2>3, <2>4, SameLinks
  <2>6. \A x \in F : l2.m_iNext[x] = l.m_iNext[x]
    BY <1>1, <2>2
  <2>7. l.m_iNext[s] \in (A \ {s}) \cup {SOUNDLIST_EMPTY}
    BY <2>3 DEF Chain
  <2>8. Freed(l2, A \ {s}, F \cup {s}, r)
    BY <2>1, <2>2, <2>5, <2>6, PushFree
  <2> QED
    BY <1>2, <2>1, <2>7, <2>8 DEF Leads
<1>3. CASE p # SOUNDLIST_EMPTY
  <2>1. p \in A /\ p # s /\ l.m_iNext[p] = s
    <3>1. p = s => FALSE
      BY <1>1, <1>3 DEF Chain, Leads
    <3> QED
      BY <1>3, <3>1 DEF Leads
  <2>2. /\ l2.m_iFreeSound = s /\ l2.m_iActiveSound = l.m_iActiveSound
        /\ l2.m_iNext = [[l.m_iNext EXCEPT ![p] = l.m_iNext[s]] EXCEPT ![s] = l.m_iFreeSound]
    BY <1>3 DEF FreeSound
  <2>3. /\ l2.m_iNext[s] = l.m_iFreeSound /\ l2.m_iNext[p] = l.m_iNext[s]
        /\ \A x \in Sounds : x \notin {p, s} => l2.m_iNext[x] = l.m_iNext[x]
    BY <1>1, <2>1, <2>2
  <2>4. \A x \in A \ {p, s} : l2.m_iNext[x] = l.m_iNext[x]
    BY <2>3
  <2>5. Chain(l2.m_iNext, l2.m_iActiveSound, A \ {s}, r)
    BY <1>1, <2>1, <2>2, <2>3, <2>4, Unlink
  <2>6. \A x \in F : l2.m_iNext[x] = l.m_iNext[x]
    BY <1>1, <2>1, <2>3
  <2>7. p \in A \ {s} /\ l2.m_iNext[p] \in (A \ {s}) \cup {SOUNDLIST_EMPTY}
    BY <2>1, <2>5 DEF Chain
  <2>8. Freed(l2, A \ {s}, F \cup {s}, r)
    BY <2>2, <2>3, <2>5, <2>6, PushFree
  <2> QED
    BY <1>3, <2>3, <2>7, <2>8 DEF Leads
<1> QED
  BY <1>2, <1>3

\* From the next sound on there is less than from s on, whether or not s stays,
\* and nothing is between the two.
LEMMA NextOnward ==
    ASSUME NEW next, NEW head, NEW A \in SUBSET Sounds, NEW r \in [Sounds -> Int],
           Chain(next, head, A, r), NEW s \in A, NEW B \in SUBSET A
    PROVE  /\ Cardinality(Onward(A, r, s)) \in Nat
           /\ next[s] # SOUNDLIST_EMPTY =>
                 /\ Cardinality(Onward(B, r, next[s])) \in Nat
                 /\ Cardinality(Onward(B, r, next[s])) < Cardinality(Onward(A, r, s))
           /\ \A x \in A : x # s /\ r[s] <= r[x] =>
                 next[s] # SOUNDLIST_EMPTY /\ r[next[s]] <= r[x]
<1> DEFINE On == Onward(A, r, s)
           Rest == Onward(B, r, next[s])
<1>1. /\ s \in On /\ On \subseteq Sounds /\ r[s] \in Int
      /\ \A y \in A : r[y] \in Int
  BY DEF Onward
<1>2. IsFiniteSet(Sounds)
  BY FS_Interval DEF Sounds
<1>3. IsFiniteSet(On) /\ Cardinality(On) \in Nat
  BY <1>1, <1>2, FS_Subset, FS_CardinalityType
<1>4. ASSUME next[s] # SOUNDLIST_EMPTY
      PROVE  Cardinality(Rest) \in Nat /\ Cardinality(Rest) < Cardinality(On)
  <2>1. next[s] \in A /\ r[s] < r[next[s]]
    BY <1>4 DEF Chain
  <2>2. Rest \subseteq On \ {s}
    BY <1>1, <2>1 DEF Onward
  <2>3. IsFiniteSet(On \ {s}) /\ Cardinality(On \ {s}) = Cardinality(On) - 1
    BY <1>1, <1>3, FS_RemoveElement
  <2>4. IsFiniteSet(Rest) /\ Cardinality(Rest) <= Cardinality(On \ {s})
    BY <2>2, <2>3, FS_Subset
  <2>5. Cardinality(Rest) \in Nat
    BY <2>4, FS_CardinalityType
  <2> QED
    BY <1>3, <2>3, <2>4, <2>5
<1>5. ASSUME NEW x \in A, x # s, r[s] <= r[x]
      PROVE  next[s] # SOUNDLIST_EMPTY /\ r[next[s]] <= r[x]
  <2>1. r[x] # r[s]
    BY <1>5 DEF Chain
  <2>2. ~(r[x] <= r[s])
    BY <1>1, <1>5, <2>1
  <2> QED
    BY <2>2 DEF Chain
<1> QED
  BY <1>3, <1>4, <1>5

\* Each round of Think's loop leaves the lists in order.
LEMMA VisitWalk ==
    ASSUME NEW w \in Walks, NEW k \in Nat, WalkInv(w, k),
           \A c \in ClientSounds : expires[c] = "never"
    PROVE  WalkInv(Visit[w], k + 1)
<1> DEFINE s == w.iSound
           p == w.iPreviousSound
           v == Visit[w]
<1>1. /\ w.l \in Pools /\ p \in Links /\ s \in Links
  BY DEF Walks
<1>2. PICK A \in SUBSET Sounds, F \in SUBSET Sounds, r \in [Sounds -> Int], q \in [Sounds -> Int] :
        /\ Partition(w.l, A, F, r, q)
        /\ s \in A \cup {SOUNDLIST_EMPTY}
        /\ Leads(w.l, A, p, s)
        /\ s # SOUNDLIST_EMPTY => Cardinality(Onward(A, r, s)) + k <= MAX_WORLD_SOUNDS
        /\ \A x \in A : expires[x] = "now" => s # SOUNDLIST_EMPTY /\ r[s] <= r[x]
        /\ \A x \in SoundsOf(ActiveList(lists)) : expires[x] # "now" => x \in A
  BY DEF WalkInv
<1> DEFINE t == w.l.m_iNext[s]
<1>10. ASSUME s # SOUNDLIST_EMPTY, NEW B \in SUBSET A
       PROVE  /\ t # SOUNDLIST_EMPTY =>
                    Cardinality(Onward(B, r, t)) + (k + 1) <= MAX_WORLD_SOUNDS
              /\ \A x \in A : expires[x] = "now" /\ x # s => t # SOUNDLIST_EMPTY /\ r[t] <= r[x]
  <2>1. s \in A /\ Chain(w.l.m_iNext, w.l.m_iActiveSound, A, r)
    BY <1>2, <1>10 DEF Partition
  <2> HIDE DEF s, t
  <2>2. /\ Cardinality(Onward(A, r, s)) \in Nat
        /\ t # SOUNDLIST_EMPTY =>
              /\ Cardinality(Onward(B, r, t)) \in Nat
              /\ Cardinality(Onward(B, r, t)) < Cardinality(Onward(A, r, s))
        /\ \A x \in A : x # s /\ r[s] <= r[x] => t # SOUNDLIST_EMPTY /\ r[t] <= r[x]
    BY <2>1, NextOnward DEF t
  <2>3. Cardinality(Onward(A, r, s)) + k <= MAX_WORLD_SOUNDS
    BY <1>2, <1>10
  <2>4. t # SOUNDLIST_EMPTY => Cardinality(Onward(B, r, t)) + (k + 1) <= MAX_WORLD_SOUNDS
    BY <2>2, <2>3
  <2> QED
    BY <1>2, <2>2, <2>4
<1>3. CASE s = SOUNDLIST_EMPTY
  <2>1. v = w
    BY <1>3 DEF Visit
  <2> HIDE DEF v, s, p
  <2>2. WalkInv(v, k + 1)
    BY <1>2, <1>3, <2>1 DEF WalkInv, s, p
  <2> QED
    BY <2>2 DEF v
<1>4. CASE s # SOUNDLIST_EMPTY /\ expires[s] = "now"
  <2>1. s \in A \ ClientSounds
    BY <1>2, <1>4
  <2>2. v.l = FreeSound(w.l, s, p) /\ v.iPreviousSound = p /\ v.iSound = w.l.m_iNext[s]
    BY <1>4 DEF Visit
  <2> HIDE DEF v, s, p
  <2> DEFINE l == w.l
             l2 == v.l
  <2>3. l2 = FreeSound(l, s, p)
    BY <2>2
  <2> HIDE DEF l, l2
  <2>4. l \in Pools /\ p \in Links /\ Partition(l, A, F, r, q)
    BY <1>1, <1>2 DEF l
  <2>5. Leads(l, A, p, s)
    BY <1>2 DEF l
  <2>6. /\ Freed(l2, A \ {s}, F \cup {s}, r)
        /\ l.m_iNext[s] \in (A \ {s}) \cup {SOUNDLIST_EMPTY}
        /\ Leads(l2, A \ {s}, p, l.m_iNext[s])
    BY <2>1, <2>3, <2>4, <2>5, FreeSoundPartition
  <2>7. PICK q2 \in [Sounds -> Int] : Partition(l2, A \ {s}, F \cup {s}, r, q2)
    BY <2>6 DEF Freed
  <2>8. A \ {s} \in SUBSET Sounds /\ F \cup {s} \in SUBSET Sounds
    BY <2>1
  <2>9. /\ t # SOUNDLIST_EMPTY => Cardinality(Onward(A \ {s}, r, t)) + (k + 1) <= MAX_WORLD_SOUNDS
        /\ \A x \in A \ {s} : expires[x] = "now" => t # SOUNDLIST_EMPTY /\ r[t] <= r[x]
    BY <1>4, <1>10
  <2>10. \A x \in SoundsOf(ActiveList(lists)) : expires[x] # "now" => x \in A \ {s}
    BY <1>2, <1>4
  <2> HIDE DEF t
  <2>11. v.iSound = t /\ l.m_iNext[s] = t
    BY <2>2 DEF t, l
  <2>12. WalkInv(v, k + 1)
    BY <2>2, <2>6, <2>7, <2>8, <2>9, <2>10, <2>11 DEF WalkInv, l2
  <2> QED
    BY <2>12 DEF v
<1>5. CASE s # SOUNDLIST_EMPTY /\ expires[s] # "now"
  <2>1. s \in A
    BY <1>2, <1>5
  <2>2. v.l = w.l /\ v.iPreviousSound = s /\ v.iSound = w.l.m_iNext[s]
    BY <1>5 DEF Visit
  <2>3. w.l.m_iNext[s] \in A \cup {SOUNDLIST_EMPTY}
    BY <1>2, <2>1 DEF Partition, Chain
  <2> HIDE DEF v, s, p
  <2>4. /\ t # SOUNDLIST_EMPTY => Cardinality(Onward(A, r, t)) + (k + 1) <= MAX_WORLD_SOUNDS
        /\ \A x \in A : expires[x] = "now" => t # SOUNDLIST_EMPTY /\ r[t] <= r[x]
    BY <1>5, <1>10
  <2>5. v.iSound = t /\ t \in A \cup {SOUNDLIST_EMPTY} /\ w.l.m_iNext[s] = t
    BY <2>2, <2>3
  <2>6. Leads(v.l, A, s, t)
    BY <1>5, <2>1, <2>2, <2>5 DEF Leads
  <2> HIDE DEF t
  <2>7. WalkInv(v, k + 1)
    BY <1>2, <2>2, <2>4, <2>5, <2>6 DEF WalkInv
  <2> QED
    BY <2>7 DEF v
<1> QED
  BY <1>3, <1>4, <1>5

\* The loop's variables keep their types.
LEMMA VisitType == Visit \in [Walks -> Walks]
<1> SUFFICES ASSUME NEW w \in Walks PROVE Visit[w] \in Walks
  BY DEF Visit
<1>1. /\ w.l \in Pools /\ w.iPreviousSound \in Links /\ w.iSound \in Links
  BY DEF Walks
<1>2. CASE w.iSound = SOUNDLIST_EMPTY
  BY <1>2 DEF Visit
<1>3. CASE w.iSound # SOUNDLIST_EMPTY
  <2>1. w.iSound \in Sounds
    BY <1>1, <1>3, Numbers
  <2>2. w.l.m_iNext[w.iSound] \in Links
    BY <1>1, <2>1 DEF Pools
  <2>3. FreeSound(w.l, w.iSound, w.iPreviousSound) \in Pools
    <3>1. /\ w.l.m_iNext \in [Sounds -> Links] /\ w.l.m_iFreeSound \in Links
          /\ w.l.m_iActiveSound \in Links /\ w.iSound \in Links
      BY <1>1 DEF Pools
    <3>2. CASE w.iPreviousSound = SOUNDLIST_EMPTY
      BY <2>2, <3>1, <3>2 DEF FreeSound, Pools
    <3>3. CASE w.iPreviousSound # SOUNDLIST_EMPTY
      BY <2>2, <3>1, <3>3 DEF FreeSound, Pools
    <3> QED
      BY <3>2, <3>3
  <2> QED
    BY <1>1, <1>3, <2>2, <2>3 DEF Visit, Walks
<1> QED
  BY <1>2, <1>3

\* Think frees what has expired, nothing else, and leaves the lists in order.
LEMMA ThinkPartition ==
    ASSUME SoundInv, Think
    PROVE  /\ lists' \in Pools
           /\ \E A, F \in SUBSET Sounds, r, q \in [Sounds -> Int] :
                /\ Partition(lists', A, F, r, q)
                /\ \A x \in A : expires[x] # "now"
                /\ \A x \in SoundsOf(ActiveList(lists)) : expires[x] # "now" => x \in A
<1> DEFINE n == MAX_WORLD_SOUNDS
           start == [l |-> lists, iPreviousSound |-> SOUNDLIST_EMPTY, iSound |-> lists.m_iActiveSound]
           Def(f) == [k \in 0..n |-> IF k = 0 THEN start ELSE Visit[f[k - 1]]]
           walk == CHOOSE walk : walk = Def(walk)
<1>1. lists \in Pools /\ Partitioned(lists) /\ n \in Nat
  BY DEF SoundInv, TypeOK
<1>2. start \in Walks
  BY <1>1, Numbers DEF Walks, Pools
<1>3. WalkInv(start, 0)
  <2>1. PICK A \in SUBSET Sounds, F \in SUBSET Sounds, r \in [Sounds -> Int], q \in [Sounds -> Int] :
          Partition(lists, A, F, r, q)
    BY <1>1 DEF Partitioned
  <2>2. lists.m_iActiveSound \in A \cup {SOUNDLIST_EMPTY}
    BY <2>1 DEF Partition, Chain
  <2>3. /\ start.l = lists /\ start.iPreviousSound = SOUNDLIST_EMPTY
        /\ start.iSound = lists.m_iActiveSound
    OBVIOUS
  <2> HIDE DEF start
  <2> DEFINE s == lists.m_iActiveSound
  <2>4. Chain(lists.m_iNext, s, A, r) /\ s \in Links
    BY <1>1, <2>1 DEF Partition, Pools
  <2>5. SoundsOf(ActiveList(lists)) = A
    BY <1>1, <2>4, FollowChain DEF ActiveList
  <2>6. \A x \in A : s # SOUNDLIST_EMPTY /\ r[s] <= r[x]
    BY <2>4 DEF Chain
  <2>7. Cardinality(Onward(A, r, s)) + 0 <= MAX_WORLD_SOUNDS
    <3>1. IsFiniteSet(Sounds) /\ Cardinality(Sounds) = MAX_WORLD_SOUNDS
      BY FS_Interval DEF Sounds
    <3>2. Onward(A, r, s) \subseteq Sounds
      BY DEF Onward
    <3>3. IsFiniteSet(Onward(A, r, s)) /\ Cardinality(Onward(A, r, s)) <= MAX_WORLD_SOUNDS
      BY <3>1, <3>2, FS_Subset
    <3>4. Cardinality(Onward(A, r, s)) \in Nat
      BY <3>3, FS_CardinalityType
    <3> QED
      BY <3>3, <3>4
  <2>8. Leads(lists, A, SOUNDLIST_EMPTY, s)
    BY DEF Leads
  <2> HIDE DEF s
  <2>9. start.iSound = s /\ s \in A \cup {SOUNDLIST_EMPTY}
    BY <2>2, <2>3 DEF s
  <2> QED
    BY <2>1, <2>3, <2>5, <2>6, <2>7, <2>8, <2>9 DEF WalkInv
<1>4. lists' = walk[n].l
  BY DEF Think
<1> HIDE DEF start, n
<1>5. walk = Def(walk)
  <2>1. Definable(Walks, start, Visit, n)
    BY <1>1, <1>2, VisitType, Recursion
  <2>2. PICK f \in [0..n -> Walks] : \A k \in 0..n : f[k] = IF k = 0 THEN start ELSE Visit[f[k - 1]]
    BY <2>1 DEF Definable
  <2>3. f = Def(f)
    BY <2>2
  <2> HIDE DEF Def
  <2> QED
    BY <2>3
<1> HIDE DEF walk
<1>6. walk[0] = start /\ \A k \in Nat : k < n => walk[k + 1] = Visit[walk[k]]
  <2>1. \A k \in 0..n : walk[k] = IF k = 0 THEN start ELSE Visit[walk[k - 1]]
    BY <1>5
  <2>2. \A k \in Nat : k < n => k + 1 \in 0..n /\ k + 1 # 0 /\ (k + 1) - 1 = k
    BY <1>1
  <2>3. 0 \in 0..n
    BY <1>1
  <2> QED
    BY <2>1, <2>2, <2>3
<1> DEFINE T == {k \in Nat : walk[k] \in Walks /\ WalkInv(walk[k], k)}
<1>7. 0 \in T
  BY <1>2, <1>3, <1>6
<1>8. ASSUME NEW k \in Nat, k < n, k \in T
      PROVE  k + 1 \in T
  <2>1. walk[k] \in Walks /\ WalkInv(walk[k], k) /\ walk[k + 1] = Visit[walk[k]]
    BY <1>6, <1>8
  <2>2. Visit[walk[k]] \in Walks
    BY <2>1, VisitType
  <2>3. WalkInv(Visit[walk[k]], k + 1)
    BY <2>1, VisitWalk DEF SoundInv
  <2> QED
    BY <2>1, <2>2, <2>3
<1>9. n \in T
  <2> HIDE DEF T
  <2>1. \A k \in 0..n : k \in T
    BY <1>1, <1>7, <1>8, Upward
  <2> QED
    BY <1>1, <2>1
<1> DEFINE w == walk[n]
<1>10. w \in Walks /\ WalkInv(w, n) /\ w.l = lists'
  BY <1>4, <1>9
<1> HIDE DEF w
<1>11. PICK A \in SUBSET Sounds, F \in SUBSET Sounds, r \in [Sounds -> Int], q \in [Sounds -> Int] :
        /\ Partition(lists', A, F, r, q)
        /\ w.iSound \in A \cup {SOUNDLIST_EMPTY}
        /\ w.iSound # SOUNDLIST_EMPTY => Cardinality(Onward(A, r, w.iSound)) + n <= n
        /\ \A x \in A : expires[x] = "now" => w.iSound # SOUNDLIST_EMPTY
        /\ \A x \in SoundsOf(ActiveList(lists)) : expires[x] # "now" => x \in A
  BY <1>10 DEF WalkInv, n
<1>12. w.iSound = SOUNDLIST_EMPTY
  <2> SUFFICES ASSUME w.iSound # SOUNDLIST_EMPTY PROVE FALSE
    OBVIOUS
  <2>1. w.iSound \in Onward(A, r, w.iSound) /\ Onward(A, r, w.iSound) \subseteq Sounds
    BY <1>11 DEF Onward
  <2>2. IsFiniteSet(Sounds)
    BY FS_Interval DEF Sounds
  <2> DEFINE On == Onward(A, r, w.iSound)
  <2>3. IsFiniteSet(On)
    BY <2>1, <2>2, FS_Subset
  <2>4. Cardinality(On) \in Nat /\ Cardinality(On) # 0
    BY <2>1, <2>3, FS_CardinalityType, FS_EmptySet
  <2> QED
    BY <1>1, <1>11, <2>4
<1>13. lists' \in Pools
  BY <1>10 DEF Walks
<1> QED
  BY <1>11, <1>12, <1>13

\* Reset cuts clients' sounds off, and nothing else.
LEMMA ResetPartition ==
    ASSUME SoundInv, NEW s \in ClientSounds, Reset(s)
    PROVE  lists' \in Pools /\ Partitioned(lists')
<1> DEFINE next2 == [lists.m_iNext EXCEPT ![s] = SOUNDLIST_EMPTY]
<1>1. lists \in Pools /\ s \in Sounds
  BY Numbers DEF SoundInv, TypeOK
<1>2. /\ lists'.m_iNext = next2 /\ lists'.m_iActiveSound = lists.m_iActiveSound
      /\ lists'.m_iFreeSound = lists.m_iFreeSound /\ lists' \in Pools
  BY <1>1, Numbers DEF Reset, Pools
<1>3. next2[s] = SOUNDLIST_EMPTY /\ \A x \in Sounds : x # s => next2[x] = lists.m_iNext[x]
  BY <1>1 DEF Pools
<1> HIDE DEF next2
<1>4. PICK A \in SUBSET Sounds, F \in SUBSET Sounds, r \in [Sounds -> Int], q \in [Sounds -> Int] :
        Partition(lists, A, F, r, q)
  BY DEF SoundInv, Partitioned
<1>5. Chain(next2, lists.m_iFreeSound, F, q)
  <2>1. Chain(lists.m_iNext, lists.m_iFreeSound, F, q) /\ s \notin F
    BY <1>4 DEF Partition
  <2>2. \A x \in F : next2[x] = lists.m_iNext[x]
    BY <1>3, <2>1
  <2> QED
    BY <2>1, <2>2, SameLinks
<1>6. Chain(lists.m_iNext, lists.m_iActiveSound, A, r)
  BY <1>4 DEF Partition
<1>7. CASE s \in A
  <2> DEFINE B == {x \in A : r[x] <= r[s]}
  <2>1. \A x \in A \ {s} : next2[x] = lists.m_iNext[x]
    BY <1>3
  <2>2. Chain(next2, lists.m_iActiveSound, B, r)
    BY <1>3, <1>6, <1>7, <2>1, Cut
  <2>3. \A x \in A \ B : x \in ClientSounds
    <3>1. \A x \in A : r[x] \in Int
      OBVIOUS
    <3>2. \A x \in A \ B : r[s] <= r[x]
      BY <1>7, <3>1
    <3> QED
      BY <1>4, <1>7, <3>2 DEF Partition
  <2>4. B \in SUBSET Sounds /\ B \subseteq A
    OBVIOUS
  <2> HIDE DEF B
  <2>5. /\ B \cap F = {} /\ F \cap ClientSounds = {}
        /\ Sounds \ ClientSounds \subseteq B \cup F
        /\ \A c \in B \cap ClientSounds, x \in B : r[c] <= r[x] => x \in ClientSounds
    BY <1>4, <2>3, <2>4 DEF Partition
  <2>6. Partition(lists', B, F, r, q)
    BY <1>2, <1>5, <2>2, <2>5 DEF Partition
  <2> QED
    BY <1>2, <2>4, <2>6 DEF Partitioned
<1>8. CASE s \notin A
  <2>1. \A x \in A : next2[x] = lists.m_iNext[x]
    BY <1>3, <1>8
  <2>2. Chain(next2, lists.m_iActiveSound, A, r)
    BY <1>6, <2>1, SameLinks
  <2>3. Partition(lists', A, F, r, q)
    BY <1>2, <1>4, <1>5, <2>2 DEF Partition
  <2> QED
    BY <1>2, <2>3 DEF Partitioned
<1> QED
  BY <1>7, <1>8

-----------------------------------------------------------------------------
(* The start.                                                              *)

\* The pool when i clients have got their sounds: the last one's comes first.
Allocated(i) ==
    [m_iFreeSound |-> IF i \in Sounds THEN i ELSE SOUNDLIST_EMPTY,
     m_iActiveSound |-> i - 1,
     m_iNext |-> [s \in Sounds |-> IF s < i THEN s - 1
                                   ELSE IF s + 1 \in Sounds THEN s + 1 ELSE SOUNDLIST_EMPTY]]

\* Allocating one sound more.
LEMMA NextAllocated ==
    /\ Allocated(0) = Cleared
    /\ \A i \in Nat : i < maxClients => Allocated(i + 1) = IAllocSound(Allocated(i))
<1>1. Allocated(0) = Cleared
  <2>1. 0 \in Sounds /\ 0 - 1 = SOUNDLIST_EMPTY /\ \A s \in Sounds : ~(s < 0)
    BY DEF Sounds, SOUNDLIST_EMPTY
  <2> QED
    BY <2>1 DEF Allocated, Cleared
<1>2. ASSUME NEW i \in Nat, i < maxClients
      PROVE  Allocated(i + 1) = IAllocSound(Allocated(i))
  <2> DEFINE l == Allocated(i)
             next2 == [l.m_iNext EXCEPT ![i] = l.m_iActiveSound]
  <2>1. i \in Sounds /\ i # SOUNDLIST_EMPTY
    BY <1>2 DEF Sounds, SOUNDLIST_EMPTY
  <2>2. /\ l.m_iFreeSound = i /\ l.m_iActiveSound = i - 1
        /\ l.m_iNext = [s \in Sounds |-> IF s < i THEN s - 1
                                         ELSE IF s + 1 \in Sounds THEN s + 1 ELSE SOUNDLIST_EMPTY]
    BY <2>1 DEF Allocated
  <2>3. l.m_iNext[i] = IF i + 1 \in Sounds THEN i + 1 ELSE SOUNDLIST_EMPTY
    BY <2>1, <2>2
  <2> HIDE DEF l
  <2>4. next2 = [s \in Sounds |-> IF s < i + 1 THEN s - 1
                                  ELSE IF s + 1 \in Sounds THEN s + 1 ELSE SOUNDLIST_EMPTY]
    <3>1. \A s \in Sounds : s \in Nat
      BY Numbers
    <3>2. \A s \in Sounds : s < i + 1 <=> s < i \/ s = i
      BY <3>1
    <3> QED
      BY <2>1, <2>2, <3>2
  <2>5. IAllocSound(l) = [m_iFreeSound |-> l.m_iNext[i], m_iNext |-> next2, m_iActiveSound |-> i]
    BY <2>1, <2>2 DEF IAllocSound
  <2>6. (i + 1) - 1 = i
    OBVIOUS
  <2> QED
    BY <2>3, <2>4, <2>5, <2>6 DEF Allocated, l
<1> QED
  BY <1>1, <1>2

\* Initialize gives the clients the first sounds of the pool.
LEMMA InitLists == Init => lists = Allocated(maxClients)
<1> SUFFICES ASSUME Init PROVE lists = Allocated(maxClients)
  OBVIOUS
<1> DEFINE Def(f) == [i \in 0..maxClients |-> IF i = 0 THEN Cleared ELSE IAllocSound(f[i - 1])]
           alloc == CHOOSE alloc : alloc = Def(alloc)
           given == [i \in 0..maxClients |-> Allocated(i)]
<1>1. lists = alloc[maxClients]
  BY DEF Init
<1>2. given = Def(given)
  <2>1. ASSUME NEW i \in 0..maxClients, i # 0
        PROVE  given[i] = IAllocSound(given[i - 1])
    <3>1. i - 1 \in Nat /\ i - 1 < maxClients /\ (i - 1) + 1 = i /\ i - 1 \in 0..maxClients
      BY <2>1
    <3> QED
      BY <3>1, NextAllocated
  <2>2. 0 \in 0..maxClients /\ given[0] = Cleared
    BY NextAllocated
  <2>3. \A i \in 0..maxClients : given[i] = IF i = 0 THEN Cleared ELSE IAllocSound(given[i - 1])
    BY <2>1, <2>2
  <2>4. given = [i \in 0..maxClients |-> given[i]]
    OBVIOUS
  <2> HIDE DEF given
  <2> QED
    BY <2>3, <2>4
<1>3. alloc = Def(alloc)
  <2> HIDE DEF Def, given
  <2> QED
    BY <1>2
<1> HIDE DEF alloc
<1> DEFINE T == {i \in Nat : i <= maxClients => alloc[i] = Allocated(i)}
<1>4. 0 \in T
  <2>1. 0 \in 0..maxClients
    OBVIOUS
  <2>2. alloc[0] = Cleared
    BY <1>3, <2>1
  <2> QED
    BY <2>2, NextAllocated
<1>5. ASSUME NEW i \in Nat, i < maxClients, i \in T
      PROVE  i + 1 \in T
  <2>1. i + 1 \in 0..maxClients /\ i + 1 # 0 /\ (i + 1) - 1 = i
    BY <1>5
  <2>2. alloc[i + 1] = IAllocSound(alloc[i])
    BY <1>3, <2>1
  <2>3. alloc[i] = Allocated(i)
    BY <1>5
  <2> QED
    BY <1>5, <2>2, <2>3, NextAllocated
<1>6. \A i \in 0..maxClients : i \in T
  <2> HIDE DEF T
  <2> QED
    BY <1>4, <1>5, Upward
<1> QED
  BY <1>1, <1>6

\* The clients' sounds are active and rank from the last one's to the first.
LEMMA InitInv == Init => SoundInv
<1> SUFFICES ASSUME Init PROVE SoundInv
  OBVIOUS
<1>1. /\ lists.m_iActiveSound = maxClients - 1
      /\ lists.m_iFreeSound = IF maxClients \in Sounds THEN maxClients ELSE SOUNDLIST_EMPTY
      /\ \A s \in Sounds : lists.m_iNext[s] =
             IF s < maxClients THEN s - 1 ELSE IF s + 1 \in Sounds THEN s + 1 ELSE SOUNDLIST_EMPTY
      /\ lists = Allocated(maxClients)
  BY InitLists DEF Allocated
<1>2. lists \in Pools
  <2>1. \A s \in Sounds : s - 1 \in Links
    BY DEF Sounds, Links, SOUNDLIST_EMPTY
  <2>2. maxClients - 1 \in Links
    BY DEF Sounds, Links
  <2> QED
    BY <1>1, <2>1, <2>2, Numbers DEF Allocated, Pools
<1> DEFINE A == ClientSounds
           F == Sounds \ ClientSounds
           r == [s \in Sounds |-> -s]
           q == [s \in Sounds |-> s]
<1>3. Chain(lists.m_iNext, lists.m_iActiveSound, A, r)
  <2> DEFINE next == lists.m_iNext
             head == lists.m_iActiveSound
  <2>1. /\ \A x : x \in A <=> x \in Nat /\ x < maxClients
        /\ \A x \in A : next[x] = x - 1 /\ r[x] = -x /\ x \in Sounds
        /\ head = maxClients - 1 /\ head \in A
        /\ A \subseteq Sounds /\ r \in [Sounds -> Int]
    BY <1>1, Numbers DEF ClientSounds
  <2> HIDE DEF next, head, A, r
  <2>2. \A x, y \in A : r[x] = r[y] => x = y
    BY <2>1
  <2>3. head # SOUNDLIST_EMPTY /\ \A y \in A : r[head] <= r[y]
    BY <2>1 DEF SOUNDLIST_EMPTY
  <2>4. ASSUME NEW x \in A
        PROVE  /\ next[x] = SOUNDLIST_EMPTY => \A y \in A : r[y] <= r[x]
               /\ next[x] # SOUNDLIST_EMPTY =>
                    /\ next[x] \in A /\ r[x] < r[next[x]]
                    /\ \A y \in A : r[y] <= r[x] \/ r[next[x]] <= r[y]
    <3>1. CASE x = 0
      BY <2>1, <3>1 DEF SOUNDLIST_EMPTY
    <3>2. CASE x # 0
      <4>1. x - 1 \in A /\ next[x] = x - 1 /\ r[x] = -x /\ r[x - 1] = -(x - 1) /\ x \in Nat
        BY <2>1, <3>2
      <4> QED
        BY <2>1, <4>1 DEF SOUNDLIST_EMPTY
    <3> QED
      BY <3>1, <3>2
  <2>5. Chain(next, head, A, r)
    BY <2>1, <2>2, <2>3, <2>4 DEF Chain
  <2> QED
    BY <2>5 DEF next, head
<1>4. Chain(lists.m_iNext, lists.m_iFreeSound, F, q)
  <2> DEFINE next == lists.m_iNext
             head == lists.m_iFreeSound
             n == MAX_WORLD_SOUNDS
  <2>1. /\ \A x : x \in F <=> x \in Nat /\ maxClients <= x /\ x < n
        /\ \A x : x \in Sounds <=> x \in Nat /\ x < n
    BY DEF Sounds, ClientSounds
  <2>2. /\ \A x \in F : q[x] = x /\ x \in Sounds /\ next[x] = IF x + 1 < n THEN x + 1 ELSE SOUNDLIST_EMPTY
        /\ head = IF maxClients < n THEN maxClients ELSE SOUNDLIST_EMPTY
        /\ F \subseteq Sounds /\ q \in [Sounds -> Int]
    <3>1. \A x \in F : x \in Nat /\ ~(x < maxClients) /\ (x + 1 \in Sounds <=> x + 1 < n)
      BY <2>1
    <3>2. maxClients \in Sounds <=> maxClients < n
      BY <2>1
    <3>3. F \subseteq Sounds /\ q \in [Sounds -> Int] /\ \A x \in F : q[x] = x
      BY Numbers
    <3>4. \A x \in F : next[x] = IF x + 1 < n THEN x + 1 ELSE SOUNDLIST_EMPTY
      <4> HIDE DEF F, n
      <4> QED
        BY <1>1, <3>1, <3>3
    <3>5. head = IF maxClients < n THEN maxClients ELSE SOUNDLIST_EMPTY
      BY <1>1, <3>2
    <3> QED
      BY <3>3, <3>4, <3>5
  <2> HIDE DEF next, head, F, q, n
  <2>3. \A x, y \in F : q[x] = q[y] => x = y
    BY <2>2
  <2>4. /\ head = SOUNDLIST_EMPTY => F = {}
        /\ head # SOUNDLIST_EMPTY => head \in F /\ \A y \in F : q[head] <= q[y]
    BY <2>1, <2>2 DEF SOUNDLIST_EMPTY, n
  <2>5. ASSUME NEW x \in F
        PROVE  /\ next[x] = SOUNDLIST_EMPTY => \A y \in F : q[y] <= q[x]
               /\ next[x] # SOUNDLIST_EMPTY =>
                    /\ next[x] \in F /\ q[x] < q[next[x]]
                    /\ \A y \in F : q[y] <= q[x] \/ q[next[x]] <= q[y]
    <3>1. CASE x + 1 < n
      <4>1. x + 1 \in F /\ next[x] = x + 1 /\ q[x] = x /\ q[x + 1] = x + 1 /\ x \in Nat
        BY <2>1, <2>2, <3>1 DEF n
      <4> QED
        BY <2>1, <2>2, <4>1 DEF SOUNDLIST_EMPTY
    <3>2. CASE ~(x + 1 < n)
      <4>1. next[x] = SOUNDLIST_EMPTY /\ q[x] = x /\ x \in Nat /\ x + 1 = n
        BY <2>1, <2>2, <3>2 DEF n
      <4>2. \A y \in F : y \in Nat /\ y < n /\ q[y] = y
        BY <2>1, <2>2
      <4>3. \A y \in F : q[y] <= q[x]
        BY <4>1, <4>2
      <4> QED
        BY <4>1, <4>3
    <3> QED
      BY <3>1, <3>2
  <2>6. Chain(next, head, F, q)
    BY <2>2, <2>3, <2>4, <2>5 DEF Chain
  <2> QED
    BY <2>6 DEF next, head
<1>5. A \cap F = {} /\ F \cap ClientSounds = {} /\ Sounds \ ClientSounds \subseteq A \cup F
      /\ \A x \in A : x \in ClientSounds
  OBVIOUS
<1>6. A \in SUBSET Sounds /\ F \in SUBSET Sounds /\ r \in [Sounds -> Int] /\ q \in [Sounds -> Int]
  BY Numbers
<1> HIDE DEF A, F, r, q
<1>7. Partitioned(lists)
  BY <1>3, <1>4, <1>5, <1>6 DEF Partition, Partitioned
<1>8. expires \in [Sounds -> {"never", "later", "now"}] /\ \A c \in ClientSounds : expires[c] = "never"
  BY Numbers DEF Init
<1> QED
  BY <1>2, <1>7, <1>8 DEF SoundInv, TypeOK

-----------------------------------------------------------------------------
(* The theorems.                                                           *)

\* Every step leaves the lists in order and the clients' sounds unexpired.
LEMMA NextInv == SoundInv /\ [Next]_vars => SoundInv'
<1> SUFFICES ASSUME SoundInv, [Next]_vars PROVE SoundInv'
  OBVIOUS
<1>1. /\ lists \in Pools /\ Partitioned(lists) /\ ClientSounds \subseteq Sounds
      /\ expires \in [Sounds -> {"never", "later", "now"}]
      /\ \A c \in ClientSounds : expires[c] = "never"
  BY Numbers DEF SoundInv, TypeOK
<1>2. CASE InsertSound
  <2>1. lists' = IAllocSound(lists) /\ lists.m_iFreeSound # SOUNDLIST_EMPTY
        /\ expires' = [expires EXCEPT ![lists.m_iFreeSound] = "later"]
    BY <1>2 DEF InsertSound
  <2>2. /\ lists.m_iFreeSound \in Sounds \ ClientSounds
        /\ lists' \in Pools /\ Partitioned(lists')
    BY <1>1, <2>1, IAllocSoundPartition
  <2>3. /\ expires' \in [Sounds -> {"never", "later", "now"}]
        /\ \A c \in ClientSounds : expires'[c] = "never"
    BY <1>1, <2>1, <2>2
  <2> QED
    BY <2>2, <2>3 DEF SoundInv, TypeOK
<1>3. ASSUME NEW s \in Sounds, TimePasses(s)
      PROVE  SoundInv'
  <2>1. /\ expires' \in [Sounds -> {"never", "later", "now"}]
        /\ \A c \in ClientSounds : expires'[c] = "never"
    BY <1>1, <1>3 DEF TimePasses
  <2>2. lists' = lists
    BY <1>3 DEF TimePasses
  <2> QED
    BY <1>1, <2>1, <2>2 DEF SoundInv, TypeOK
<1>4. CASE Think
  <2>1. expires' = expires
    BY <1>4 DEF Think
  <2> QED
    BY <1>1, <1>4, <2>1, ThinkPartition DEF SoundInv, TypeOK, Partitioned
<1>5. ASSUME NEW s \in ClientSounds, Reset(s)
      PROVE  SoundInv'
  <2>1. expires' = expires
    BY <1>5 DEF Reset
  <2> QED
    BY <1>1, <1>5, <2>1, ResetPartition DEF SoundInv, TypeOK
<1>6. CASE UNCHANGED vars
  BY <1>1, <1>6 DEF vars, SoundInv, TypeOK
<1> QED
  BY <1>2, <1>3, <1>4, <1>5, <1>6 DEF Next

LEMMA Invariance == Spec => []SoundInv
  BY InitInv, NextInv, PTL DEF Spec

\* The pool's links and the heads of CSoundEnt's lists are indices of the pool
\* or SOUNDLIST_EMPTY: no list operation indexes the pool out of bounds.
THEOREM TypeCorrect == Spec => []TypeOK
  BY Invariance, PTL DEF SoundInv

\* However sounds are inserted, expire, are freed by Think and are reset, both
\* lists end, share no sound and lose none but a client's, and no client's
\* sound is ever free.
THEOREM PoolPartitionedAlways == Spec => []PoolPartitioned
<1>1. ASSUME SoundInv
      PROVE  PoolPartitioned
  <2>1. PICK A \in SUBSET Sounds, F \in SUBSET Sounds, r \in [Sounds -> Int], q \in [Sounds -> Int] :
          Partition(lists, A, F, r, q)
    BY <1>1 DEF SoundInv, Partitioned
  <2>2. lists \in Pools /\ lists.m_iActiveSound \in Links /\ lists.m_iFreeSound \in Links
    BY <1>1 DEF SoundInv, TypeOK, Pools
  <2>3. Chain(lists.m_iNext, lists.m_iActiveSound, A, r) /\ Chain(lists.m_iNext, lists.m_iFreeSound, F, q)
    BY <2>1 DEF Partition
  <2>4. Ends(ActiveList(lists)) /\ SoundsOf(ActiveList(lists)) = A
    BY <2>2, <2>3, FollowChain DEF ActiveList
  <2>5. Ends(FreeList(lists)) /\ SoundsOf(FreeList(lists)) = F
    BY <2>2, <2>3, FollowChain DEF FreeList
  <2> QED
    BY <2>1, <2>4, <2>5 DEF PoolPartitioned, Partition
<1> QED
  BY <1>1, Invariance, PTL

\* One walk of Think frees all that has expired and nothing else, though it
\* takes the list apart while it follows it, and comes to the end in
\* MAX_WORLD_SOUNDS rounds: what ExpiredSoundsFreed rests on.
THEOREM ThinkFreesExpired ==
    Spec => [][Think => \A s \in Sounds :
                  /\ expires[s] = "now" => s \in SoundsOf(FreeList(lists'))
                  /\ s \in SoundsOf(ActiveList(lists)) /\ expires[s] # "now" =>
                        s \in SoundsOf(ActiveList(lists'))]_vars
<1> DEFINE Frees == \A s \in Sounds :
                  /\ expires[s] = "now" => s \in SoundsOf(FreeList(lists'))
                  /\ s \in SoundsOf(ActiveList(lists)) /\ expires[s] # "now" =>
                        s \in SoundsOf(ActiveList(lists'))
<1>1. ASSUME SoundInv, Think
      PROVE  Frees
  <2>1. PICK A \in SUBSET Sounds, F \in SUBSET Sounds, r \in [Sounds -> Int], q \in [Sounds -> Int] :
          /\ lists' \in Pools
          /\ Partition(lists', A, F, r, q)
          /\ \A x \in A : expires[x] # "now"
          /\ \A x \in SoundsOf(ActiveList(lists)) : expires[x] # "now" => x \in A
    BY <1>1, ThinkPartition
  <2>2. lists'.m_iActiveSound \in Links /\ lists'.m_iFreeSound \in Links
    BY <2>1 DEF Pools
  <2>3. /\ Chain(lists'.m_iNext, lists'.m_iActiveSound, A, r)
        /\ Chain(lists'.m_iNext, lists'.m_iFreeSound, F, q)
    BY <2>1 DEF Partition
  <2>4. SoundsOf(ActiveList(lists')) = A /\ SoundsOf(FreeList(lists')) = F
    BY <2>1, <2>2, <2>3, FollowChain DEF ActiveList, FreeList
  <2>5. \A s \in Sounds : expires[s] = "now" => s \in Sounds \ ClientSounds
    BY <1>1 DEF SoundInv
  <2>6. Sounds \ ClientSounds \subseteq A \cup F
    BY <2>1 DEF Partition
  <2> QED
    BY <2>1, <2>4, <2>5, <2>6
<1>2. SoundInv /\ [Next]_vars => [Think => Frees]_vars
  BY <1>1
<1> QED
  BY <1>2, Invariance, PTL DEF Spec

=============================================================================
