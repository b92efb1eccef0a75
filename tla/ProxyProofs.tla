---------------------------- MODULE ProxyProofs -----------------------------
(***************************************************************************)
(* Proofs about ProxyStartup, with FsiddBoot and NetappExports, for any    *)
(* parameters of a deployment, durations, volumes and number of runs.      *)
(*                                                                         *)
(* First what the programs that proxy-startup.sh runs promise it:          *)
(* filter-exports keeps what the filters select, a page of netapp-exports  *)
(* leaves no volume out, and a start of knfsd-fsidd keeps its deadlines    *)
(* and the cause of its failure. Then what the script makes of it. Lists   *)
(* have any length; induction over them is over a set of numbers.          *)
(*                                                                         *)
(* Last the command handlers of knfsd-fsidd, for any number of             *)
(* connections, paths and errors, as long as one connection at most        *)
(* creates FSIDs: without a lock on run's err that is what makes the       *)
(* replies right.                                                          *)
(***************************************************************************)
EXTENDS ProxyStartup, FsiddReply, WellFoundedInduction, TLAPS

\* A set with 0 in it that has n + 1 whenever it has n has all natural numbers.
LEMMA SetInduction ==
  ASSUME NEW S, 0 \in S, \A n \in Nat : n \in S => n + 1 \in S
  PROVE  \A n \in Nat : n \in S
<1>1. SUFFICES ASSUME Nat \ S # {} PROVE FALSE
  OBVIOUS
<1> DEFINE R == OpToRel(<, Nat)
<1>2. PICK x \in Nat \ S : \A y \in Nat \ S : <<y, x>> \notin R
  <2>1. IsWellFoundedOn(R, Nat)
    BY NatLessThanWellFounded, Zenon
  <2> HIDE DEF R
  <2> QED BY <1>1, <2>1, WFMin, Zenon
<1>3. x - 1 \in Nat /\ x - 1 \notin S
  <2>1. x # 0 OBVIOUS
  <2> QED BY <2>1
<1>4. <<x - 1, x>> \in R
  BY <1>3 DEF OpToRel
<1> QED BY <1>2, <1>3, <1>4, Zenon

\* One round of the loop that selects.
Round(s, S, f, i) ==
  IF i = 0 THEN <<>> ELSE IF s[i] \in S THEN Append(f[i - 1], s[i]) ELSE f[i - 1]

\* The rounds of the loop of Selected are those of a function: the recursion
\* has a solution.
LEMMA SelectedRounds ==
  ASSUME NEW T, NEW s \in Seq(T), NEW S
  PROVE  \E f : /\ f = [i \in 0..Len(s) |-> Round(s, S, f, i)]
                /\ Selected(s, S) = f[Len(s)]
<1> DEFINE P(n) == \E f : f = [i \in 0..n |-> Round(s, S, f, i)]
           N == {n \in Nat : P(n)}
<1>1. 0 \in N
  <2> DEFINE g == [i \in 0..0 |-> <<>>]
  <2>1. g = [i \in 0..0 |-> Round(s, S, g, i)]
    BY DEF Round
  <2> HIDE DEF g
  <2>2. P(0)
    BY <2>1
  <2> HIDE DEF P
  <2> QED BY <2>2
<1>2. ASSUME NEW n \in Nat, P(n) PROVE P(n + 1)
  <2>1. PICK f : f = [i \in 0..n |-> Round(s, S, f, i)]
    BY <1>2
  <2> DEFINE g == [i \in 0..(n + 1) |-> IF i \in 0..n THEN f[i] ELSE Round(s, S, f, i)]
  <2>2. \A i \in 0..(n + 1) : Round(s, S, g, i) = Round(s, S, f, i)
    BY DEF Round
  <2>3. \A i \in 0..n : f[i] = Round(s, S, f, i)
    BY <2>1
  <2>4. g = [i \in 0..(n + 1) |-> Round(s, S, g, i)]
    BY <2>2, <2>3
  <2> HIDE DEF g
  <2> QED BY <2>4
<1>3. \A n \in Nat : n \in N => n + 1 \in N
  <2> HIDE DEF P
  <2> QED BY <1>2
<1>4. \A n \in Nat : n \in N
  <2> HIDE DEF N
  <2> QED BY <1>1, <1>3, SetInduction
<1>5. P(Len(s))
  <2> HIDE DEF P
  <2> QED BY <1>4
<1>6. PICK f : f = [i \in 0..Len(s) |-> Round(s, S, f, i)]
  BY <1>5
<1> DEFINE F == CHOOSE g : g = [i \in 0..Len(s) |-> Round(s, S, g, i)]
<1>7. F = [i \in 0..Len(s) |-> Round(s, S, F, i)]
  BY <1>6, Zenon
<1>8. Selected(s, S) = F[Len(s)]
  BY DEF Selected, Round
<1> HIDE DEF F
<1> QED BY <1>7, <1>8, Zenon

\* The loop starts with nothing, and a round appends an element of S and leaves
\* out any other.
LEMMA SelectedSteps ==
  ASSUME NEW T, NEW s \in Seq(T), NEW S
  PROVE  \E f : /\ f[0] = <<>>
                /\ \A n \in Nat : n + 1 <= Len(s) =>
                     /\ s[n + 1] \in S => f[n + 1] = Append(f[n], s[n + 1])
                     /\ s[n + 1] \notin S => f[n + 1] = f[n]
                /\ Selected(s, S) = f[Len(s)]
<1>1. PICK f : /\ f = [i \in 0..Len(s) |-> Round(s, S, f, i)]
               /\ Selected(s, S) = f[Len(s)]
  BY SelectedRounds
<1>2. \A i \in 0..Len(s) : f[i] = Round(s, S, f, i)
  BY <1>1
<1>3. Round(s, S, f, 0) = <<>>
  BY DEF Round
<1>4. f[0] = <<>>
  BY <1>2, <1>3
<1>5. ASSUME NEW n \in Nat, n + 1 <= Len(s)
      PROVE  /\ s[n + 1] \in S => f[n + 1] = Append(f[n], s[n + 1])
             /\ s[n + 1] \notin S => f[n + 1] = f[n]
  <2>1. n + 1 \in 0..Len(s) /\ n + 1 # 0 /\ (n + 1) - 1 = n
    BY <1>5
  <2>2. f[n + 1] = Round(s, S, f, n + 1)
    BY <1>2, <2>1
  <2>3. /\ s[n + 1] \in S => Round(s, S, f, n + 1) = Append(f[(n + 1) - 1], s[n + 1])
        /\ s[n + 1] \notin S => Round(s, S, f, n + 1) = f[(n + 1) - 1]
    BY <2>1, Zenon DEF Round
  <2> QED BY <2>1, <2>2, <2>3
<1> QED BY <1>1, <1>4, <1>5, Zenon

\* Selected leaves out what is not in S, and only that.
LEMMA SelectedElements ==
  ASSUME NEW T, NEW s \in Seq(T), NEW S
  PROVE  /\ Selected(s, S) \in Seq(T)
         /\ \A x : (\E j \in 1..Len(Selected(s, S)) : Selected(s, S)[j] = x)
                     <=> x \in S /\ \E j \in 1..Len(s) : s[j] = x
<1>1. PICK f : /\ f[0] = <<>>
               /\ \A n \in Nat : n + 1 <= Len(s) =>
                    /\ s[n + 1] \in S => f[n + 1] = Append(f[n], s[n + 1])
                    /\ s[n + 1] \notin S => f[n + 1] = f[n]
               /\ Selected(s, S) = f[Len(s)]
  BY SelectedSteps, Zenon
<1> DEFINE P(n) == /\ f[n] \in Seq(T)
                   /\ \A x : (\E j \in 1..Len(f[n]) : f[n][j] = x)
                               <=> x \in S /\ \E j \in 1..n : s[j] = x
           N == {n \in Nat : n <= Len(s) => P(n)}
<1>3. 0 \in N
  <2>1. <<>> \in Seq(T) /\ Len(<<>>) = 0
    OBVIOUS
  <2>2. P(0)
    BY <1>1, <2>1
  <2> HIDE DEF P
  <2> QED BY <2>2
<1>4. ASSUME NEW n \in Nat, n + 1 <= Len(s), P(n) PROVE P(n + 1)
  <2>2. CASE s[n + 1] \in S
    <3>1. f[n + 1] = Append(f[n], s[n + 1])
      BY <1>1, <1>4, <2>2
    <3>2. s[n + 1] \in T
      BY <1>4
    <3>3. /\ f[n + 1] \in Seq(T) /\ Len(f[n + 1]) = Len(f[n]) + 1 /\ Len(f[n]) \in Nat
          /\ f[n + 1][Len(f[n]) + 1] = s[n + 1]
          /\ \A j \in 1..Len(f[n]) : f[n + 1][j] = f[n][j]
      BY <1>4, <3>1, <3>2
    <3>4. ASSUME NEW x, NEW j \in 1..Len(f[n + 1]), f[n + 1][j] = x
          PROVE  x \in S /\ \E k \in 1..(n + 1) : s[k] = x
      <4>1. CASE j = Len(f[n]) + 1
        BY <2>2, <3>3, <3>4, <4>1
      <4>2. CASE j \in 1..Len(f[n])
        <5>1. f[n][j] = x
          BY <3>3, <3>4, <4>2
        <5>2. x \in S /\ \E k \in 1..n : s[k] = x
          BY <1>4, <4>2, <5>1
        <5> QED BY <5>2
      <4> QED BY <3>3, <4>1, <4>2
    <3>5. ASSUME NEW x \in S, NEW k \in 1..(n + 1), s[k] = x
          PROVE  \E j \in 1..Len(f[n + 1]) : f[n + 1][j] = x
      <4>1. CASE k = n + 1
        BY <3>3, <3>5, <4>1
      <4>2. CASE k \in 1..n
        <5>1. PICK j \in 1..Len(f[n]) : f[n][j] = x
          BY <1>4, <3>5, <4>2
        <5>2. j \in 1..Len(f[n + 1]) /\ f[n + 1][j] = x
          BY <3>3, <5>1
        <5> QED BY <5>2, Zenon
      <4> QED BY <4>1, <4>2
    <3> QED BY <3>3, <3>4, <3>5, Zenon
  <2>3. CASE s[n + 1] \notin S
    <3>1. f[n + 1] = f[n]
      BY <1>1, <1>4, <2>3
    <3>2. \A x \in S : (\E k \in 1..(n + 1) : s[k] = x) <=> (\E k \in 1..n : s[k] = x)
      BY <2>3
    <3> QED BY <1>4, <3>1, <3>2
  <2> QED BY <2>2, <2>3
<1>5. \A n \in Nat : n \in N => n + 1 \in N
  <2> HIDE DEF P
  <2> QED BY <1>4
<1>6. \A n \in Nat : n \in N
  <2> HIDE DEF N
  <2> QED BY <1>3, <1>5, SetInduction
<1>7. P(Len(s))
  <2> HIDE DEF P
  <2> QED BY <1>6
<1> QED BY <1>1, <1>7

\* The positions that are selected stay in their order.
LEMMA SelectedIncreases ==
  ASSUME NEW m \in Nat, NEW S
  PROVE  LET sel == Selected([v \in 1..m |-> v], S)
         IN \A j, k \in 1..Len(sel) : j < k => sel[j] < sel[k]
<1> DEFINE s == [v \in 1..m |-> v]
<1>1. s \in Seq(Nat) /\ Len(s) = m
  OBVIOUS
<1>2. PICK f : /\ f[0] = <<>>
               /\ \A n \in Nat : n + 1 <= Len(s) =>
                    /\ s[n + 1] \in S => f[n + 1] = Append(f[n], s[n + 1])
                    /\ s[n + 1] \notin S => f[n + 1] = f[n]
               /\ Selected(s, S) = f[Len(s)]
  <2> HIDE DEF s
  <2> QED BY <1>1, SelectedSteps
<1>3. \A n \in Nat : n + 1 <= m => s[n + 1] = n + 1
  OBVIOUS
<1> HIDE DEF s
<1> DEFINE P(n) == /\ f[n] \in Seq(Nat)
                   /\ \A j \in 1..Len(f[n]) : f[n][j] <= n
                   /\ \A j, k \in 1..Len(f[n]) : j < k => f[n][j] < f[n][k]
           N == {n \in Nat : n <= m => P(n)}
<1>4. 0 \in N
  <2>1. <<>> \in Seq(Nat) /\ Len(<<>>) = 0
    OBVIOUS
  <2>2. P(0)
    BY <1>2, <2>1
  <2> HIDE DEF P
  <2> QED BY <2>2
<1>5. ASSUME NEW n \in Nat, n + 1 <= m, P(n) PROVE P(n + 1)
  <2>2. CASE n + 1 \in S
    <3>1. f[n + 1] = Append(f[n], n + 1)
      BY <1>1, <1>2, <1>3, <1>5, <2>2
    <3>2. /\ f[n + 1] \in Seq(Nat) /\ Len(f[n + 1]) = Len(f[n]) + 1 /\ Len(f[n]) \in Nat
          /\ f[n + 1][Len(f[n]) + 1] = n + 1
          /\ \A j \in 1..Len(f[n]) : f[n + 1][j] = f[n][j] /\ f[n][j] \in Nat
      BY <1>5, <3>1
    <3>3. ASSUME NEW j \in 1..Len(f[n]) PROVE f[n + 1][j] \in Nat /\ f[n + 1][j] <= n
      BY <1>5, <3>2, Zenon
    <3>4. ASSUME NEW j \in 1..Len(f[n + 1]) PROVE f[n + 1][j] <= n + 1
      <4>1. CASE j = Len(f[n]) + 1
        BY <3>2, <4>1
      <4>2. CASE j \in 1..Len(f[n])
        <5>1. f[n + 1][j] \in Nat /\ f[n + 1][j] <= n
          BY <3>3, <4>2
        <5> QED BY <5>1
      <4> QED BY <3>2, <4>1, <4>2
    <3>5. ASSUME NEW j \in 1..Len(f[n + 1]), NEW k \in 1..Len(f[n + 1]), j < k
          PROVE  f[n + 1][j] < f[n + 1][k]
      <4>1. j \in 1..Len(f[n])
        BY <3>2, <3>5
      <4>2. CASE k = Len(f[n]) + 1
        <5>1. f[n + 1][j] \in Nat /\ f[n + 1][j] <= n
          BY <3>3, <4>1
        <5>2. f[n + 1][k] = n + 1
          BY <3>2, <4>2
        <5> QED BY <5>1, <5>2
      <4>3. CASE k \in 1..Len(f[n])
        BY <1>5, <3>2, <3>5, <4>1, <4>3
      <4>4. k = Len(f[n]) + 1 \/ k \in 1..Len(f[n])
        BY <3>2
      <4> QED BY <4>2, <4>3, <4>4
    <3> QED BY <3>2, <3>4, <3>5
  <2>3. CASE n + 1 \notin S
    <3>1. f[n + 1] = f[n]
      BY <1>1, <1>2, <1>3, <1>5, <2>3
    <3>2. ASSUME NEW j \in 1..Len(f[n]) PROVE f[n][j] <= n + 1
      <4>1. f[n][j] \in Nat /\ f[n][j] <= n
        BY <1>5
      <4> QED BY <4>1
    <3> QED BY <1>5, <3>1, <3>2, Zenon
  <2> QED BY <2>2, <2>3
<1>6. \A n \in Nat : n \in N => n + 1 \in N
  <2> HIDE DEF P
  <2> QED BY <1>5
<1>7. \A n \in Nat : n \in N
  <2> HIDE DEF N
  <2> QED BY <1>4, <1>6, SetInduction
<1>8. P(m)
  <2> HIDE DEF P
  <2> QED BY <1>7
<1> QED BY <1>1, <1>2, <1>8 DEF s

-----------------------------------------------------------------------------
(* Lists of exports. *)

\* A list of no exports.
LEMMA EmptyList == <<>> \in Seq(STRING) /\ \A x : x \notin Range(<<>>)
BY DEF Range

\* The positions of the volumes are positive numbers.
LEMMA VolumeIds == \A v \in DOMAIN Volumes : v \in Nat /\ v > 0
<1>1. DOMAIN Volumes = 1..Len(Volumes) /\ Len(Volumes) \in Nat
  BY NetappAssumption
<1> QED BY <1>1

\* The exports of a list are the first one and those after it.
LEMMA ListParts ==
  ASSUME NEW s \in Seq(STRING), s # <<>>
  PROVE  /\ Head(s) \in STRING /\ Tail(s) \in Seq(STRING)
         /\ \A x : x \in Range(s) <=> x = Head(s) \/ x \in Range(Tail(s))
<1>1. /\ Head(s) = s[1] /\ Head(s) \in STRING /\ Tail(s) \in Seq(STRING) /\ Len(s) \in Nat \ {0}
      /\ Len(Tail(s)) = Len(s) - 1 /\ \A i \in 1..Len(Tail(s)) : Tail(s)[i] = s[i + 1]
      /\ DOMAIN s = 1..Len(s) /\ DOMAIN Tail(s) = 1..Len(Tail(s))
  OBVIOUS
<1>2. ASSUME NEW i \in DOMAIN s PROVE s[i] = Head(s) \/ s[i] \in Range(Tail(s))
  <2>1. CASE i = 1
    BY <1>1, <2>1
  <2>2. CASE i # 1
    <3>1. i - 1 \in 1..Len(Tail(s)) /\ (i - 1) + 1 = i
      BY <1>1, <2>2
    <3>2. Tail(s)[i - 1] = s[i]
      BY <1>1, <3>1
    <3> QED BY <1>1, <3>1, <3>2 DEF Range
  <2> QED BY <2>1, <2>2
<1>3. ASSUME NEW i \in DOMAIN Tail(s) PROVE Tail(s)[i] \in Range(s)
  <2>1. i + 1 \in 1..Len(s) /\ Tail(s)[i] = s[i + 1]
    BY <1>1
  <2> QED BY <1>1, <2>1 DEF Range
<1>4. Head(s) \in Range(s)
  BY <1>1 DEF Range
<1> QED BY <1>1, <1>2, <1>3, <1>4 DEF Range

\* Joined lists have the exports of both.
LEMMA ListConcat ==
  ASSUME NEW s \in Seq(STRING), NEW t \in Seq(STRING)
  PROVE  s \o t \in Seq(STRING) /\ Range(s) \subseteq Range(s \o t) /\ Range(t) \subseteq Range(s \o t)
<1>1. /\ s \o t \in Seq(STRING) /\ Len(s \o t) = Len(s) + Len(t)
      /\ Len(s) \in Nat /\ Len(t) \in Nat
      /\ \A i \in 1..Len(s) : (s \o t)[i] = s[i]
      /\ \A i \in 1..Len(t) : (s \o t)[Len(s) + i] = t[i]
      /\ DOMAIN s = 1..Len(s) /\ DOMAIN t = 1..Len(t) /\ DOMAIN (s \o t) = 1..Len(s \o t)
  OBVIOUS
<1>2. ASSUME NEW i \in DOMAIN s PROVE s[i] \in Range(s \o t)
  <2>1. i \in DOMAIN (s \o t) /\ (s \o t)[i] = s[i]
    BY <1>1
  <2> QED BY <2>1 DEF Range
<1>3. ASSUME NEW i \in DOMAIN t PROVE t[i] \in Range(s \o t)
  <2>1. Len(s) + i \in DOMAIN (s \o t) /\ (s \o t)[Len(s) + i] = t[i]
    BY <1>1
  <2> QED BY <2>1 DEF Range
<1> QED BY <1>1, <1>2, <1>3 DEF Range

\* filter-exports keeps the lines that the filters select, and no others.
LEMMA FilterOK ==
  ASSUME NEW lines \in Seq(STRING)
  PROVE  /\ filter_exports(lines) \in Seq(STRING)
         /\ \A p \in Range(filter_exports(lines)) : Wanted(p)
         /\ ~FilterFails => \A p \in Range(lines) : Wanted(p) => p \in Range(filter_exports(lines))
<1> DEFINE inc == pFilters.includes
           exc == pFilters.excludes
           keep(e) == match(e, inc, TRUE) /\ ~match(e, exc, FALSE)
           K == {e \in {lines[i] : i \in DOMAIN lines} : keep(e)}
<1>1. \A e : keep(e) <=> Wanted(e)
  BY DEF match, Wanted
<1>2. CASE FilterFails
  BY <1>2 DEF filter_exports, Range
<1>3. CASE ~FilterFails /\ inc = {} /\ exc = {}
  <2>1. filter_exports(lines) = lines
    BY <1>3 DEF filter_exports, runFilter
  <2>2. \A p : Wanted(p)
    BY <1>3 DEF Wanted
  <2> QED BY <2>1, <2>2
<1>4. CASE ~FilterFails /\ ~(inc = {} /\ exc = {})
  <2>1. filter_exports(lines) = Selected(lines, K)
    BY <1>4 DEF filter_exports, runFilter
  <2>2. \A e : e \in K <=> e \in Range(lines) /\ Wanted(e)
    BY <1>1, Zenon DEF Range
  <2> HIDE DEF K
  <2>3. /\ Selected(lines, K) \in Seq(STRING)
        /\ \A x : (\E j \in 1..Len(Selected(lines, K)) : Selected(lines, K)[j] = x)
                    <=> x \in K /\ \E j \in 1..Len(lines) : lines[j] = x
    BY SelectedElements
  <2>4. \A x : x \in Range(Selected(lines, K)) <=> x \in K /\ x \in Range(lines)
    <3>1. DOMAIN lines = 1..Len(lines) /\ DOMAIN Selected(lines, K) = 1..Len(Selected(lines, K))
      BY <2>3
    <3> QED BY <2>3, <3>1 DEF Range
  <2> QED BY <2>1, <2>2, <2>3, <2>4
<1> QED BY <1>2, <1>3, <1>4

\* A page has the paths of all volumes up to the one that the link to the next page
\* names, or of all volumes when there is no link.
LEMMA PageOK ==
  ASSUME nVolumes \subseteq DOMAIN Volumes, NEW after \in Nat
  PROVE  LET page == FetchNextPage(after) IN
         /\ page.paths \in Seq(STRING) /\ page.next \in Nat
         /\ \A v \in nVolumes :
              v > after /\ (page.next = 0 \/ v <= page.next) /\ Volumes[v] # "" =>
                Volumes[v] \in Range(page.paths)
<1> DEFINE m == Len(Volumes)
           ids == [v \in DOMAIN Volumes |-> v]
           S == {v \in nVolumes : v > after}
           rest == Selected(ids, S)
           page == SubSeq(rest, 1, IF Len(rest) < PageSize THEN Len(rest) ELSE PageSize)
           all == [i \in DOMAIN page |-> Volumes[page[i]]]
           K == {Volumes[v] : v \in nVolumes} \ {""}
           paths == Selected(all, K)
           next == IF Len(rest) > PageSize THEN page[PageSize] ELSE 0
<1>1. FetchNextPage(after) = [paths |-> paths, next |-> next]
  BY DEF FetchNextPage
<1>2. m \in Nat /\ DOMAIN Volumes = 1..m /\ ids = [v \in 1..m |-> v] /\ PageSize \in Nat \ {0}
      /\ \A v \in DOMAIN Volumes : Volumes[v] \in STRING
  BY NetappAssumption
<1>3. ids \in Seq(1..m) /\ Len(ids) = m /\ \A j \in 1..m : ids[j] = j
  BY <1>2
<1>4. S \subseteq 1..m
  BY <1>2
<1>5. /\ rest \in Seq(1..m)
      /\ \A x : (\E j \in 1..Len(rest) : rest[j] = x) <=> x \in S
  <2> HIDE DEF ids, S, m
  <2>1. /\ rest \in Seq(1..m)
        /\ \A x : (\E j \in 1..Len(rest) : rest[j] = x) <=> x \in S /\ \E j \in 1..Len(ids) : ids[j] = x
    BY <1>3, SelectedElements
  <2> QED BY <1>3, <1>4, <2>1, Zenon
<1>6. \A j, k \in 1..Len(rest) : j < k => rest[j] < rest[k]
  <2> HIDE DEF S, m
  <2> QED BY <1>2, SelectedIncreases
<1> DEFINE len == IF Len(rest) < PageSize THEN Len(rest) ELSE PageSize
<1>7. /\ Len(rest) \in Nat /\ len \in Nat /\ len <= Len(rest)
      /\ page \in Seq(1..m) /\ Len(page) = len
      /\ \A j \in 1..len : page[j] = rest[j] /\ page[j] \in 1..m
  <2> HIDE DEF rest, m
  <2> QED BY <1>2, <1>5
<1>8. next \in Nat /\ (Len(rest) > PageSize => len = PageSize /\ next = rest[PageSize] /\ next # 0)
  <2> HIDE DEF rest, m
  <2> QED BY <1>2, <1>5, <1>7
<1>9. \A v \in nVolumes : v > after => \E j \in 1..Len(rest) : rest[j] = v
  BY <1>5, Zenon
<1> HIDE DEF m, rest, page, len, next
<1>10. ASSUME NEW v \in nVolumes, v > after, next = 0 \/ v <= next
       PROVE  \E j \in 1..len : page[j] = v
  <2>1. PICK j \in 1..Len(rest) : rest[j] = v
    BY <1>9, <1>10
  <2>2. j <= len
    <3>1. CASE Len(rest) > PageSize
      <4>1. len = PageSize /\ v <= rest[PageSize] /\ PageSize \in 1..Len(rest)
        BY <1>2, <1>7, <1>8, <1>10, <3>1
      <4>2. ~(PageSize < j)
        <5>1. v \in Nat /\ rest[PageSize] \in Nat
          BY <1>2, <1>5, <2>1, <4>1
        <5> QED BY <1>6, <2>1, <4>1, <5>1
      <4> QED BY <1>2, <4>1, <4>2
    <3>2. CASE ~(Len(rest) > PageSize)
      BY <1>2, <1>7, <3>2 DEF len
    <3> QED BY <3>1, <3>2
  <2> QED BY <1>7, <2>1, <2>2
<1>11. /\ all \in Seq(STRING) /\ Len(all) = len
       /\ \A j \in 1..len : all[j] = Volumes[page[j]]
  BY <1>2, <1>7
<1>12. \A v \in nVolumes : Volumes[v] # "" => Volumes[v] \in K
  OBVIOUS
<1> HIDE DEF all, K
<1>13. /\ paths \in Seq(STRING)
       /\ \A x : (\E j \in 1..Len(paths) : paths[j] = x) <=> x \in K /\ \E j \in 1..Len(all) : all[j] = x
  BY <1>11, SelectedElements
<1> HIDE DEF paths
<1>14. ASSUME NEW v \in nVolumes, v > after, next = 0 \/ v <= next, Volumes[v] # ""
       PROVE  Volumes[v] \in Range(paths)
  <2>1. PICK j \in 1..len : page[j] = v
    BY <1>10, <1>14, Zenon
  <2>2. all[j] = Volumes[v] /\ j \in 1..Len(all)
    BY <1>11, <2>1
  <2>3. PICK k \in 1..Len(paths) : paths[k] = Volumes[v]
    BY <1>12, <1>13, <1>14, <2>2, Zenon
  <2>4. DOMAIN paths = 1..Len(paths)
    BY <1>13
  <2> QED BY <2>3, <2>4 DEF Range
<1>15. FetchNextPage(after).paths = paths /\ FetchNextPage(after).next = next
  BY <1>1
<1> QED BY <1>8, <1>13, <1>14, <1>15, Zenon

-----------------------------------------------------------------------------
(* knfsd-fsidd. *)

\* The deadlines of a start lie within TimeoutStartSec.
ClockInv ==
  /\ fClock \in Nat /\ fEnd \in Nat /\ fUntil \in Nat /\ fCur \in Nat
  /\ fSignal \in {"none", "stop"}
  /\ fPc = "connect" => fUntil = ConnectTime
  /\ fPc \in {"attempt", "sleep"} =>
       fUntil <= fEnd /\ fEnd <= ConnectTime + bootRetryDeadline
  /\ fPc = "shutdown" => fUntil <= ConnectTime + bootRetryDeadline + MetricsShutdown
  /\ fPc \in {"connect", "attempt", "sleep", "shutdown"} => fClock <= fUntil
  /\ fPc = "socket" => fClock = 0

\* Unless it was told to stop, a start holds on to the last error seen in the budget,
\* in lastErr and then in its report.
ErrInv ==
  /\ fPc \in {"connect", "socket", "serving"} => fSeen = "nil"
  /\ fPc \in {"attempt", "sleep"} /\ fSignal = "none" /\ fSeen # "nil" => fLastErr = fSeen
  /\ fPc = "shutdown" /\ fSignal = "none" /\ fSeen # "nil" => fReport = checkTableHint(fSeen)
  /\ fPc = "failed" /\ fSeen # "nil" => fReport = checkTableHint(fSeen)

\* A process has the configuration that is deployed.
ProcessInv ==
  /\ fPc \in Running \cup {"off", "failed", "serving"}
  /\ fPc # "off" => fConfig = loadConfig(fFile, fSettings)
  /\ fPc = "serving" => fSignal = "none"

BInv == ClockInv /\ ErrInv /\ ProcessInv

\* The earlier one of two deadlines.
LEMMA MinOfTwo ==
  ASSUME NEW a \in Nat, NEW b \in Nat
  PROVE  Min({a, b}) \in Nat /\ Min({a, b}) <= a /\ Min({a, b}) <= b /\ Min({a, b}) \in {a, b}
BY DEF Min

\* main, up to run: it has a configuration that is deployed, or the start has
\* failed.
LEMMA StartProcessOK ==
  ASSUME BInv, NEW n, StartProcess(n)
  PROVE  BInv' /\ fPc' \in {"connect", "failed"} /\ UNCHANGED <<fFile, fSettings>>
<1>1. ClockInv'
  BY BootAssumption DEF StartProcess, ResetCheck, ClockInv
<1>2. ErrInv'
  BY DEF StartProcess, ResetCheck, ErrInv
<1>3. ProcessInv'
  BY DEF StartProcess, ProcessInv, Running
<1> QED BY <1>1, <1>2, <1>3 DEF BInv, StartProcess

\* A unit that is stopped.
LEMMA NoProcessOK ==
  ASSUME NoProcess
  PROVE  BInv' /\ fPc' = "off"
<1>1. ClockInv'
  BY BootAssumption DEF NoProcess, ResetCheck, ClockInv
<1>2. ErrInv'
  BY DEF NoProcess, ResetCheck, ErrInv
<1>3. ProcessInv'
  BY DEF NoProcess, ProcessInv
<1> QED BY <1>1, <1>2, <1>3 DEF BInv, NoProcess

\* systemctl stop leaves no process, or one that has been told to stop.
LEMMA StopServiceOK ==
  ASSUME BInv, StopService
  PROVE  /\ BInv' /\ UNCHANGED <<fFile, fSettings>>
         /\ fPc' = "off" \/ (fPc' \in Running /\ fSignal' = "stop")
<1>1. CASE fPc \in {"off", "failed", "serving"}
  BY <1>1, NoProcessOK DEF StopService
<1>2. CASE fPc \notin {"off", "failed", "serving"}
  <2>1. /\ fSignal' = "stop" /\ UNCHANGED <<fPc, fConfig, fClock, fReport, fStarts, fEnd, fUntil, fCur>>
        /\ UNCHANGED <<fLastErr, fSeen, fFile, fSettings>>
    BY <1>2 DEF StopService, checkVars
  <2>2. ClockInv'
    BY <2>1 DEF BInv, ClockInv
  <2>3. ErrInv'
    BY <1>2, <2>1 DEF BInv, ErrInv
  <2>4. ProcessInv' /\ fPc' \in Running
    BY <1>2, <2>1 DEF BInv, ProcessInv
  <2> QED BY <2>1, <2>2, <2>3, <2>4 DEF BInv
<1> QED BY <1>1, <1>2

\* What the script may rely on while knfsd-fsidd takes a step.
Steps ==
  /\ fPc \notin {"off", "serving"} /\ UNCHANGED <<fFile, fSettings>>
  /\ fPc \in Running /\ fSignal = "stop" =>
       fPc' = "off" \/ (fPc' \in Running /\ fSignal' = "stop")

\* A process that serves dies: nothing is left of the errors of its start.
LEMMA CrashOK ==
  ASSUME BInv, Crash
  PROVE  BInv'
<1>1. /\ fPc = "serving" /\ fPc' = "failed"
      /\ UNCHANGED <<fFile, fSettings, fConfig, fClock, fSignal, fReport, fEnd, fUntil, fCur, fLastErr, fSeen>>
  BY DEF Crash, checkVars
<1>2. ClockInv'
  BY <1>1 DEF BInv, ClockInv
<1>3. ErrInv'
  BY <1>1 DEF BInv, ErrInv
<1>4. ProcessInv'
  BY <1>1 DEF BInv, ProcessInv
<1> QED BY <1>2, <1>3, <1>4 DEF BInv

\* connect: the budget of checkTable begins, or run returns the error.
LEMMA ConnectOK ==
  ASSUME BInv, NEW ok \in BOOLEAN, Connect(ok)
  PROVE  BInv' /\ Steps
<1>1. /\ fPc = "connect" /\ UNCHANGED <<fFile, fSettings, fConfig, fClock, fSeen, fSignal>>
      /\ fClock \in Nat /\ fClock <= ConnectTime /\ fSeen = "nil"
  BY Zenon DEF Connect, BInv, ClockInv, ErrInv
<1>2. CASE ok
  <2>1. /\ fPc' = "attempt" /\ fEnd' = fClock + bootRetryDeadline /\ fCur' = fCur
        /\ fUntil' = Min({fClock + checkTableAttemptTimeout, fClock + bootRetryDeadline})
    BY <1>2 DEF Connect, StartAttempt
  <2>2. /\ fUntil' \in Nat /\ fUntil' <= fEnd' /\ fClock <= fUntil' /\ fEnd' \in Nat
        /\ fEnd' <= ConnectTime + bootRetryDeadline
    <3>1. /\ fClock + checkTableAttemptTimeout \in Nat /\ fClock + bootRetryDeadline \in Nat
          /\ fClock <= fClock + checkTableAttemptTimeout
          /\ fClock + bootRetryDeadline <= ConnectTime + bootRetryDeadline
          /\ fClock <= fClock + bootRetryDeadline
      BY <1>1, BootAssumption
    <3> QED BY <2>1, <3>1, MinOfTwo
  <2>3. ClockInv'
    BY <1>1, <2>1, <2>2 DEF BInv, ClockInv
  <2> QED BY <1>1, <2>1, <2>3 DEF BInv, ErrInv, ProcessInv, Running, Steps
<1>3. CASE ~ok
  <2>1. fPc' = "shutdown" /\ fUntil' = fClock + MetricsShutdown /\ UNCHANGED <<fEnd, fCur>>
    BY <1>3, Zenon DEF Connect, RunEnds
  <2>2. ClockInv'
    BY <1>1, <2>1, BootAssumption DEF BInv, ClockInv
  <2> QED BY <1>1, <2>1, <2>2 DEF BInv, ErrInv, ProcessInv, Running, Steps
<1> QED BY <1>2, <1>3

\* DescribeTable succeeds, and checkTable returns nil.
LEMMA AttemptSucceedsOK ==
  ASSUME BInv, AttemptSucceeds
  PROVE  BInv' /\ Steps
<1>1. ClockInv'
  BY DEF AttemptSucceeds, ResetCheck, BInv, ClockInv
<1>2. ErrInv'
  BY DEF AttemptSucceeds, ResetCheck, ErrInv
<1>3. ProcessInv'
  BY DEF AttemptSucceeds, BInv, ProcessInv, Running
<1> QED BY <1>1, <1>2, <1>3 DEF BInv, AttemptSucceeds, Steps, Running

\* checkTable ends, and run returns.
LEMMA CheckFailsOK ==
  ASSUME BInv, fPc \in {"attempt", "sleep"}, NEW e, NEW last, CheckFails(e, last),
         UNCHANGED <<fFile, fSettings, fConfig, fClock, fSignal, fStarts>>,
         fSignal = "none" /\ fSeen' # "nil" => last = fSeen'
  PROVE  BInv' /\ Steps
<1>1. /\ fPc' = "shutdown" /\ fUntil' = fClock + MetricsShutdown /\ UNCHANGED <<fEnd, fCur>>
      /\ fReport' = IF fSignal # "none" THEN e ELSE checkTableHint(IF last = "nil" THEN e ELSE last)
  BY DEF CheckFails, RunEnds
<1>2. ClockInv'
  BY <1>1, BootAssumption DEF BInv, ClockInv
<1>3. ErrInv'
  <2>1. ASSUME fSignal = "none", fSeen' # "nil" PROVE fReport' = checkTableHint(fSeen')
    BY <1>1, <2>1
  <2>2. (fSignal = "none" /\ fSeen # "nil" => fReport = checkTableHint(fSeen))'
    BY <2>1 DEF checkTableHint
  <2> QED BY <1>1, <2>2 DEF ErrInv
<1>4. ProcessInv'
  BY <1>1 DEF BInv, ProcessInv, Running
<1> QED BY <1>1, <1>2, <1>3, <1>4 DEF BInv, Steps, Running

\* DescribeTable fails: lastErr is the last error seen in the budget, and a
\* pause ends before the budget.
LEMMA AttemptFailsOK ==
  ASSUME BInv, NEW a \in Answers \cup {"ContextEnded"}, AttemptFails(a)
  PROVE  BInv' /\ Steps
<1> DEFINE e == IF ~BootEnded /\ fClock >= fUntil THEN "AttemptTimeout" ELSE a
<1>1. /\ fPc = "attempt" /\ UNCHANGED <<fFile, fSettings, fConfig, fClock, fSignal, fStarts>>
      /\ fLastErr' = lastErr(e)
      /\ fSeen' = IF BootEnded THEN fSeen ELSE e
  BY DEF AttemptFails
<1>2. e # "nil"
  BY DEF Answers
<1>3. PICK pause \in Pauses :
        IF ShouldRetryBoot(e) /\ fClock + pause < fEnd
        THEN /\ fPc' = "sleep" /\ fUntil' = fClock + pause /\ fCur' = nextCur
             /\ UNCHANGED <<fEnd, fReport>>
        ELSE CheckFails(e, lastErr(e))
  BY DEF AttemptFails
<1> HIDE DEF e
<1>4. fSignal = "none" /\ fSeen' # "nil" => lastErr(e) = fSeen'
  BY <1>1, <1>2 DEF lastErr, BInv, ErrInv
<1>5. CASE ShouldRetryBoot(e) /\ fClock + pause < fEnd
  <2>1. /\ fPc' = "sleep" /\ fUntil' = fClock + pause /\ fCur' = nextCur /\ fEnd' = fEnd
        /\ fReport' = fReport
    BY <1>3, <1>5
  <2>2. pause \in Nat
    <3>1. fCur \div PauseScale \in Nat
      BY BootAssumption DEF BInv, ClockInv
    <3> QED BY <3>1 DEF Pauses
  <2>3. nextCur \in Nat
    <3>1. 2 * fCur \in Nat /\ bootRetryDeadline * PauseScale \in Nat
      BY BootAssumption DEF BInv, ClockInv
    <3> QED BY <3>1, MinOfTwo DEF nextCur
  <2>4. ClockInv'
    BY <1>1, <1>5, <2>1, <2>2, <2>3 DEF BInv, ClockInv
  <2>5. ErrInv'
    BY <1>1, <1>4, <2>1 DEF ErrInv
  <2> QED BY <1>1, <2>1, <2>4, <2>5 DEF BInv, ProcessInv, Steps, Running
<1>6. CASE ~(ShouldRetryBoot(e) /\ fClock + pause < fEnd)
  BY <1>1, <1>3, <1>4, <1>6, CheckFailsOK
<1> QED BY <1>5, <1>6

\* A pause ends with the next attempt, or with the signal.
LEMMA SleepOK ==
  ASSUME BInv, Sleep
  PROVE  BInv' /\ Steps
<1>1. /\ fPc = "sleep"
      /\ UNCHANGED <<fFile, fSettings, fConfig, fClock, fLastErr, fSeen, fSignal, fStarts>>
  BY DEF Sleep
<1>2. CASE fClock >= fUntil /\ StartAttempt(fEnd) /\ UNCHANGED fReport
  <2>1. /\ fPc' = "attempt" /\ fEnd' = fEnd /\ fCur' = fCur
        /\ fUntil' = Min({fClock + checkTableAttemptTimeout, fEnd})
    BY <1>2 DEF StartAttempt
  <2>2. /\ fClock \in Nat /\ fEnd \in Nat /\ fClock <= fEnd
        /\ fEnd <= ConnectTime + bootRetryDeadline
    BY <1>1 DEF BInv, ClockInv
  <2>3. fUntil' \in Nat /\ fUntil' <= fEnd /\ fClock <= fUntil'
    BY <2>1, <2>2, MinOfTwo, BootAssumption
  <2>4. ClockInv'
    BY <1>1, <2>1, <2>2, <2>3 DEF BInv, ClockInv
  <2> QED BY <1>1, <2>1, <2>4 DEF BInv, ErrInv, ProcessInv, Running, Steps
<1>3. CASE fSignal # "none" /\ CheckFails("ContextEnded", fLastErr)
  BY <1>1, <1>3, CheckFailsOK
<1> QED BY <1>2, <1>3 DEF Sleep

\* The service is ready, unless it was told to stop.
LEMMA ServeSocketOK ==
  ASSUME BInv, NEW ok \in BOOLEAN, ServeSocket(ok)
  PROVE  BInv' /\ Steps
<1>1. /\ fPc = "socket" /\ fClock = 0 /\ fSeen = "nil"
      /\ UNCHANGED <<fFile, fSettings, fConfig, fClock, fLastErr, fSeen, fSignal, fStarts>>
  BY DEF ServeSocket, BInv, ClockInv, ErrInv
<1>2. CASE ok /\ fSignal = "none"
  <2>1. fPc' = "serving" /\ UNCHANGED <<fReport, fEnd, fCur, fUntil>>
    BY <1>2 DEF ServeSocket
  <2> QED BY <1>1, <1>2, <2>1 DEF BInv, ClockInv, ErrInv, ProcessInv, Running, Steps
<1>3. CASE ~(ok /\ fSignal = "none")
  <2>1. fPc' = "shutdown" /\ fUntil' = fClock + MetricsShutdown /\ UNCHANGED <<fEnd, fCur>>
    BY <1>3 DEF ServeSocket, RunEnds
  <2>2. ClockInv'
    BY <1>1, <2>1, BootAssumption DEF BInv, ClockInv
  <2> QED BY <1>1, <2>1, <2>2 DEF BInv, ErrInv, ProcessInv, Running, Steps
<1> QED BY <1>2, <1>3

\* The process ends after the metrics are shut down.
LEMMA EndProcessOK ==
  ASSUME BInv, EndProcess
  PROVE  BInv' /\ Steps
<1>1. fPc = "shutdown" /\ UNCHANGED <<fFile, fSettings>>
  BY DEF EndProcess
<1>2. CASE fSignal = "stop"
  BY <1>1, <1>2, NoProcessOK DEF EndProcess, Steps
<1>3. CASE fSignal # "stop"
  <2>1. /\ fPc' = "failed" /\ fClock' = 0 /\ fEnd' = 0 /\ fUntil' = 0 /\ fCur' = 1
        /\ UNCHANGED <<fConfig, fSignal, fSeen, fReport>> /\ fSignal = "none"
    BY <1>3 DEF EndProcess, BInv, ClockInv
  <2>2. ClockInv'
    BY <2>1 DEF ClockInv
  <2>3. ErrInv'
    BY <1>1, <2>1 DEF BInv, ErrInv, checkTableHint
  <2> QED BY <1>1, <2>1, <2>2, <2>3 DEF BInv, ProcessInv, Steps
<1> QED BY <1>2, <1>3

\* Time passes up to the next deadline only, and so never to TimeoutStartSec.
LEMMA PassTimeOK ==
  ASSUME BInv, PassTime
  PROVE  BInv' /\ Steps
<1>1. /\ fPc \in {"attempt", "sleep", "connect", "shutdown"} /\ fClock < fUntil
      /\ fClock' = fClock + 1
      /\ fSignal' = IF fSignal = "none" /\ fClock' >= TimeoutStartSec THEN "timeout" ELSE fSignal
      /\ UNCHANGED <<fFile, fSettings, fPc, fConfig, fReport, fEnd, fUntil, fCur, fLastErr, fSeen>>
  BY DEF PassTime, checkVars
<1>2. /\ fClock \in Nat /\ fUntil \in Nat /\ fEnd \in Nat
      /\ fUntil <= ConnectTime + bootRetryDeadline + MetricsShutdown
  BY <1>1, BootAssumption DEF BInv, ClockInv
<1>3. fClock' \in Nat /\ fClock' <= fUntil /\ fClock' < TimeoutStartSec
  BY <1>1, <1>2, BootAssumption
<1>4. fSignal' = fSignal
  BY <1>1, <1>3, BootAssumption
<1>5. ClockInv'
  BY <1>1, <1>3, <1>4 DEF BInv, ClockInv
<1>6. ErrInv'
  BY <1>1, <1>4 DEF BInv, ErrInv, checkTableHint
<1> QED BY <1>1, <1>4, <1>5, <1>6 DEF BInv, ProcessInv, Steps, Running

\* Every step of knfsd-fsidd.
LEMMA BootNextOK ==
  ASSUME BInv, BootNext
  PROVE  BInv' /\ Steps
BY ConnectOK, AttemptSucceedsOK, AttemptFailsOK, SleepOK, ServeSocketOK,
   EndProcessOK, PassTimeOK DEF BootNext

-----------------------------------------------------------------------------
(* The script. *)

StartupSpec == ProxyInit /\ [][ProxyNext]_<<proxyVars, bootVars, netappVars>>

\* Where the script mounts and exports: no process of knfsd-fsidd is left.
Exporting == {"export_map", "export_auto_detect", "netapp-exports", "export_netapp"}

ScriptInv ==
  /\ pPc = "init" => fPc = "off" \/ (fPc \in Running /\ fSignal = "stop")
  /\ pPc \in Exporting => fPc = "off" /\ fFile = pFsid /\ pExports \subseteq pMounted

\* The volumes that netapp-exports has passed are in its list.
NetappInv ==
  /\ nVolumes \subseteq DOMAIN Volumes /\ nSteady \subseteq DOMAIN Volumes
  /\ nNext \in Nat /\ nPaths \in Seq(STRING) /\ nOutput \in Seq(STRING)
  /\ nPc = "fetch" =>
       /\ pPc = "netapp-exports" /\ nSteady \subseteq nVolumes
       /\ \A v \in nSteady : v <= nNext /\ Volumes[v] # "" => Volumes[v] \in Range(nPaths)
  /\ nPc = "exit0" /\ pPc = "netapp-exports" =>
       \A v \in nSteady : Volumes[v] # "" => Volumes[v] \in Range(nOutput)

Allowed(p) == p \in Range(ExportMap) \/ Wanted(p)

\* What is to be served is exported or still to be mounted; nothing else is.
ExportInv ==
  /\ pTodo \in Seq(STRING) /\ pExports \subseteq STRING
  /\ pPc = "export_map" => Range(ExportMap) \subseteq pExports \cup Range(pTodo)
  /\ pPc \in Exporting => \A p \in pExports \cup Range(pTodo) : Allowed(p)
  /\ pPc \in Exporting \ {"export_map"} => Range(ExportMap) \subseteq pExports
  /\ pPc = "export_netapp" =>
       \A v \in nSteady : Volumes[v] # "" /\ Wanted(Volumes[v]) =>
                            Volumes[v] \in pExports \cup Range(pTodo)
  /\ pPc = "netapp-exports" => pTodo = <<>>

\* A server runs, or systemd or the script may start one without any further export.
Due ==
  \/ pNfs # "inactive"
  \/ fPc # "off" /\ pPc # "init"
  \/ pPc \in {"start_fsidd", "start_nfs"}

Later == {"begin", "start_fsidd", "start_nfs", "start_metrics", "ready", "failed"}

\* What is exported before a server runs is all that it is to serve.
Complete ==
  /\ Range(ExportMap) \subseteq pExports
  /\ \A v \in nSteady : Volumes[v] # "" /\ Wanted(Volumes[v]) => Volumes[v] \in pExports
  /\ \A p \in pExports : Allowed(p)

DueInv == Due => pPc \in Later /\ fFile = pFsid /\ pExports \subseteq pMounted /\ Complete

IInv == ClockInv /\ ErrInv /\ ProcessInv /\ ScriptInv /\ NetappInv /\ ExportInv /\ DueInv

-----------------------------------------------------------------------------
(* The script. *)

\* The filters of the parameters do not change.
LEMMA WantedKept ==
  ASSUME pFilters' = pFilters
  PROVE  \A p : (Wanted(p)' <=> Wanted(p)) /\ (Allowed(p)' <=> Allowed(p))
BY DEF Wanted, Allowed

\* What is served stays what it is as long as the script does not export.
LEMMA DueKept ==
  ASSUME DueInv, UNCHANGED <<pFilters, pFsid, pMounted, pExports, nSteady, fFile>>,
         pPc' \in Later, Due' => Due
  PROVE  DueInv'
<1>1. Complete => Complete'
  BY WantedKept, Zenon DEF Complete
<1> QED BY <1>1, Zenon DEF DueInv

\* Where the script mounts and exports, and once it has stopped the services, no
\* server can start.
LEMMA NothingDue ==
  ASSUME IInv, pPc \in Exporting \cup {"init"}
  PROVE  ~Due /\ pNfs = "inactive"
BY Zenon DEF IInv, DueInv, Due, Later, Exporting

\* No process of knfsd-fsidd is left, or only one that has been told to stop, and
\* no start of the NFS server is queued.
LEMMA NoneDue ==
  ASSUME pNfs' = "inactive", fPc' = "off" \/ pPc' = "init", pPc' \notin {"start_fsidd", "start_nfs"}
  PROVE  DueInv'
BY Zenon DEF DueInv, Due

\* Steps that only go on to another function of main, or to the end.
LEMMA ScriptKept ==
  ASSUME IInv, UNCHANGED <<pFilters, pFsid, pTodo, pExports, pMounted, pNfs>>,
         UNCHANGED <<bootVars, netappVars>>,
         pPc \in Later, pPc' \in Later, pPc' \in {"start_fsidd", "start_nfs"} => Due
  PROVE  IInv'
<1>1. UNCHANGED <<fFile, fSettings, fPc, fConfig, fClock, fEnd, fUntil, fCur, fLastErr, fSeen>>
      /\ UNCHANGED <<fSignal, fReport>>
  BY DEF bootVars, checkVars
<1>2. UNCHANGED <<nVolumes, nPc, nNext, nPaths, nOutput, nSteady>>
  BY DEF netappVars
<1>3. ClockInv' /\ ErrInv' /\ ProcessInv'
  BY <1>1 DEF IInv, ClockInv, ErrInv, ProcessInv, checkTableHint, loadConfig
<1>4. ScriptInv'
  BY Zenon DEF ScriptInv, Exporting, Later
<1>5. NetappInv'
  BY <1>2, Zenon DEF IInv, NetappInv, Later
<1>6. ExportInv'
  BY Zenon DEF IInv, ExportInv, Exporting, Later
<1>7. DueInv'
  <2>1. Due' => Due
    BY <1>1, Zenon DEF Due, Later
  <2> QED BY <1>1, <1>2, <2>1, DueKept DEF IInv
<1> QED BY <1>3, <1>4, <1>5, <1>6, <1>7 DEF IInv

\* Steps of the script that leave knfsd-fsidd alone.
LEMMA BootStaysOK ==
  ASSUME BInv, UNCHANGED bootVars
  PROVE  BInv'
<1>1. UNCHANGED <<fFile, fSettings, fPc, fConfig, fClock, fEnd, fUntil, fCur, fLastErr, fSeen>>
      /\ UNCHANGED <<fSignal, fReport>>
  BY DEF bootVars, checkVars
<1> QED BY <1>1 DEF BInv, ClockInv, ErrInv, ProcessInv, checkTableHint, loadConfig

\* A machine that was never started.
LEMMA InitOK ==
  ASSUME ProxyInit
  PROVE  IInv
<1>1. ClockInv /\ ErrInv /\ ProcessInv
  BY DEF ProxyInit, BootInit, ClockInv, ErrInv, ProcessInv
<1>2. ScriptInv
  BY Zenon DEF ProxyInit, ScriptInv, Exporting
<1>3. NetappInv
  BY NetappAssumption DEF ProxyInit, NetappInit, NetappInv
<1>4. ExportInv
  BY DEF ProxyInit, ExportInv, Exporting
<1>5. DueInv
  BY Zenon DEF ProxyInit, BootInit, DueInv, Due
<1> QED BY <1>1, <1>2, <1>3, <1>4, <1>5 DEF IInv

\* A machine boots: the exports file may name paths that are not mounted, but
\* no server runs.
LEMMA BootOK ==
  ASSUME IInv, Boot
  PROVE  IInv'
<1>1. /\ pPc \in {"off", "ready", "failed"} /\ pPc' = "begin" /\ pNfs' = "inactive" /\ NoProcess
      /\ UNCHANGED <<pFilters, pFsid, pTodo, pExports, fFile, fSettings>>
      /\ UNCHANGED <<nVolumes, nPc, nNext, nPaths, nOutput, nSteady>>
  BY DEF Boot, netappVars
<1>2. BInv' /\ fPc' = "off"
  BY <1>1, NoProcessOK
<1>3. ScriptInv'
  BY <1>1, Zenon DEF ScriptInv, Exporting
<1>4. NetappInv'
  BY <1>1, Zenon DEF IInv, NetappInv
<1>5. ExportInv'
  BY <1>1, Zenon DEF IInv, ExportInv, Exporting
<1>6. DueInv'
  BY <1>1, <1>2, NoneDue
<1> QED BY <1>2, <1>3, <1>4, <1>5, <1>6 DEF IInv, BInv

\* The services are stopped before anything changes that they rely on; a run
\* that cannot load its parameters leaves them.
LEMMA StopServicesOK ==
  ASSUME IInv, NEW ok \in BOOLEAN, NEW c \in FsidConfigs, StopServices(ok, c)
  PROVE  IInv'
<1>1. CASE ok
  <2>1. /\ pPc = "begin" /\ pPc' = "init" /\ pNfs' = "inactive" /\ StopService
        /\ UNCHANGED <<pFilters, pTodo, pExports>>
        /\ UNCHANGED <<nVolumes, nPc, nNext, nPaths, nOutput, nSteady>>
    BY <1>1 DEF StopServices, stop_services_silently, netappVars
  <2>2. BInv' /\ (fPc' = "off" \/ (fPc' \in Running /\ fSignal' = "stop"))
    BY <2>1, StopServiceOK DEF IInv, BInv
  <2>3. ScriptInv'
    BY <2>1, <2>2, Zenon DEF ScriptInv, Exporting, Running
  <2>4. NetappInv'
    BY <2>1 DEF IInv, NetappInv
  <2>5. ExportInv'
    BY <2>1 DEF IInv, ExportInv, Exporting
  <2>6. DueInv'
    BY <2>1, NoneDue
  <2> QED BY <2>2, <2>3, <2>4, <2>5, <2>6 DEF IInv, BInv
<1>2. CASE ~ok
  BY <1>2, ScriptKept DEF StopServices, Later
<1> QED BY <1>1, <1>2

\* The exports file is emptied and the configuration written, when no process
\* of knfsd-fsidd is left.
LEMMA ConfiguredOK ==
  ASSUME IInv, NEW ok \in BOOLEAN, Configured(ok)
  PROVE  IInv'
<1>1. /\ pPc = "init" /\ fPc \notin Running /\ fFile' = pFsid /\ pExports' = {}
      /\ pPc' = (IF ok THEN "export_map" ELSE "failed")
      /\ pTodo' = (IF ok THEN ExportMap ELSE <<>>)
      /\ UNCHANGED <<pFilters, pFsid, pMounted, pNfs>>
      /\ UNCHANGED <<fSettings, fPc, fConfig, fClock, fSignal, fReport, fEnd, fUntil, fCur, fLastErr, fSeen>>
      /\ UNCHANGED <<nVolumes, nPc, nNext, nPaths, nOutput, nSteady>>
  BY DEF Configured, Running, netappVars, checkVars
<1>2. fPc = "off" /\ pNfs = "inactive"
  BY <1>1, NothingDue DEF IInv, ScriptInv
<1>3. ClockInv' /\ ErrInv' /\ ProcessInv'
  BY <1>1, <1>2 DEF IInv, ClockInv, ErrInv, ProcessInv
<1>4. ScriptInv'
  BY <1>1, <1>2, Zenon DEF ScriptInv, Exporting
<1>5. NetappInv'
  BY <1>1 DEF IInv, NetappInv
<1>6. ExportInv'
  <2>1. CASE ok
    <3>1. pPc' = "export_map" /\ pTodo' = ExportMap /\ pExports' = {}
      BY <1>1, <2>1
    <3> QED BY <3>1, ProxyAssumption DEF ExportInv, Exporting, Allowed
  <2>2. CASE ~ok
    <3>1. pPc' = "failed" /\ pTodo' = <<>> /\ pExports' = {}
      BY <1>1, <2>2
    <3> QED BY <3>1 DEF ExportInv, Exporting
  <2> QED BY <2>1, <2>2
<1>7. DueInv'
  BY <1>1, <1>2, NoneDue
<1> QED BY <1>3, <1>4, <1>5, <1>6, <1>7 DEF IInv

\* mount_nfs_server and add_nfs_export: only what is mounted is exported, and
\* an export that is not mounted ends the script, except in export_auto_detect.
LEMMA ReexportOK ==
  ASSUME IInv, NEW ok \in BOOLEAN, Reexport(ok)
  PROVE  IInv'
<1> DEFINE p == Head(pTodo)
<1>1. /\ pPc \in {"export_map", "export_auto_detect", "export_netapp"} /\ pTodo # <<>>
      /\ UNCHANGED <<pFilters, pFsid, pNfs>> /\ UNCHANGED bootVars /\ UNCHANGED netappVars
  BY DEF Reexport
<1>2. UNCHANGED <<fFile, fPc, fSignal, nVolumes, nPc, nNext, nPaths, nOutput, nSteady>>
  BY <1>1 DEF bootVars, netappVars
<1>3. BInv'
  BY <1>1, BootStaysOK DEF IInv, BInv
<1>4. pNfs = "inactive" /\ fPc = "off" /\ pExports \subseteq pMounted
  BY <1>1, NothingDue DEF IInv, ScriptInv, Exporting
<1>5. pPc' \in {pPc, "failed"} => DueInv'
  BY <1>1, <1>2, <1>4, NoneDue
<1>6. /\ pTodo \in Seq(STRING) /\ p \in STRING /\ Tail(pTodo) \in Seq(STRING)
      /\ \A x : x \in Range(pTodo) <=> x = p \/ x \in Range(Tail(pTodo))
  BY <1>1, ListParts, Zenon DEF IInv, ExportInv
<1>7. \A x : (Wanted(x)' <=> Wanted(x)) /\ (Allowed(x)' <=> Allowed(x))
  BY <1>1, WantedKept
<1> HIDE DEF p
<1>8. CASE /\ pMounted' = pMounted \cup {p} /\ pExports' = pExports \cup {p}
           /\ pTodo' = Tail(pTodo) /\ pPc' = pPc
  <2>1. ScriptInv'
    BY <1>1, <1>2, <1>4, <1>8 DEF IInv, ScriptInv, Exporting
  <2>2. NetappInv'
    BY <1>1, <1>2, <1>8, Zenon DEF IInv, NetappInv
  <2>3. \A x : x \in pExports' \cup Range(pTodo') <=> x \in pExports \cup Range(pTodo)
    BY <1>6, <1>8, Zenon
  <2>4. ExportInv'
    <3>1. pTodo' \in Seq(STRING) /\ pExports' \subseteq STRING /\ pExports \subseteq pExports'
      BY <1>6, <1>8, Zenon DEF IInv, ExportInv
    <3>2. pPc = "export_map" => Range(ExportMap) \subseteq pExports' \cup Range(pTodo')
      BY <2>3 DEF IInv, ExportInv
    <3>3. \A x \in pExports' \cup Range(pTodo') : Allowed(x)'
      BY <1>1, <1>7, <2>3, Zenon DEF IInv, ExportInv, Exporting
    <3>4. pPc # "export_map" => Range(ExportMap) \subseteq pExports'
      BY <1>1, <3>1, Zenon DEF IInv, ExportInv, Exporting
    <3>5. pPc = "export_netapp" =>
            \A v \in nSteady : Volumes[v] # "" /\ Wanted(Volumes[v])' =>
                                 Volumes[v] \in pExports' \cup Range(pTodo')
      BY <1>7, <2>3, Zenon DEF IInv, ExportInv
    <3> QED BY <1>1, <1>2, <1>8, <3>1, <3>2, <3>3, <3>4, <3>5, Zenon DEF ExportInv, Exporting
  <2> QED BY <1>3, <1>5, <1>8, <2>1, <2>2, <2>4 DEF IInv, BInv
<1>9. CASE UNCHANGED <<pPc, pTodo, pMounted, pExports>>
  <2>1. ScriptInv'
    BY <1>1, <1>2, <1>9 DEF IInv, ScriptInv, Exporting
  <2>2. NetappInv'
    BY <1>1, <1>2, <1>9, Zenon DEF IInv, NetappInv
  <2>3. ExportInv'
    BY <1>1, <1>2, <1>7, <1>9, Zenon DEF IInv, ExportInv
  <2> QED BY <1>3, <1>5, <1>9, <2>1, <2>2, <2>3 DEF IInv, BInv
<1>10. CASE /\ pPc = "export_auto_detect" /\ pPc' = pPc /\ pTodo' = Tail(pTodo)
            /\ UNCHANGED <<pMounted, pExports>>
  <2>1. ScriptInv'
    BY <1>1, <1>2, <1>10 DEF IInv, ScriptInv, Exporting
  <2>2. NetappInv'
    BY <1>1, <1>2, <1>10 DEF IInv, NetappInv
  <2>3. ExportInv'
    <3>1. \A x \in pExports \cup Range(Tail(pTodo)) : Allowed(x)'
      BY <1>6, <1>7, <1>10 DEF IInv, ExportInv, Exporting
    <3>2. Range(ExportMap) \subseteq pExports /\ pExports \subseteq STRING
      BY <1>10 DEF IInv, ExportInv, Exporting
    <3> QED BY <1>6, <1>10, <3>1, <3>2 DEF ExportInv
  <2> QED BY <1>3, <1>5, <1>10, <2>1, <2>2, <2>3 DEF IInv, BInv
<1>11. CASE pPc' = "failed" /\ pTodo' = <<>> /\ UNCHANGED <<pMounted, pExports>>
  <2>1. ScriptInv'
    BY <1>1, <1>4, <1>11, Zenon DEF ScriptInv, Exporting
  <2>2. NetappInv'
    BY <1>1, <1>2, <1>11, Zenon DEF IInv, NetappInv
  <2>3. ExportInv'
    <3>1. pTodo' \in Seq(STRING) /\ pExports' \subseteq STRING
      BY <1>11, EmptyList, Zenon DEF IInv, ExportInv
    <3> QED BY <1>11, <3>1 DEF ExportInv, Exporting
  <2> QED BY <1>3, <1>5, <1>11, <2>1, <2>2, <2>3 DEF IInv, BInv
<1> QED BY <1>8, <1>9, <1>10, <1>11 DEF Reexport, mountFailed, NextExport, p

\* export_auto_detect takes what the filters select of the lines it gets.
LEMMA AutoDetectOK ==
  ASSUME IInv, NEW part \in SUBSET Range(AutoExports), AutoDetect(Selected(AutoExports, part))
  PROVE  IInv'
<1>1. /\ pPc = "export_map" /\ pTodo = <<>> /\ pPc' = "export_auto_detect"
      /\ pTodo' = filter_exports(Selected(AutoExports, part))
      /\ UNCHANGED <<pFilters, pFsid, pMounted, pExports, pNfs>>
      /\ UNCHANGED bootVars /\ UNCHANGED netappVars
  BY DEF AutoDetect
<1>2. UNCHANGED <<fFile, fPc, fSignal, nVolumes, nPc, nNext, nPaths, nOutput, nSteady>>
  BY <1>1 DEF bootVars, netappVars
<1>3. BInv'
  BY <1>1, BootStaysOK DEF IInv, BInv
<1>4. Selected(AutoExports, part) \in Seq(STRING)
  BY ProxyAssumption, SelectedElements
<1>5. pTodo' \in Seq(STRING) /\ \A p \in Range(pTodo') : Wanted(p)
  BY <1>1, <1>4, FilterOK
<1>6. ScriptInv'
  BY <1>1, <1>2 DEF IInv, ScriptInv, Exporting
<1>7. NetappInv'
  BY <1>1, <1>2 DEF IInv, NetappInv
<1>8. ExportInv'
  <2>1. Range(ExportMap) \subseteq pExports
    BY <1>1, EmptyList DEF IInv, ExportInv
  <2>2. \A p \in pExports \cup Range(pTodo') : Allowed(p)'
    BY <1>1, <1>5, WantedKept, Zenon DEF IInv, ExportInv, Exporting, Allowed
  <2> QED BY <1>1, <1>5, <2>1, <2>2 DEF IInv, ExportInv
<1>9. DueInv'
  <2>1. pNfs = "inactive" /\ fPc = "off"
    BY <1>1, NothingDue DEF IInv, ScriptInv, Exporting
  <2> QED BY <1>1, <1>2, <2>1, NoneDue
<1> QED BY <1>3, <1>6, <1>7, <1>8, <1>9 DEF IInv, BInv

\* netapp-exports is started, or is not to be.
LEMMA NetappStartsOK ==
  ASSUME NetappInv, pPc' = "netapp-exports",
         SkipNetapp \/ \E env \in Environments, ok \in BOOLEAN : StartNetapp(env, ok)
  PROVE  NetappInv'
<1>1. CASE SkipNetapp
  <2>1. /\ nOutput' = <<>> /\ nSteady' = {} /\ nPc' = "exit0"
        /\ nVolumes' = nVolumes /\ nNext' = nNext /\ nPaths' = nPaths
    BY <1>1 DEF SkipNetapp
  <2> QED BY <2>1, EmptyList, Zenon DEF NetappInv
<1>2. CASE \E env \in Environments, ok \in BOOLEAN : StartNetapp(env, ok)
  <2>1. /\ nPc' \in {"fetch", "exit1"} /\ nNext' = 0 /\ nPaths' = <<>> /\ nOutput' = <<>>
        /\ nSteady' = nVolumes /\ nVolumes' = nVolumes
    <3>1. PICK env \in Environments, granted \in BOOLEAN : StartNetapp(env, granted)
      BY <1>2
    <3>2. /\ nNext' = 0 /\ nPaths' = <<>> /\ nOutput' = <<>>
          /\ nSteady' = nVolumes /\ nVolumes' = nVolumes
      BY <3>1 DEF StartNetapp
    <3>3. nPc' \in {"fetch", "exit1"}
      BY <3>1, Zenon DEF StartNetapp
    <3> QED BY <3>2, <3>3
  <2>2. \A v \in nVolumes : ~(v <= 0)
    <3>1. nVolumes \subseteq DOMAIN Volumes
      BY Zenon DEF NetappInv
    <3>2. \A v \in nVolumes : v \in Nat /\ v > 0
      BY <3>1, VolumeIds
    <3> QED BY <3>2
  <2>3. nPaths' \in Seq(STRING) /\ nOutput' \in Seq(STRING) /\ nNext' \in Nat
    BY <2>1, EmptyList
  <2> QED BY <2>1, <2>2, <2>3, Zenon DEF NetappInv
<1> QED BY <1>1, <1>2

\* The end of export_auto_detect.
LEMMA DetectNetappOK ==
  ASSUME IInv,
         \/ DetectNetapp(SkipNetapp)
         \/ \E env \in Environments, ok \in BOOLEAN : DetectNetapp(StartNetapp(env, ok))
  PROVE  IInv'
<1>1. /\ pPc = "export_auto_detect" /\ pTodo = <<>>
      /\ UNCHANGED <<pFilters, pFsid, pTodo, pMounted, pExports, pNfs>> /\ UNCHANGED bootVars
      /\ \/ pPc' = "failed" /\ UNCHANGED netappVars
         \/ /\ pPc' = "netapp-exports"
            /\ SkipNetapp \/ \E env \in Environments, ok \in BOOLEAN : StartNetapp(env, ok)
  BY DEF DetectNetapp
<1>2. UNCHANGED <<fFile, fPc, fSignal>> /\ pNfs = "inactive" /\ fPc = "off"
  BY <1>1, NothingDue DEF bootVars, IInv, ScriptInv, Exporting
<1>3. BInv'
  BY <1>1, BootStaysOK DEF IInv, BInv
<1>4. ScriptInv'
  BY <1>1, <1>2 DEF IInv, ScriptInv, Exporting
<1>5. NetappInv'
  <2>1. CASE pPc' = "failed" /\ UNCHANGED netappVars
    BY <1>1, <2>1 DEF netappVars, IInv, NetappInv
  <2>2. CASE /\ pPc' = "netapp-exports"
             /\ SkipNetapp \/ \E env \in Environments, ok \in BOOLEAN : StartNetapp(env, ok)
    BY <2>2, NetappStartsOK DEF IInv
  <2> QED BY <1>1, <2>1, <2>2
<1>6. ExportInv'
  BY <1>1, WantedKept, Zenon DEF IInv, ExportInv, Exporting
<1>7. DueInv'
  BY <1>1, <1>2, NoneDue
<1> QED BY <1>3, <1>4, <1>5, <1>6, <1>7 DEF IInv, BInv

\* export_netapp takes what the filters select of a complete list of volumes,
\* or the script ends.
LEMMA ReadNetappOK ==
  ASSUME IInv, ReadNetapp
  PROVE  IInv'
<1>1. /\ pPc = "netapp-exports" /\ nPc \in {"exit0", "exit1"}
      /\ pTodo' = filter_exports(nOutput)
      /\ pPc' = (IF nPc = "exit1" \/ FilterFails THEN "failed" ELSE "export_netapp")
      /\ UNCHANGED <<pFilters, pFsid, pMounted, pExports, pNfs>>
      /\ UNCHANGED bootVars /\ UNCHANGED netappVars
  BY DEF ReadNetapp
<1>2. UNCHANGED <<fFile, fPc, fSignal, nVolumes, nPc, nNext, nPaths, nOutput, nSteady>>
      /\ pPc' \in {"failed", "export_netapp"}
  BY <1>1 DEF bootVars, netappVars
<1>3. BInv'
  BY <1>1, BootStaysOK DEF IInv, BInv
<1>4. /\ pTodo' \in Seq(STRING) /\ \A p \in Range(pTodo') : Wanted(p)
      /\ ~FilterFails => \A p \in Range(nOutput) : Wanted(p) => p \in Range(pTodo')
  BY <1>1, FilterOK, Zenon DEF IInv, NetappInv
<1>5. ScriptInv'
  BY <1>1, <1>2 DEF IInv, ScriptInv, Exporting
<1>6. NetappInv'
  BY <1>1, <1>2, Zenon DEF IInv, NetappInv
<1>7. ExportInv'
  <2>1. \A p \in pExports \cup Range(pTodo') : Allowed(p)'
    BY <1>1, <1>4, WantedKept DEF IInv, ExportInv, Exporting, Allowed
  <2>2. Range(ExportMap) \subseteq pExports /\ pExports \subseteq STRING
    BY <1>1 DEF IInv, ExportInv, Exporting
  <2>3. ASSUME pPc' = "export_netapp", NEW v \in nSteady, Volumes[v] # "", Wanted(Volumes[v])
        PROVE  Volumes[v] \in Range(pTodo')
    <3>1. nPc = "exit0" /\ ~FilterFails
      BY <1>1, <2>3, Zenon
    <3>2. Volumes[v] \in Range(nOutput)
      BY <1>1, <2>3, <3>1, Zenon DEF IInv, NetappInv
    <3> QED BY <1>4, <2>3, <3>1, <3>2, Zenon
  <2> QED BY <1>1, <1>2, <1>4, <2>1, <2>2, <2>3, WantedKept, Zenon DEF ExportInv
<1>8. DueInv'
  <2>1. pNfs = "inactive" /\ fPc = "off"
    BY <1>1, NothingDue DEF IInv, ScriptInv, Exporting
  <2> QED BY <1>1, <1>2, <2>1, NoneDue
<1> QED BY <1>3, <1>5, <1>6, <1>7, <1>8 DEF IInv, BInv

\* knfsd-fsidd is started with the configuration that this run has written, and
\* with it the NFS server, after everything is exported.
LEMMA StartFsiddOK ==
  ASSUME IInv, NEW ok \in BOOLEAN, StartFsidd(ok)
  PROVE  IInv'
<1>1. /\ pPc = "export_netapp" /\ pTodo = <<>> /\ pPc' = (IF ok THEN "start_fsidd" ELSE "failed")
      /\ UNCHANGED <<pFilters, pFsid, pTodo, pMounted, pExports>>
      /\ UNCHANGED <<nVolumes, nPc, nNext, nPaths, nOutput, nSteady>>
      /\ UNCHANGED bootVars \/ StartProcess(1)
  BY Zenon DEF StartFsidd, netappVars
<1>2. BInv' /\ fFile' = fFile
  BY <1>1, BootStaysOK, StartProcessOK, Zenon DEF IInv, BInv, bootVars
<1>3. pNfs = "inactive" /\ fPc = "off" /\ fFile = pFsid /\ pExports \subseteq pMounted
  BY <1>1, NothingDue, Zenon DEF IInv, ScriptInv, Exporting
<1>4. ScriptInv'
  BY <1>1, Zenon DEF ScriptInv, Exporting
<1>5. NetappInv'
  BY <1>1, Zenon DEF IInv, NetappInv
<1>6. ExportInv'
  BY <1>1, Zenon DEF IInv, ExportInv, Exporting
<1>7. DueInv'
  <2>1. Complete
    BY <1>1, EmptyList, Zenon DEF IInv, ExportInv, Exporting, Complete
  <2>2. Complete'
    BY <1>1, <2>1, WantedKept, Zenon DEF Complete
  <2>3. pPc' \in Later
    BY <1>1 DEF Later
  <2> QED BY <1>1, <1>2, <1>3, <2>2, <2>3, Zenon DEF DueInv
<1> QED BY <1>2, <1>4, <1>5, <1>6, <1>7 DEF IInv, BInv

\* A start of the NFS server that fails leaves no knfsd-fsidd that serves.
LEMMA NfsStartsOK ==
  ASSUME BInv, NEW ok \in BOOLEAN, NfsStarts(ok)
  PROVE  BInv' /\ UNCHANGED fFile /\ fPc' \in {fPc, "off"} /\ pNfs' \in {"active", "inactive"}
<1>1. UNCHANGED bootVars \/ StopService
  BY Zenon DEF NfsStarts
<1>2. pNfs' \in {"active", "inactive"} /\ fPc \notin Running
  BY Zenon DEF NfsStarts
<1>3. CASE UNCHANGED bootVars
  BY <1>2, <1>3, BootStaysOK DEF bootVars
<1>4. CASE StopService
  <2>1. fPc \in {"off", "failed", "serving"}
    BY <1>2 DEF BInv, ProcessInv
  <2> QED BY <1>2, <1>4, <2>1, NoProcessOK DEF StopService
<1> QED BY <1>1, <1>3, <1>4

\* Steps of systemd, and of the script where it waits for systemd: everything
\* that a server needs is there.
LEMMA ServicesOK ==
  ASSUME IInv, Due, pPc' \in Later, BInv', UNCHANGED fFile,
         UNCHANGED <<pFilters, pFsid, pTodo, pMounted, pExports, netappVars>>
  PROVE  IInv'
<1>1. pPc \in Later /\ UNCHANGED <<nVolumes, nPc, nNext, nPaths, nOutput, nSteady>>
  BY Zenon DEF netappVars, IInv, DueInv
<1>2. ScriptInv'
  BY Zenon DEF ScriptInv, Exporting, Later
<1>3. NetappInv'
  BY <1>1, Zenon DEF IInv, NetappInv, Later
<1>4. ExportInv'
  BY Zenon DEF IInv, ExportInv, Exporting, Later
<1>5. DueInv'
  BY <1>1, DueKept DEF IInv
<1> QED BY <1>2, <1>3, <1>4, <1>5 DEF IInv, BInv

\* The script waits for the NFS server, which may be active already.
LEMMA StartNfsOK ==
  ASSUME IInv, NEW ok \in BOOLEAN, StartNfs(ok)
  PROVE  IInv'
<1>1. /\ pPc = "start_nfs" /\ UNCHANGED <<pFilters, pFsid, pTodo, pMounted, pExports, netappVars>>
      /\ UNCHANGED bootVars \/ NfsStarts(ok)
  BY Zenon DEF StartNfs
<1>2. pPc' \in Later
  BY Zenon DEF StartNfs, Later
<1>3. BInv' /\ UNCHANGED fFile
  BY <1>1, BootStaysOK, NfsStartsOK DEF bootVars, IInv, BInv
<1> QED BY <1>1, <1>2, <1>3, ServicesOK DEF Due

\* Every step of systemd: only a service that is due is started.
LEMMA SystemdNextOK ==
  ASSUME IInv, SystemdNext
  PROVE  IInv'
<1>1. UNCHANGED <<pPc, pFilters, pFsid, pTodo, pMounted, pExports, netappVars>>
  BY DEF SystemdNext
<1>2. BInv' /\ UNCHANGED fFile /\ Due
  <2>1. ASSUME NEW ok \in BOOLEAN, pNfs = "queued", NfsStarts(ok)
        PROVE  BInv' /\ UNCHANGED fFile /\ Due
    BY <2>1, NfsStartsOK DEF Due, IInv, BInv
  <2>2. CASE Crash
    BY <2>2, CrashOK DEF Crash, Due, IInv, BInv, ScriptInv, Running
  <2>3. CASE Restart
    BY <2>3, StartProcessOK DEF Restart, Due, IInv, BInv, ScriptInv, Running
  <2>4. CASE Activate
    BY <2>4, StartProcessOK DEF Activate, Due, IInv, BInv
  <2> QED BY <2>1, <2>2, <2>3, <2>4 DEF SystemdNext
<1>3. pPc' \in Later
  BY <1>1, <1>2 DEF IInv, DueInv
<1> QED BY <1>1, <1>2, <1>3, ServicesOK

\* Every step of the script.
LEMMA ScriptNextOK ==
  ASSUME IInv, ScriptNext
  PROVE  IInv'
<1>1. CASE RunAgain
  BY <1>1, ScriptKept DEF RunAgain, Later
<1>2. ASSUME NEW ok \in BOOLEAN, CompleteStartup(ok) \/ FsiddStarted(ok)
      PROVE  IInv'
  <2>1. /\ UNCHANGED <<pFilters, pFsid, pTodo, pExports, pMounted, pNfs>>
        /\ UNCHANGED <<bootVars, netappVars>>
        /\ pPc \in {"start_metrics", "start_fsidd"}
        /\ pPc' \in {"ready", "failed"} \/ (pPc = "start_fsidd" /\ pPc' = "start_nfs")
    BY <1>2 DEF CompleteStartup, FsiddStarted
  <2> QED BY <2>1, ScriptKept DEF Later, Due
<1>3. CASE \E part \in SUBSET Range(AutoExports) : AutoDetect(Selected(AutoExports, part))
  BY <1>3, AutoDetectOK
<1>4. CASE \/ DetectNetapp(SkipNetapp)
           \/ \E env \in Environments, ok \in BOOLEAN : DetectNetapp(StartNetapp(env, ok))
  BY <1>4, DetectNetappOK
<1>5. CASE \E ok \in BOOLEAN, c \in FsidConfigs : StopServices(ok, c)
  BY <1>5, StopServicesOK
<1>6. CASE \E ok \in BOOLEAN : Configured(ok) \/ Reexport(ok) \/ StartFsidd(ok) \/ StartNfs(ok)
  BY <1>6, ConfiguredOK, ReexportOK, StartFsiddOK, StartNfsOK
<1>7. CASE Boot \/ ReadNetapp
  BY <1>7, BootOK, ReadNetappOK
<1> QED BY <1>1, <1>2, <1>3, <1>4, <1>5, <1>6, <1>7 DEF ScriptNext

-----------------------------------------------------------------------------
(* The processes the script starts. *)

\* Every step of knfsd-fsidd, whatever the script is doing.
LEMMA BootStepOK ==
  ASSUME IInv, BootNext, UNCHANGED <<proxyVars, netappVars>>
  PROVE  IInv'
<1>1. UNCHANGED <<pPc, pFilters, pFsid, pTodo, pMounted, pExports, pNfs>>
      /\ UNCHANGED <<nVolumes, nPc, nNext, nPaths, nOutput, nSteady>>
  BY DEF proxyVars, netappVars
<1>2. BInv' /\ Steps
  BY BootNextOK DEF IInv, BInv
<1>3. ScriptInv'
  BY <1>1, <1>2 DEF IInv, ScriptInv, Steps, Exporting
<1>4. NetappInv'
  BY <1>1, Zenon DEF IInv, NetappInv
<1>5. ExportInv'
  BY <1>1, WantedKept, Zenon DEF IInv, ExportInv
<1>6. DueInv'
  <2>1. Due' => Due
    BY <1>1, <1>2 DEF Due, Steps
  <2>2. pPc' \in Later \/ ~Due'
    BY <1>1, <2>1, Zenon DEF IInv, DueInv
  <2> QED BY <1>1, <1>2, <2>1, <2>2, DueKept, Zenon DEF IInv, Steps, DueInv
<1> QED BY <1>2, <1>3, <1>4, <1>5, <1>6 DEF IInv, BInv

\* A round of FetchAll: no volume that stays is passed over, also when the
\* server changes between two pages.
LEMMA FetchRoundOK ==
  ASSUME NetappInv, NEW ok \in BOOLEAN, FetchRound(ok), pPc' = pPc
  PROVE  NetappInv'
<1> DEFINE page == IF ok THEN FetchNextPage(nNext) ELSE [paths |-> <<>>, next |-> 0]
           paths == nPaths \o page.paths
<1>1. /\ nPc = "fetch" /\ nNext' = page.next
      /\ nPc' = IF ~ok THEN "exit1" ELSE IF page.next = 0 THEN "exit0" ELSE "fetch"
      /\ nPaths' = IF nPc' = "fetch" THEN paths ELSE <<>>
      /\ nOutput' = IF nPc' = "exit0" THEN paths ELSE <<>>
      /\ UNCHANGED <<nVolumes, nSteady>>
  BY DEF FetchRound, fetchFails
<1>2. CASE ~ok
  <2>1. nNext' = 0 /\ nPc' = "exit1" /\ nPaths' = <<>> /\ nOutput' = <<>>
    BY <1>1, <1>2
  <2>2. nPaths' \in Seq(STRING) /\ nOutput' \in Seq(STRING) /\ nNext' \in Nat
    BY <2>1, EmptyList
  <2> QED BY <1>1, <2>1, <2>2, Zenon DEF NetappInv
<1>3. CASE ok
  <2>1. page = FetchNextPage(nNext)
    BY <1>3
  <2> HIDE DEF page
  <2>2. /\ page.paths \in Seq(STRING) /\ page.next \in Nat
        /\ \A v \in nVolumes :
             v > nNext /\ (page.next = 0 \/ v <= page.next) /\ Volumes[v] # "" =>
               Volumes[v] \in Range(page.paths)
    BY <2>1, PageOK, Zenon DEF NetappInv
  <2>3. /\ paths \in Seq(STRING) /\ Range(nPaths) \subseteq Range(paths)
        /\ Range(page.paths) \subseteq Range(paths)
    BY <2>2, ListConcat, Zenon DEF NetappInv
  <2>4. ASSUME NEW v \in nSteady, page.next = 0 \/ v <= page.next, Volumes[v] # ""
        PROVE  Volumes[v] \in Range(paths)
    <3>1. v \in nVolumes /\ v \in Nat /\ nNext \in Nat
      BY <1>1, VolumeIds, Zenon DEF NetappInv
    <3>2. CASE v <= nNext
      BY <1>1, <2>3, <2>4, <3>2, Zenon DEF NetappInv
    <3>3. CASE v > nNext
      BY <2>2, <2>3, <2>4, <3>1, <3>3, Zenon
    <3> QED BY <3>1, <3>2, <3>3
  <2> HIDE DEF paths
  <2>5. CASE page.next = 0
    <3>1. nPc' = "exit0" /\ nPaths' = <<>> /\ nOutput' = paths /\ nNext' = 0
      BY <1>1, <1>3, <2>5
    <3>2. nPaths' \in Seq(STRING) /\ nOutput' \in Seq(STRING) /\ nNext' \in Nat
      BY <2>3, <3>1, EmptyList, Zenon
    <3>3. \A v \in nSteady : Volumes[v] # "" => Volumes[v] \in Range(nOutput')
      BY <2>4, <2>5, <3>1, Zenon
    <3> QED BY <1>1, <3>1, <3>2, <3>3, Zenon DEF NetappInv
  <2>6. CASE page.next # 0
    <3>1. nPc' = "fetch" /\ nPaths' = paths /\ nOutput' = <<>> /\ nNext' = page.next
      BY <1>1, <1>3, <2>6
    <3>2. nPaths' \in Seq(STRING) /\ nOutput' \in Seq(STRING) /\ nNext' \in Nat
      BY <2>2, <2>3, <3>1, EmptyList, Zenon
    <3>3. \A v \in nSteady : v <= nNext' /\ Volumes[v] # "" => Volumes[v] \in Range(nPaths')
      BY <2>4, <3>1, Zenon
    <3> QED BY <1>1, <3>1, <3>2, <3>3, Zenon DEF NetappInv
  <2> QED BY <2>5, <2>6
<1> QED BY <1>2, <1>3

\* Every step of netapp-exports and of the NetApp server.
LEMMA NetappStepOK ==
  ASSUME IInv, NetappNext, UNCHANGED <<proxyVars, bootVars>>
  PROVE  IInv'
<1>1. UNCHANGED <<pPc, pFilters, pFsid, pTodo, pMounted, pExports, pNfs>>
      /\ UNCHANGED <<fFile, fPc, fSignal>>
  BY DEF proxyVars, bootVars
<1>2. BInv'
  BY BootStaysOK DEF IInv, BInv
<1>3. nPc = "fetch" /\ pPc = "netapp-exports"
  BY Zenon DEF NetappNext, FetchRound, ChangeVolume, IInv, NetappInv
<1>4. ScriptInv'
  BY <1>1 DEF IInv, ScriptInv
<1>5. NetappInv'
  <2>1. CASE \E ok \in BOOLEAN : FetchRound(ok)
    BY <1>1, <2>1, FetchRoundOK DEF IInv
  <2>2. ASSUME NEW v \in DOMAIN Volumes, ChangeVolume(v) PROVE NetappInv'
    <3>1. /\ nVolumes' = IF v \in nVolumes THEN nVolumes \ {v} ELSE nVolumes \cup {v}
          /\ nSteady' = nSteady \cap nVolumes' /\ UNCHANGED <<nPc, nNext, nPaths, nOutput>>
      BY <2>2 DEF ChangeVolume
    <3> QED BY <1>1, <1>3, <3>1, Zenon DEF IInv, NetappInv
  <2> QED BY <2>1, <2>2 DEF NetappNext
<1>6. ExportInv'
  BY <1>1, <1>3, WantedKept DEF IInv, ExportInv
<1>7. DueInv'
  BY <1>1, <1>3, NothingDue, NoneDue DEF IInv, ScriptInv, Exporting
<1> QED BY <1>2, <1>4, <1>5, <1>6, <1>7 DEF IInv, BInv

-----------------------------------------------------------------------------
(* Theorems. *)

\* The inductive invariant, for the script, knfsd-fsidd and netapp-exports
\* together.
THEOREM StartupInvariance == StartupSpec => []IInv
<1>1. ProxyInit => IInv
  BY InitOK
<1>2. IInv /\ [ProxyNext]_<<proxyVars, bootVars, netappVars>> => IInv'
  <2>1. ASSUME IInv, ScriptNext PROVE IInv'
    BY <2>1, ScriptNextOK
  <2>2. ASSUME IInv, UNCHANGED <<proxyVars, bootVars, netappVars>> PROVE IInv'
    <3>1. UNCHANGED <<pPc, pFilters, pFsid, pTodo, pMounted, pExports, pNfs>>
          /\ UNCHANGED <<nVolumes, nPc, nNext, nPaths, nOutput, nSteady, fFile, fPc, fSignal>>
      BY <2>2 DEF proxyVars, netappVars, bootVars
    <3>2. BInv'
      BY <2>2, BootStaysOK DEF IInv, BInv
    <3>3. ScriptInv' /\ NetappInv'
      BY <2>2, <3>1, Zenon DEF IInv, ScriptInv, NetappInv
    <3>4. ExportInv'
      BY <2>2, <3>1, WantedKept, Zenon DEF IInv, ExportInv
    <3>5. DueInv'
      <4>1. Due' <=> Due
        BY <3>1 DEF Due
      <4>2. CASE Due
        BY <2>2, <3>1, <4>2, DueKept DEF IInv, DueInv
      <4>3. CASE ~Due
        BY <4>1, <4>3 DEF DueInv
      <4> QED BY <4>2, <4>3
    <3> QED BY <3>2, <3>3, <3>4, <3>5 DEF IInv, BInv
  <2> QED BY <2>1, <2>2, SystemdNextOK, BootStepOK, NetappStepOK DEF ProxyNext
<1> QED BY <1>1, <1>2, PTL DEF StartupSpec

\* A start of knfsd-fsidd that fails reports its cause: the deadlines of
\* checkTable and of the metrics end before TimeoutStartSec, and lastErr is the
\* last error seen in the budget.
THEOREM StartFailsWithCause == StartupSpec => []CauseReported
<1>1. IInv => CauseReported
  BY DEF IInv, ClockInv, ErrInv, CauseReported
<1> QED BY <1>1, StartupInvariance, PTL

\* While the NFS server runs, every path in the exports file has the file
\* system of a source filer mounted on it.
THEOREM ExportsAreMounted == StartupSpec => []ExportedIsMounted
<1>1. IInv => ExportedIsMounted
  BY DEF IInv, DueInv, Due, ExportedIsMounted
<1> QED BY <1>1, StartupInvariance, PTL

\* A proxy that serves, serves EXPORT_MAP and the volumes that the filters
\* select, and nothing that they exclude, for any number and any changes of
\* volumes and any size of the pages.
THEOREM ServesAll == StartupSpec => []ServedComplete
<1>1. IInv => ServedComplete
  BY Zenon DEF IInv, DueInv, Due, Complete, Allowed, ServedComplete
<1> QED BY <1>1, StartupInvariance, PTL

\* A knfsd-fsidd that serves uses the table of the flags, the environment or the
\* FSID_DATABASE_CONFIG of this run, in this order, however often it crashed and
\* was restarted.
THEOREM ServesFromDeployedTable == StartupSpec => []TableAsDeployed
<1>1. ASSUME IInv PROVE TableAsDeployed
  <2> SUFFICES ASSUME fPc = "serving" PROVE TableAsDeployed
    BY Zenon DEF TableAsDeployed
  <2>1. fConfig = loadConfig(pFsid, fSettings)
    <3>1. Due
      BY <1>1 DEF IInv, ScriptInv, Due, Running
    <3> QED BY <1>1, <3>1 DEF IInv, DueInv, ProcessInv
  <2> DEFINE env == [k \in {j \in DOMAIN fSettings.env : fSettings.env[j] # ""} |-> fSettings.env[k]]
             c1 == Assigned(Defaults, pFsid.set)
             c2 == Assigned(c1, env)
             c3 == Assigned(c2, fSettings.flags)
  <2>2. fConfig = c3
    BY <2>1, Zenon DEF loadConfig, parseFlags, readEnv, readDefaultConfig
  <2>3. /\ "table" \in DOMAIN c1
        /\ c1["table"] = IF "table" \in DOMAIN pFsid.set THEN pFsid.set["table"] ELSE ""
    BY Zenon DEF Assigned, Defaults
  <2> HIDE DEF c1
  <2>4. /\ "table" \in DOMAIN c2
        /\ c2["table"] = IF "table" \in DOMAIN fSettings.env /\ fSettings.env["table"] # ""
                         THEN fSettings.env["table"] ELSE c1["table"]
    BY <2>3, Zenon DEF Assigned
  <2> HIDE DEF c2, env
  <2>5. c3["table"] = IF "table" \in DOMAIN fSettings.flags THEN fSettings.flags["table"]
                      ELSE c2["table"]
    BY <2>4, Zenon DEF Assigned
  <2> HIDE DEF c3
  <2> QED BY <2>1, <2>2, <2>3, <2>4, <2>5, Zenon DEF TableAsDeployed
<1> QED BY <1>1, StartupInvariance, PTL

-----------------------------------------------------------------------------
(* The command handlers of knfsd-fsidd. *)

\* What keeps run's err to one handler at a time.
OneCreatorAtMost == \A c, d \in Creators : c = d

\* A word of run's err.
Word(w) == IF w = "typ" THEN typ ELSE data

\* The handler uses run's err, and is between its result and its return.
Sharing(c) == pc[c] \in {"store", "end", "load"}

\* A connection whose command has ended: its result is in its own variables.
Ended(c) == Sharing(c) \/ pc[c] = "return" \/ reply[c] # None

\* What a handler has written to run's err and what it has read from it is its
\* own error.
ErrOK(c) ==
  /\ pc[c] # "clear"
  /\ Sharing(c) => c \in Creators /\ SharesErr(cmd[c]) /\ path[c] # None
  /\ pc[c] = "store" => todo[c] # {} /\ \A w \in Words \ todo[c] : Word(w) = err[c]
  /\ pc[c] \in {"end", "load"} =>
       /\ typ = err[c] /\ data = err[c]
       /\ \A w \in Words \ todo[c] : got[c][w] = err[c]
  /\ pc[c] = "return" /\ SharesErr(cmd[c]) /\ path[c] # None => got[c]["typ"] = err[c]

\* The result and the reply of a connection belong to its command.
ResultOK(c) ==
  /\ pc[c] # "crash"
  /\ pc[c] # "idle" => reply[c] = None
  /\ pc[c] # "idle" \/ reply[c] # None => (SharesErr(cmd[c]) <=> c \in Creators)
  /\ Ended(c) /\ c \in Creators /\ err[c] = None =>
       path[c] \in Paths /\ val[c] = FsidOf[path[c]]
  /\ reply[c] # None => reply[c] = ReplyTo(cmd[c], val[c], err[c])

\* Nobody else writes what the handler reads: it has an err of its own, or the
\* service is not stopping.
Safe(c) == c \notin Creators \/ Serving

ReplyInv == TypeOK /\ \A c \in Conns : Safe(c) => ErrOK(c) /\ ResultOK(c)

-----------------------------------------------------------------------------

\* Connection d, while another one takes a step that leaves run's err alone, or
\* while d does not use it.
LEMMA OthersKept ==
  ASSUME ReplyInv, NEW d \in Conns,
         pc'[d] = pc[d], cmd'[d] = cmd[d], path'[d] = path[d], val'[d] = val[d],
         err'[d] = err[d], todo'[d] = todo[d], got'[d] = got[d], reply'[d] = reply[d],
         Safe(d)' => Safe(d) /\ (~Sharing(d) \/ (typ' = typ /\ data' = data))
  PROVE  Safe(d)' => ErrOK(d)' /\ ResultOK(d)'
<1> SUFFICES ASSUME Safe(d)' PROVE ErrOK(d)' /\ ResultOK(d)'
  OBVIOUS
<1>1. ErrOK(d) /\ ResultOK(d) /\ (~Sharing(d) \/ (typ' = typ /\ data' = data))
  BY Zenon DEF ReplyInv
<1>2. ErrOK(d)'
  BY <1>1, Zenon DEF ErrOK, Sharing, Word, SharesErr
<1>3. ResultOK(d)'
  BY <1>1, Zenon DEF ResultOK, Ended, Sharing, SharesErr
<1> QED
  BY <1>2, <1>3, Zenon

\* A step of connection c: nothing of another one changes, nor does where run is.
Only(c) ==
  /\ pc'[Run] = pc[Run]
  /\ \A d \in Conns \ {c} :
       /\ pc'[d] = pc[d] /\ cmd'[d] = cmd[d] /\ path'[d] = path[d] /\ val'[d] = val[d]
       /\ err'[d] = err[d] /\ todo'[d] = todo[d] /\ got'[d] = got[d] /\ reply'[d] = reply[d]

\* The other connections, after a step of c that leaves run's err alone.
LEMMA OnlyOK ==
  ASSUME ReplyInv, NEW c \in Conns, Only(c), UNCHANGED <<typ, data>>
  PROVE  \A d \in Conns \ {c} : Safe(d)' => ErrOK(d)' /\ ResultOK(d)'
BY OthersKept, Zenon DEF Only, Safe, Serving

\* Nothing of any connection changes in a step of run after Serve has returned:
\* those that are still safe do not use run's err.
LEMMA RunStepOK ==
  ASSUME ReplyInv, TypeOK', ~Serving', UNCHANGED <<cmd, path, val, reply>>,
         \A d \in Conns : /\ pc'[d] = pc[d] /\ err'[d] = err[d]
                          /\ todo'[d] = todo[d] /\ got'[d] = got[d]
  PROVE  ReplyInv'
<1>1. ASSUME NEW d \in Conns, Safe(d)' PROVE Safe(d) /\ ~Sharing(d)
  <2>1. d \notin Creators /\ Safe(d)
    BY <1>1, Zenon DEF Safe
  <2> QED BY <2>1, Zenon DEF ReplyInv, ErrOK
<1>2. \A d \in Conns : Safe(d)' => ErrOK(d)' /\ ResultOK(d)'
  BY <1>1, OthersKept, Zenon
<1> QED BY <1>2, Zenon DEF ReplyInv

\* mountd sends the next command: the reply to the one before is no longer
\* looked at.
LEMMA ReceiveOK ==
  ASSUME ReplyInv, NEW c \in Conns, NEW m \in Commands, NEW p \in Paths \cup {None},
         Receive(c, m, p)
  PROVE  ReplyInv'
<1>1. TypeOK'
  BY Zenon DEF ReplyInv, TypeOK, Receive, Threads
<1>2. \A d \in Conns \ {c} : Safe(d)' => ErrOK(d)' /\ ResultOK(d)'
  <2>1. Only(c) /\ UNCHANGED <<typ, data>>
    BY ReplyAssumption, Zenon DEF ReplyInv, TypeOK, Receive, Threads, Only
  <2> QED BY <2>1, OnlyOK
<1>3. /\ pc'[c] = "retry" /\ reply'[c] = None /\ cmd'[c] = m
      /\ (m = "get_or_create_fsidnum") = (c \in Creators)
  BY Zenon DEF ReplyInv, TypeOK, Receive, Threads
<1>4. ErrOK(c)' /\ ResultOK(c)'
  BY <1>3, Zenon DEF ErrOK, ResultOK, Sharing, Ended, SharesErr
<1> QED
  BY <1>1, <1>2, <1>4 DEF ReplyInv

\* What withRetry returns to a handler is the result of its own command, and an
\* FSID that it returns without an error is the one of the path.
LEMMA ResultIsOwn ==
  ASSUME ReplyInv, NEW c \in Conns, pc[c] = "retry",
         NEW v \in Values, NEW e \in Errs, Result(c, v, e),
         cmd[c] = "get_or_create_fsidnum" /\ e = None =>
           path[c] \in Paths /\ v = FsidOf[path[c]]
  PROVE  ReplyInv'
<1>1. TypeOK'
  <2>1. todo' \in [Threads -> SUBSET Words]
    BY Zenon DEF ReplyInv, TypeOK, Result, Threads
  <2>2. pc' \in [Threads -> {"idle", "retry", "store", "end", "clear", "load", "return", "crash", "exit"}]
    BY Zenon DEF ReplyInv, TypeOK, Result, Threads
  <2> QED
    BY <2>1, <2>2, Zenon DEF ReplyInv, TypeOK, Result, Threads
<1>2. \A d \in Conns \ {c} : Safe(d)' => ErrOK(d)' /\ ResultOK(d)'
  <2>1. Only(c) /\ UNCHANGED <<typ, data>>
    BY ReplyAssumption, Zenon DEF ReplyInv, TypeOK, Result, Threads, Only
  <2> QED BY <2>1, OnlyOK, Zenon
<1>3. /\ val'[c] = v /\ err'[c] = e /\ cmd' = cmd /\ path' = path /\ reply' = reply
      /\ IF SharesErr(cmd[c]) /\ path[c] # None
         THEN pc'[c] = "store" /\ todo'[c] = Words
         ELSE pc'[c] = "return"
  BY Zenon DEF ReplyInv, TypeOK, Result, Threads
<1>4. ASSUME Safe(c)' PROVE ErrOK(c)' /\ ResultOK(c)'
  <2>1. Safe(c)
    BY <1>4, ReplyAssumption, Zenon DEF Safe, Serving, Result, ReplyInv, TypeOK, Threads
  <2>2. reply[c] = None /\ (SharesErr(cmd[c]) <=> c \in Creators)
    BY <2>1, Zenon DEF ReplyInv, ResultOK
  <2>3. ErrOK(c)'
    BY <1>3, <2>2, Zenon DEF ErrOK, Sharing, SharesErr, Words
  <2>4. ResultOK(c)'
    BY <1>3, <2>2, Zenon DEF ResultOK, Ended, Sharing, SharesErr
  <2> QED BY <2>3, <2>4, Zenon
<1> QED
  BY <1>1, <1>2, <1>4, Zenon DEF ReplyInv

\* withRetry returns, with any of its results.
LEMMA WithRetryOK ==
  ASSUME ReplyInv, NEW c \in Conns, WithRetry(c)
  PROVE  ReplyInv'
<1>1. pc[c] = "retry" /\ cmd[c] \in Commands /\ path[c] \in Paths \cup {None}
  BY DEF WithRetry, ReplyInv, TypeOK
<1>2. PICK v \in Values, e \in Errs :
        /\ Result(c, v, e)
        /\ cmd[c] = "get_or_create_fsidnum" /\ e = None =>
             path[c] \in Paths /\ v = FsidOf[path[c]]
  <2>1. CASE cmd[c] = "version"
    BY <2>1 DEF WithRetry, Values, Errs
  <2>2. CASE cmd[c] # "version" /\ path[c] = None
    <3>1. Result(c, None, "InvalidArgument")
      BY <2>2 DEF WithRetry
    <3> QED
      BY <3>1, ReplyAssumption, Zenon DEF Values, Errs
  <2>3. CASE cmd[c] # "version" /\ path[c] # None
    <3>1. path[c] \in Paths /\ FsidOf[path[c]] \in Values /\ 0 \in Values /\ None \in Values
            /\ path[c] \in Values
      BY <1>1, <2>3, ReplyAssumption, Zenon DEF Values
    <3>2. ApiErrors \cup {"NotFound", None} \subseteq Errs
      BY DEF Errs
    <3>3. CASE cmd[c] = "get_path"
      BY <2>3, <3>1, <3>2, <3>3 DEF WithRetry
    <3>4. CASE cmd[c] = "get_fsidnum"
      BY <2>3, <3>1, <3>2, <3>4 DEF WithRetry
    <3>5. CASE cmd[c] = "get_or_create_fsidnum"
      <4>1. Result(c, FsidOf[path[c]], None) \/ \E e \in ApiErrors : Result(c, 0, e)
        BY <2>3, <3>5, Zenon DEF WithRetry
      <4> QED
        BY <3>1, <3>2, <4>1, ReplyAssumption, Zenon
    <3> QED
      BY <1>1, <2>3, <3>3, <3>4, <3>5, Zenon DEF Commands
  <2> QED
    BY <2>1, <2>2, <2>3, Zenon
<1> QED
  BY <1>1, <1>2, ResultIsOwn, Zenon

\* A word of run's err is written.
LEMMA StoreTyped ==
  ASSUME ReplyInv, NEW t \in Threads, NEW w \in Words, Store(t, w)
  PROVE  /\ TypeOK' /\ UNCHANGED <<cmd, path, val, err, got, reply>>
         /\ \A u \in Threads \ {t} : pc'[u] = pc[u] /\ todo'[u] = todo[u]
         /\ todo'[t] = IF todo[t] = {w} THEN Words ELSE todo[t] \ {w}
         /\ pc'[t] = IF todo[t] # {w} THEN pc[t] ELSE IF pc[t] = "store" THEN "end" ELSE "load"
         /\ Word(w)' = err[t] /\ \A x \in Words \ {w} : Word(x)' = Word(x)
<1>1. UNCHANGED <<cmd, path, val, err, got, reply>> /\ pc[t] \in {"store", "clear"}
  BY DEF Store
<1>2. typ' \in Errs /\ data' \in Errs
  BY Zenon DEF Store, ReplyInv, TypeOK
<1>3. todo' \in [Threads -> SUBSET Words]
  BY Zenon DEF Store, ReplyInv, TypeOK
<1>4. pc' \in [Threads -> {"idle", "retry", "store", "end", "clear", "load", "return", "crash", "exit"}]
  BY <1>1, Zenon DEF Store, ReplyInv, TypeOK
<1>5. TypeOK'
  BY <1>1, <1>2, <1>3, <1>4, Zenon DEF ReplyInv, TypeOK
<1>6. Word(w)' = err[t] /\ \A x \in Words \ {w} : Word(x)' = Word(x)
  BY DEF Store, Word, Words
<1>7. /\ \A u \in Threads \ {t} : pc'[u] = pc[u] /\ todo'[u] = todo[u]
      /\ todo'[t] = IF todo[t] = {w} THEN Words ELSE todo[t] \ {w}
      /\ pc'[t] = IF todo[t] # {w} THEN pc[t] ELSE IF pc[t] = "store" THEN "end" ELSE "load"
  BY Zenon DEF Store, ReplyInv, TypeOK
<1> QED BY <1>1, <1>5, <1>6, <1>7, Zenon

\* The handler writes a word of run's err: no other handler is between its
\* result and its return, as no other connection creates FSIDs.
LEMMA StoreOK ==
  ASSUME OneCreatorAtMost, ReplyInv, NEW c \in Conns, NEW w \in Words, Store(c, w)
  PROVE  ReplyInv'
<1>1. pc[c] \in {"store", "clear"} /\ w \in todo[c]
  BY DEF Store
<1>2. /\ TypeOK' /\ UNCHANGED <<cmd, path, val, err, got, reply>>
      /\ \A u \in Threads \ {c} : pc'[u] = pc[u] /\ todo'[u] = todo[u]
      /\ todo'[c] = IF todo[c] = {w} THEN Words ELSE todo[c] \ {w}
      /\ pc'[c] = IF todo[c] # {w} THEN pc[c] ELSE IF pc[c] = "store" THEN "end" ELSE "load"
      /\ Word(w)' = err[c] /\ \A x \in Words \ {w} : Word(x)' = Word(x)
  BY StoreTyped, Zenon DEF Threads
<1>3. Serving' <=> Serving
  BY <1>2, ReplyAssumption, Zenon DEF Serving, Threads
<1>4. ASSUME NEW d \in Conns \ {c}, Safe(d)' PROVE ErrOK(d)' /\ ResultOK(d)'
  <2>1. Safe(d)
    BY <1>3, <1>4 DEF Safe
  <2>2. ASSUME Sharing(d) PROVE FALSE
    <3>1. d \in Creators /\ Serving
      BY <2>1, <2>2, Zenon DEF ReplyInv, ErrOK, Safe
    <3>2. c \in Creators
      BY <1>1, <3>1, Zenon DEF ReplyInv, ErrOK, Safe, Sharing
    <3> QED BY <1>4, <3>1, <3>2 DEF OneCreatorAtMost
  <2> QED BY <1>2, <1>4, <2>1, <2>2, OthersKept, Zenon DEF Threads
<1>5. ASSUME Safe(c)' PROVE ErrOK(c)' /\ ResultOK(c)'
  <2>1. ErrOK(c) /\ ResultOK(c) /\ pc[c] = "store"
    BY <1>1, <1>3, <1>5, Zenon DEF Safe, ReplyInv, ErrOK
  <2>2. ErrOK(c)'
    <3>1. CASE todo[c] = {w}
      <4>1. \A x \in Words : Word(x)' = err[c]
        BY <1>2, <2>1, <3>1, Zenon DEF ErrOK
      <4>2. typ' = err[c] /\ data' = err[c]
        BY <4>1 DEF Word, Words
      <4> QED
        BY <1>2, <2>1, <3>1, <4>2, Zenon DEF ErrOK, Sharing, SharesErr
    <3>2. CASE todo[c] # {w}
      <4>1. \A x \in Words \ todo'[c] : Word(x)' = err'[c]
        BY <1>2, <2>1, <3>2, Zenon DEF ErrOK
      <4>2. pc'[c] = "store" /\ todo'[c] # {}
        BY <1>1, <1>2, <2>1, <3>2, Zenon
      <4> QED
        BY <1>2, <2>1, <4>1, <4>2, Zenon DEF ErrOK, Sharing, SharesErr
    <3> QED
      BY <3>1, <3>2, Zenon
  <2>3. ResultOK(c)'
    BY <1>2, <2>1, Zenon DEF ResultOK, Ended, Sharing, SharesErr
  <2> QED BY <2>2, <2>3
<1> QED
  BY <1>2, <1>4, <1>5, Zenon DEF ReplyInv

\* A word of run's err is read.
LEMMA LoadTyped ==
  ASSUME ReplyInv, NEW t \in Threads, NEW w \in Words, Load(t, w)
  PROVE  /\ TypeOK' /\ UNCHANGED <<typ, data, pc, cmd, path, val, err, reply>>
         /\ \A u \in Threads \ {t} : got'[u] = got[u] /\ todo'[u] = todo[u]
         /\ todo'[t] = todo[t] \ {w}
         /\ \A x \in Words : got'[t][x] = IF x = w THEN Word(w) ELSE got[t][x]
<1>1. UNCHANGED <<typ, data, pc, cmd, path, val, err, reply>>
  BY DEF Load
<1>2. got' \in [Threads -> [Words -> Errs]] /\ todo' \in [Threads -> SUBSET Words]
  BY DEF Load, ReplyInv, TypeOK
<1>3. TypeOK'
  BY <1>1, <1>2, Zenon DEF ReplyInv, TypeOK
<1>4. /\ \A u \in Threads \ {t} : got'[u] = got[u] /\ todo'[u] = todo[u]
      /\ todo'[t] = todo[t] \ {w}
      /\ \A x \in Words : got'[t][x] = IF x = w THEN Word(w) ELSE got[t][x]
  BY Zenon DEF Load, ReplyInv, TypeOK, Word
<1> QED BY <1>1, <1>3, <1>4, Zenon

\* The handler reads a word of run's err, which is still its own.
LEMMA LoadOK ==
  ASSUME ReplyInv, NEW c \in Conns, NEW w \in Words, Load(c, w)
  PROVE  ReplyInv'
<1>1. pc[c] \in {"end", "load"} /\ w \in todo[c] /\ c \in Threads
  BY DEF Load, Threads
<1>2. /\ TypeOK' /\ UNCHANGED <<typ, data, pc, cmd, path, val, err, reply>>
      /\ \A u \in Threads \ {c} : got'[u] = got[u] /\ todo'[u] = todo[u]
      /\ todo'[c] = todo[c] \ {w}
      /\ \A x \in Words : got'[c][x] = IF x = w THEN Word(w) ELSE got[c][x]
  BY <1>1, LoadTyped, Zenon
<1>3. \A d \in Conns \ {c} : Safe(d)' => ErrOK(d)' /\ ResultOK(d)'
  BY <1>2, OnlyOK, Zenon DEF Only, Threads
<1>4. ASSUME Safe(c)' PROVE ErrOK(c)' /\ ResultOK(c)'
  <2>1. ErrOK(c) /\ ResultOK(c)
    BY <1>2, <1>4, Zenon DEF ReplyInv, Safe, Serving
  <2>2. Word(w) = err[c]
    BY <1>1, <2>1, Zenon DEF ErrOK, Word
  <2>3. ErrOK(c)'
    BY <1>1, <1>2, <2>1, <2>2, Zenon DEF ErrOK, Sharing, SharesErr
  <2>4. ResultOK(c)'
    BY <1>2, <2>1, Zenon DEF ResultOK, Ended, Sharing, SharesErr
  <2> QED BY <2>3, <2>4
<1> QED
  BY <1>2, <1>3, <1>4, Zenon DEF ReplyInv

\* A method of the error that was read is called, or the process crashes.
LEMMA LoadedTyped ==
  ASSUME ReplyInv, NEW t \in Threads, Loaded(t)
  PROVE  /\ TypeOK' /\ UNCHANGED <<typ, data, cmd, path, val, got, reply>>
         /\ \A u \in Threads \ {t} : pc'[u] = pc[u] /\ err'[u] = err[u] /\ todo'[u] = todo[u]
         /\ pc'[t] # "idle"
<1>1. /\ pc[t] \in {"end", "load"} /\ UNCHANGED <<typ, data, cmd, path, val, got, reply>>
      /\ \E p \in {"crash", "clear", "load", "return"} : pc' = [pc EXCEPT ![t] = p]
      /\ \E e \in {err[t], None} : err' = [err EXCEPT ![t] = e]
      /\ \E x \in {todo[t], Words, {}} : todo' = [todo EXCEPT ![t] = x]
  <2>1. CASE Torn(got[t])
    <3>1. err' = [err EXCEPT ![t] = err[t]] /\ todo' = [todo EXCEPT ![t] = todo[t]]
      BY <2>1, Zenon DEF Loaded, ReplyInv, TypeOK
    <3> QED BY <2>1, <3>1, Zenon DEF Loaded
  <2>2. CASE ~Torn(got[t])
    BY <2>2, Zenon DEF Loaded
  <2> QED BY <2>1, <2>2, Zenon
<1>2. err[t] \in Errs /\ None \in Errs /\ todo[t] \in SUBSET Words
  BY DEF ReplyInv, TypeOK, Errs
<1>3. pc' \in [Threads -> {"idle", "retry", "store", "end", "clear", "load", "return", "crash", "exit"}]
  BY <1>1, Zenon DEF ReplyInv, TypeOK
<1>4. err' \in [Threads -> Errs] /\ todo' \in [Threads -> SUBSET Words]
  <2>1. PICK e \in {err[t], None} : err' = [err EXCEPT ![t] = e]
    BY <1>1, Zenon
  <2>2. PICK x \in {todo[t], Words, {}} : todo' = [todo EXCEPT ![t] = x]
    BY <1>1, Zenon
  <2>3. err' \in [Threads -> Errs]
    BY <1>2, <2>1 DEF ReplyInv, TypeOK
  <2>4. todo' \in [Threads -> SUBSET Words]
    BY <1>2, <2>2 DEF ReplyInv, TypeOK
  <2> QED BY <2>3, <2>4
<1>5. TypeOK'
  BY <1>1, <1>3, <1>4, Zenon DEF ReplyInv, TypeOK
<1>6. /\ \A u \in Threads \ {t} : pc'[u] = pc[u] /\ err'[u] = err[u] /\ todo'[u] = todo[u]
      /\ pc'[t] # "idle"
  BY <1>1, Zenon DEF ReplyInv, TypeOK
<1> QED BY <1>1, <1>5, <1>6, Zenon

\* Both words are those of one error, so that the call of its methods does not
\* crash the process.
LEMMA LoadedOK ==
  ASSUME ReplyInv, NEW c \in Conns, Loaded(c)
  PROVE  ReplyInv'
<1>1. pc[c] \in {"end", "load"} /\ todo[c] = {} /\ c # Run
  BY ReplyAssumption, Zenon DEF Loaded
<1>2. /\ TypeOK' /\ UNCHANGED <<typ, data, cmd, path, val, got, reply>>
      /\ \A u \in Threads \ {c} : pc'[u] = pc[u] /\ err'[u] = err[u] /\ todo'[u] = todo[u]
  BY LoadedTyped, Zenon DEF Threads
<1>3. Only(c)
  BY <1>1, <1>2, Zenon DEF Only, Threads
<1>4. \A d \in Conns \ {c} : Safe(d)' => ErrOK(d)' /\ ResultOK(d)'
  BY <1>2, <1>3, OnlyOK, Zenon
<1>5. ASSUME Safe(c)' PROVE ErrOK(c)' /\ ResultOK(c)'
  <2>1. ErrOK(c) /\ ResultOK(c)
    BY <1>3, <1>5, Zenon DEF ReplyInv, Safe, Serving, Only
  <2>2. got[c]["typ"] = err[c] /\ got[c]["data"] = err[c]
    BY <1>1, <2>1, Zenon DEF ErrOK, Words
  <2>3. /\ pc' = [pc EXCEPT ![c] = IF pc[c] = "end" THEN "load" ELSE "return"]
        /\ err' = [err EXCEPT ![c] = err[c]]
        /\ todo' = [todo EXCEPT ![c] = IF pc[c] = "end" THEN Words ELSE {}]
    BY <1>1, <2>2, Zenon DEF Loaded, Torn
  <2>4. /\ err'[c] = err[c]
        /\ IF pc[c] = "end" THEN pc'[c] = "load" /\ todo'[c] = Words ELSE pc'[c] = "return"
    BY <2>3, Zenon DEF ReplyInv, TypeOK, Threads
  <2>5. ErrOK(c)'
    BY <1>1, <1>2, <2>1, <2>2, <2>4, Zenon DEF ErrOK, Sharing, SharesErr
  <2>6. ResultOK(c)'
    BY <1>1, <1>2, <2>1, <2>4, Zenon DEF ResultOK, Ended, Sharing, SharesErr
  <2> QED BY <2>5, <2>6
<1> QED
  BY <1>2, <1>4, <1>5, Zenon DEF ReplyInv

\* Serve returns, and run writes, reads and clears its err, and ends.
LEMMA RunOK ==
  ASSUME ReplyInv,
         \/ \E e \in ServeErrors : ServeReturns(e)
         \/ \E w \in Words : Store(Run, w) \/ Load(Run, w)
         \/ Loaded(Run) \/ Exit
  PROVE  ReplyInv'
<1>1. Run \in Threads /\ \A c \in Conns : c \in Threads \ {Run}
  BY ReplyAssumption, Zenon DEF Threads
<1>2. ASSUME NEW e \in ServeErrors, ServeReturns(e) PROVE ReplyInv'
  <2>1. TypeOK'
    BY <1>2, Zenon DEF ReplyInv, TypeOK, ServeReturns, Errs
  <2>2. /\ ~Serving' /\ UNCHANGED <<cmd, path, val, reply>>
        /\ \A d \in Conns : /\ pc'[d] = pc[d] /\ err'[d] = err[d]
                             /\ todo'[d] = todo[d] /\ got'[d] = got[d]
    BY <1>1, <1>2, Zenon DEF ReplyInv, TypeOK, ServeReturns, Serving
  <2> QED BY <2>1, <2>2, RunStepOK, Zenon
<1>3. ASSUME NEW w \in Words, Store(Run, w) PROVE ReplyInv'
  <2>1. pc[Run] \in {"store", "clear"}
    BY <1>3, Zenon DEF Store
  <2> QED BY <1>1, <1>3, <2>1, StoreTyped, RunStepOK, Zenon DEF Serving
<1>4. ASSUME NEW w \in Words, Load(Run, w) PROVE ReplyInv'
  <2>1. pc[Run] \in {"end", "load"}
    BY <1>4 DEF Load
  <2> QED BY <1>1, <1>4, <2>1, LoadTyped, RunStepOK, Zenon DEF Serving
<1>5. CASE Loaded(Run)
  BY <1>1, <1>5, LoadedTyped, RunStepOK, Zenon DEF Serving
<1>6. CASE Exit
  <2>1. TypeOK'
    BY <1>6, Zenon DEF ReplyInv, TypeOK, Exit
  <2> QED BY <1>1, <1>6, <2>1, RunStepOK, Zenon DEF Exit, Serving, ReplyInv, TypeOK
<1> QED BY <1>2, <1>3, <1>4, <1>5, <1>6

\* execute replies with a value or with an error that is not nil.
LEMMA ReplyTyped ==
  ASSUME NEW m, NEW v \in Values, NEW e \in Errs
  PROVE  ReplyTo(m, v, e) \in Replies
BY DEF ReplyTo, Replies, Values

\* The reply is made from the handler's own error, whichever variable it is
\* taken from.
LEMMA ExecuteOK ==
  ASSUME ReplyInv, NEW c \in Conns, Execute(c)
  PROVE  ReplyInv'
<1> DEFINE e == IF SharesErr(cmd[c]) /\ path[c] # None THEN got[c]["typ"] ELSE err[c]
<1>1. /\ pc[c] = "return" /\ c # Run
      /\ UNCHANGED <<typ, data, cmd, path, val, err, todo>>
      /\ pc' = [pc EXCEPT ![c] = "idle"] /\ got' = [got EXCEPT ![c] = Unread]
      /\ reply' = [reply EXCEPT ![c] = ReplyTo(cmd[c], val[c], e)]
  BY ReplyAssumption, Zenon DEF Execute
<1>2. e \in Errs /\ val[c] \in Values
  BY DEF ReplyInv, TypeOK, Words, Threads
<1> HIDE DEF e
<1>3. ReplyTo(cmd[c], val[c], e) \in Replies
  BY <1>2, ReplyTyped, Zenon
<1>4. TypeOK'
  <2>1. got' \in [Threads -> [Words -> Errs]]
    BY <1>1, Zenon DEF ReplyInv, TypeOK, Unread, Errs
  <2> QED BY <1>1, <1>3, <2>1, Zenon DEF ReplyInv, TypeOK
<1>5. Only(c)
  BY <1>1, Zenon DEF ReplyInv, TypeOK, Only, Threads
<1>6. \A d \in Conns \ {c} : Safe(d)' => ErrOK(d)' /\ ResultOK(d)'
  BY <1>1, <1>5, OnlyOK, Zenon
<1>7. ASSUME Safe(c)' PROVE ErrOK(c)' /\ ResultOK(c)'
  <2>1. ErrOK(c) /\ ResultOK(c)
    BY <1>5, <1>7, Zenon DEF ReplyInv, Safe, Serving, Only
  <2>2. e = err[c]
    BY <1>1, <2>1, Zenon DEF ErrOK, e
  <2>3. pc'[c] = "idle" /\ reply'[c] = ReplyTo(cmd[c], val[c], err[c])
    BY <1>1, <2>2, Zenon DEF ReplyInv, TypeOK, Threads
  <2>4. ErrOK(c)'
    BY <2>3, Zenon DEF ErrOK, Sharing
  <2>5. ResultOK(c)'
    BY <1>1, <2>1, <2>3, Zenon DEF ResultOK, Ended, Sharing, SharesErr
  <2> QED BY <2>4, <2>5
<1> QED
  BY <1>4, <1>6, <1>7 DEF ReplyInv

-----------------------------------------------------------------------------

\* Nothing has been sent, and run's err is nil.
LEMMA ReplyStarts == Init => ReplyInv
<1> SUFFICES ASSUME Init PROVE ReplyInv
  OBVIOUS
<1>1. TypeOK
  BY Zenon DEF Init, TypeOK, Errs, Commands, Values, Words, Unread
<1>2. \A c \in Conns : ErrOK(c) /\ ResultOK(c)
  BY Zenon DEF Init, ErrOK, ResultOK, Sharing, Ended, Threads
<1> QED
  BY <1>1, <1>2 DEF ReplyInv

\* The inductive invariant: run's err belongs to the connection that creates
\* FSIDs from the moment it writes it until it has returned, unless Serve returns.
THEOREM ReplyInvariance ==
  ASSUME OneCreatorAtMost
  PROVE  Spec => []ReplyInv
<1>1. ASSUME ReplyInv, Next
      PROVE  ReplyInv'
  <2>1. ASSUME NEW t \in Threads, Loaded(t) \/ \E w \in Words : Store(t, w) \/ Load(t, w)
        PROVE  ReplyInv'
    <3>1. CASE t \in Conns
      BY <1>1, <2>1, <3>1, StoreOK, LoadOK, LoadedOK
    <3>2. CASE t = Run
      BY <1>1, <2>1, <3>2, RunOK
    <3> QED BY <3>1, <3>2 DEF Threads
  <2> QED BY <1>1, <2>1, ReceiveOK, WithRetryOK, ExecuteOK, RunOK DEF Next
<1>2. ASSUME ReplyInv, UNCHANGED vars
      PROVE  ReplyInv'
  <2>1. TypeOK'
    BY <1>2 DEF ReplyInv, TypeOK, vars
  <2>2. \A d \in Conns : Safe(d)' => ErrOK(d)' /\ ResultOK(d)'
    BY <1>2, OthersKept, Zenon DEF vars, Safe, Serving
  <2> QED
    BY <2>1, <2>2 DEF ReplyInv
<1>3. ReplyInv /\ [Next]_vars => ReplyInv'
  BY <1>1, <1>2
<1> QED
  BY <1>3, ReplyStarts, PTL DEF Spec

\* Every state is well typed; a reply that is an error is never a nil error.
THEOREM ReplyTypedAlways ==
  ASSUME OneCreatorAtMost
  PROVE  Spec => []TypeOK
<1>1. ReplyInv => TypeOK
  BY DEF ReplyInv
<1> QED
  BY <1>1, ReplyInvariance, PTL

\* connection.execute replies with the result of the connection's own command
\* and no command crashes the process, for any number of connections, as long
\* as one of them at most sends get_or_create_fsidnum; the reply to that one is
\* its own until Serve returns.
THEOREM ReplyIsOwn ==
  ASSUME OneCreatorAtMost
  PROVE  Spec => []OwnReply
<1>1. ReplyInv => OwnReply
  BY Zenon DEF ReplyInv, ResultOK, OwnReply, Safe
<1> QED
  BY <1>1, ReplyInvariance, PTL

\* "This ensures that all the instances in a cluster use the same FSID for each
\* export path" (deployment/docs/fsids.md:82): with one connection at most that
\* creates FSIDs, a get_or_create_fsidnum that succeeds is answered with the
\* FSID of its path, until Serve returns. Two such connections refute it.
THEOREM OneCreatorSameFsid ==
  ASSUME OneCreatorAtMost
  PROVE  Spec => [](Serving => SameFsid)
<1>1. ASSUME ReplyInv, Serving, NEW c \in Creators, reply[c] # None, "ok" \in DOMAIN reply[c]
      PROVE  path[c] \in Paths /\ reply[c].ok = FsidOf[path[c]]
  <2>1. c \in Conns /\ ResultOK(c) /\ SharesErr(cmd[c])
    BY <1>1, ReplyAssumption, Zenon DEF ReplyInv, ResultOK, Safe
  <2>2. reply[c] = ReplyTo(cmd[c], val[c], err[c])
    BY <1>1, <2>1, Zenon DEF ResultOK
  <2>3. err[c] = None
    BY <1>1, <2>1, <2>2 DEF ReplyTo, SharesErr
  <2>4. reply[c].ok = val[c]
    BY <2>2, <2>3, ReplyAssumption DEF ReplyTo
  <2>5. Ended(c)
    BY <1>1, Zenon DEF Ended
  <2>6. path[c] \in Paths /\ val[c] = FsidOf[path[c]]
    BY <1>1, <2>1, <2>3, <2>5, Zenon DEF ResultOK
  <2> QED
    BY <2>4, <2>6, Zenon
<1>2. ReplyInv => (Serving => SameFsid)
  BY <1>1 DEF SameFsid
<1> QED
  BY <1>2, ReplyInvariance, PTL
=============================================================================
