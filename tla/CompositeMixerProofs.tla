--------------------------- MODULE CompositeMixerProofs ---------------------------
(***************************************************************************)
(* Proofs about CompositeMixer, for any number of ports and any size of    *)
(* the mixed video.                                                        *)
(***************************************************************************)
EXTENDS CompositeMixer, FiniteSetTheorems, TLAPS

-----------------------------------------------------------------------------
(* The grid. *)

\* Multiplying keeps the order of natural numbers.
LEMMA ProductBounds ==
    ASSUME NEW a \in Nat, NEW b \in Nat, NEW c \in Nat, a <= b
    PROVE  a * c \in Nat /\ a * c <= b * c
  BY SMT

\* What \div and % return.
LEMMA Quotient ==
    ASSUME NEW a \in Nat, NEW b \in Nat \ {0}
    PROVE  /\ a \div b \in Nat /\ a % b \in 0 .. b - 1
           /\ a = (a \div b) * b + (a % b)
           /\ (a \div b) * b <= a
<1>1. a % b \in 0 .. b - 1
  BY SMT
<1>2. a = (a \div b) * b + (a % b)
  BY SMT
<1>3. a \div b \in Nat
  BY SMT
<1> QED  BY <1>1, <1>2, <1>3, SMT

\* A quotient is known by a remainder that fits.
LEMMA QuotientIsUnique ==
    ASSUME NEW a \in Nat, NEW b \in Nat \ {0}, NEW q \in Nat, NEW r \in 0 .. b - 1,
           a = q * b + r
    PROVE  a \div b = q
<1> DEFINE p == a \div b
<1>1. p \in Nat /\ a % b \in 0 .. b - 1 /\ a = p * b + (a % b)
  BY Quotient
<1> HIDE DEF p
<1>2. CASE p < q
  <2>1. (p + 1) * b <= q * b
    BY <1>1, <1>2, ProductBounds
  <2>2. (p + 1) * b = p * b + b
    BY <1>1
  <2> QED  BY <1>1, <2>1, <2>2
<1>3. CASE q < p
  <2>1. (q + 1) * b <= p * b
    BY <1>1, <1>3, ProductBounds
  <2>2. (q + 1) * b = q * b + b
    BY <1>1
  <2> QED  BY <1>1, <2>1, <2>2
<1> QED  BY <1>1, <1>2, <1>3 DEF p

\* Dividing keeps the order.
LEMMA QuotientIsMonotone ==
    ASSUME NEW a \in Nat, NEW b \in Nat, NEW c \in Nat \ {0}, a <= b
    PROVE  a \div c <= b \div c
  BY Quotient, SMT

\* A set of natural numbers that is not empty has a least element.
LEMMA LeastNatural ==
    ASSUME NEW S \in SUBSET Nat, S # {}
    PROVE  \E m \in S : \A k \in S : m <= k
<1> DEFINE R == {ss \in Nat \X Nat : ss[1] < ss[2]}
<1>1. IsWellFoundedOn(R, Nat)
  BY NatLessThanWellFounded DEF OpToRel
<1>2. \E m \in S : \A k \in S : ~(<<k, m>> \in R)
  <2> HIDE DEF R
  <2> QED  BY <1>1, WFMin
<1>3. PICK m \in S : \A k \in S : ~(<<k, m>> \in R)
  BY <1>2
<1>4. ASSUME NEW k \in S PROVE m <= k
  <2>1. ~(<<k, m>> \in R) /\ <<k, m>> \in Nat \X Nat
    BY <1>3
  <2>2. ~(k < m)
    BY <2>1
  <2> QED  BY <2>2
<1> QED  BY <1>4

\* ceil (sqrt (n_elems)) exists and is at most n_elems.
LEMMA ColumnsType ==
    ASSUME NEW n \in Nat \ {0}
    PROVE  Columns(n) \in 1 .. n
<1> DEFINE S == {c \in 1 .. n : c * c >= n}
<1>1. n * n >= n
  BY SMT
<1>2. n \in S /\ S \in SUBSET Nat
  BY <1>1
<1>3. PICK m \in S : \A k \in S : m <= k
  BY <1>2, LeastNatural
<1>4. m \in 1 .. n /\ m * m >= n
  BY <1>3
<1>5. (m - 1) * (m - 1) < n
  <2>1. CASE m = 1
    BY <2>1
  <2>2. CASE m # 1
    <3>1. m - 1 \in 1 .. n /\ m - 1 \notin S
      BY <1>3, <1>4, <2>2
    <3>2. ~((m - 1) * (m - 1) >= n)
      BY <3>1
    <3>3. (m - 1) * (m - 1) \in Int
      BY <3>1
    <3> QED  BY <3>2, <3>3
  <2> QED  BY <2>1, <2>2
<1> QED  BY <1>4, <1>5 DEF Columns

\* The rows hold every cell.
LEMMA RowsType ==
    ASSUME NEW n \in Nat \ {0}
    PROVE  /\ Rows(n) \in 1 .. n
           /\ \A k \in 0 .. n - 1 : k \div Columns(n) <= Rows(n) - 1
<1> DEFINE c == Columns(n)
<1>1. c \in 1 .. n
  BY ColumnsType
<1> HIDE DEF c
<1>2. (n + c - 1) \div c = (n - 1) \div c + 1
  <2> DEFINE q == (n - 1) \div c
             r == (n - 1) % c
  <2>1. q \in Nat /\ r \in 0 .. c - 1 /\ n - 1 = q * c + r
    <3>1. n - 1 \in Nat /\ c \in Nat \ {0}
      BY <1>1
    <3> QED  BY <3>1, Quotient
  <2> HIDE DEF q, r
  <2>2. n + c - 1 = (q + 1) * c + r
    <3>1. (q + 1) * c = q * c + c
      BY <1>1, <2>1
    <3> QED  BY <1>1, <2>1, <3>1
  <2>3. (n + c - 1) \div c = q + 1
    BY <1>1, <2>1, <2>2, QuotientIsUnique
  <2> QED  BY <2>3 DEF q
<1>3. (n - 1) \div c \in 0 .. n - 1
  BY <1>1, SMT
<1>4. Rows(n) = (n - 1) \div c + 1
  BY <1>2 DEF Rows, c
<1>5. ASSUME NEW k \in 0 .. n - 1 PROVE k \div c <= (n - 1) \div c
  BY <1>1, QuotientIsMonotone
<1> QED  BY <1>3, <1>4, <1>5 DEF c

\* A column of the grid: w is the width of a cell, and the cells of two columns do
\* not meet.  The same for rows.
LEMMA Slots ==
    ASSUME NEW size \in Nat, NEW c \in Nat \ {0}, c <= size,
           NEW x \in 0 .. c - 1, NEW y \in 0 .. c - 1
    PROVE  LET w == size \div c IN
           /\ w \in Nat \ {0} /\ x * w \in Nat /\ x * w + w <= size
           /\ x < y => x * w + w <= y * w
<1> DEFINE w == size \div c
<1>1. w \in Nat /\ w * c <= size
  BY Quotient
<1>2. w # 0
  <2>1. c \div c = 1
    BY QuotientIsUnique
  <2> QED  BY <2>1, QuotientIsMonotone
<1> HIDE DEF w
<1>3. (x + 1) * w = x * w + w /\ x * w \in Nat /\ y * w \in Nat /\ c * w = w * c
  BY <1>1
<1>4. (x + 1) * w <= c * w
  BY <1>1, ProductBounds
<1>5. x < y => (x + 1) * w <= y * w
  BY <1>1, ProductBounds
<1> QED  BY <1>1, <1>2, <1>3, <1>4, <1>5 DEF w

\* The cells of a grid for n are inside the frame and apart when each has a pixel.
LEMMA CellsApart ==
    ASSUME NEW n \in Nat \ {0}, n <= OutputWidth, n <= OutputHeight,
           NEW k \in 0 .. n - 1, NEW l \in 0 .. n - 1
    PROVE  /\ Inside(CellAt(k, n))
           /\ k # l => Apart(CellAt(k, n), CellAt(l, n))
<1> DEFINE c == Columns(n)
           r == Rows(n)
           w == OutputWidth \div c
           h == OutputHeight \div r
<1>1. c \in 1 .. n /\ r \in 1 .. n
  BY ColumnsType, RowsType
<1>2. ASSUME NEW m \in 0 .. n - 1
      PROVE  /\ m % c \in 0 .. c - 1 /\ m \div c \in 0 .. r - 1
             /\ m = (m \div c) * c + (m % c)
  <2>1. m \div c <= r - 1
    BY RowsType
  <2> HIDE DEF c, r
  <2>2. m \in Nat /\ c \in Nat \ {0}
    BY <1>1
  <2>3. /\ m \div c \in Nat /\ m % c \in 0 .. c - 1
        /\ m = (m \div c) * c + (m % c)
    BY <2>2, Quotient
  <2>4. m \div c \in 0 .. r - 1
    BY <1>1, <2>1, <2>3
  <2> QED  BY <2>3, <2>4
<1>3. CellAt(k, n) = [left |-> (k % c) * w, top |-> (k \div c) * h,
                      width |-> w, height |-> h]
  BY DEF CellAt
<1>4. CellAt(l, n) = [left |-> (l % c) * w, top |-> (l \div c) * h,
                      width |-> w, height |-> h]
  BY DEF CellAt
<1> HIDE DEF c, r
<1>5. /\ OutputWidth \in Nat /\ OutputHeight \in Nat
      /\ c \in Nat \ {0} /\ c <= OutputWidth
      /\ r \in Nat \ {0} /\ r <= OutputHeight
  BY <1>1, ConstantsAssumption
<1> DEFINE kx == k % c
           ky == k \div c
           lx == l % c
           ly == l \div c
<1>6. /\ kx \in 0 .. c - 1 /\ lx \in 0 .. c - 1
      /\ ky \in 0 .. r - 1 /\ ly \in 0 .. r - 1
  BY <1>2
<1>7. k = ky * c + kx /\ l = ly * c + lx
  BY <1>2
<1> HIDE DEF kx, ky, lx, ly
<1>8. /\ w \in Nat \ {0} /\ kx * w \in Nat /\ kx * w + w <= OutputWidth
      /\ kx < lx => kx * w + w <= lx * w
      /\ lx < kx => lx * w + w <= kx * w
  BY <1>5, <1>6, Slots
<1>9. /\ h \in Nat \ {0} /\ ky * h \in Nat /\ ky * h + h <= OutputHeight
      /\ ky < ly => ky * h + h <= ly * h
      /\ ly < ky => ly * h + h <= ky * h
  BY <1>5, <1>6, Slots
<1>10. k # l => kx < lx \/ lx < kx \/ ky < ly \/ ly < ky
  <2>1. kx = lx /\ ky = ly => k = l
    BY <1>7
  <2>2. kx = lx \/ kx < lx \/ lx < kx
    BY <1>5, <1>6
  <2>3. ky = ly \/ ky < ly \/ ly < ky
    BY <1>5, <1>6
  <2> QED  BY <2>1, <2>2, <2>3
<1> HIDE DEF w, h
<1>11. /\ CellAt(k, n).left = kx * w /\ CellAt(k, n).top = ky * h
       /\ CellAt(k, n).width = w /\ CellAt(k, n).height = h
       /\ CellAt(l, n).left = lx * w /\ CellAt(l, n).top = ly * h
       /\ CellAt(l, n).width = w /\ CellAt(l, n).height = h
  BY <1>3, <1>4 DEF kx, ky, lx, ly
<1>12. Inside(CellAt(k, n))
  BY <1>8, <1>9, <1>11 DEF Inside
<1>13. k # l => Apart(CellAt(k, n), CellAt(l, n))
  BY <1>8, <1>9, <1>10, <1>11 DEF Apart
<1> QED  BY <1>12, <1>13

\* A cell has natural numbers for its place and size, whatever the frame.
LEMMA CellType ==
    ASSUME NEW n \in Nat \ {0}, NEW k \in Nat
    PROVE  CellAt(k, n) \in [left : Nat, top : Nat, width : Nat, height : Nat]
<1> DEFINE c == Columns(n)
           r == Rows(n)
           w == OutputWidth \div c
           h == OutputHeight \div r
           x == k % c
           y == k \div c
<1>1. c \in Nat \ {0} /\ r \in Nat \ {0}
  BY ColumnsType, RowsType
<1>2. CellAt(k, n) = [left |-> x * w, top |-> y * h, width |-> w, height |-> h]
  BY DEF CellAt
<1> HIDE DEF c, r
<1>3. w \in Nat /\ h \in Nat /\ x \in Nat /\ y \in Nat
  BY <1>1, Quotient, ConstantsAssumption
<1> HIDE DEF w, h, x, y
<1>4. x * w \in Nat /\ y * h \in Nat
  BY <1>3
<1> QED  BY <1>2, <1>3, <1>4

\* The place of a port in the order of identifiers.
Rank(p, S) == Cardinality({q \in S : q < p})

\* Sets of ports can be counted.
LEMMA PortsFinite ==
    ASSUME NEW S, S \subseteq Ports
    PROVE  IsFiniteSet(S) /\ Cardinality(S) \in 0 .. MaxPorts
<1>1. IsFiniteSet(Ports) /\ Cardinality(Ports) = MaxPorts
  BY ConstantsAssumption, FS_Interval DEF Ports
<1>2. IsFiniteSet(S) /\ Cardinality(S) <= Cardinality(Ports)
  BY <1>1, FS_Subset
<1> QED  BY <1>1, <1>2, FS_CardinalityType, ConstantsAssumption

\* Ports have different places in the order, all below the size of the set.
LEMMA RanksDiffer ==
    ASSUME NEW S, S \subseteq Ports, NEW p \in S, NEW q \in S
    PROVE  /\ Rank(p, S) \in 0 .. Cardinality(S) - 1
           /\ p # q => Rank(p, S) # Rank(q, S)
<1>1. ASSUME NEW a \in S, NEW T \in SUBSET S, {s \in S : s < a} \union {a} \subseteq T
      PROVE  Rank(a, S) \in Nat /\ Rank(a, S) < Cardinality(T)
  <2> DEFINE B == {s \in S : s < a}
  <2>1. IsFiniteSet(B) /\ Cardinality(B) \in Nat /\ IsFiniteSet(T)
        /\ Cardinality(T) \in Nat
    <3>1. B \subseteq Ports /\ T \subseteq Ports
      OBVIOUS
    <3> QED  BY <3>1, PortsFinite
  <2>2. a \notin B
    BY DEF Ports
  <2>3. Cardinality(B \union {a}) = Cardinality(B) + 1
    BY <2>1, <2>2, FS_AddElement
  <2>4. Cardinality(B \union {a}) <= Cardinality(T)
    BY <1>1, <2>1, FS_Subset
  <2> QED  BY <2>1, <2>3, <2>4 DEF Rank
<1>2. S \subseteq Int
  BY DEF Ports
<1>3. Rank(p, S) \in 0 .. Cardinality(S) - 1
  <2>1. Rank(p, S) \in Nat /\ Rank(p, S) < Cardinality(S)
    BY <1>1
  <2> QED  BY <2>1, PortsFinite
<1>4. ASSUME NEW a \in S, NEW b \in S, a < b
      PROVE  Rank(a, S) # Rank(b, S)
  <2>1. {s \in S : s < a} \union {a} \subseteq {s \in S : s < b}
    <3>1. a \in Int /\ b \in Int
      BY <1>2
    <3>2. ASSUME NEW s \in S, s < a PROVE s < b
      <4>1. s \in Int
        BY <1>2
      <4> QED  BY <1>4, <3>1, <3>2, <4>1
    <3> QED  BY <1>4, <3>2
  <2>2. Rank(a, S) \in Nat /\ Rank(a, S) < Rank(b, S)
    BY <1>1, <2>1 DEF Rank
  <2>3. Rank(b, S) \in Nat
    BY <1>1
  <2> QED  BY <2>2, <2>3
<1>5. p # q => p < q \/ q < p
  BY <1>2
<1> QED  BY <1>3, <1>4, <1>5

\* A layout gives a cell to each port.
LEMMA LayoutType ==
    ASSUME NEW S, S \subseteq Ports, NEW n \in Nat,
           cell \in [Ports -> [left : Nat, top : Nat, width : Nat, height : Nat]]
    PROVE  Layout(S, n) \in [Ports -> [left : Nat, top : Nat, width : Nat,
        height : Nat]]
<1>1. ASSUME NEW p \in S, n > 0
      PROVE  CellAt(Cardinality({q \in S : q < p}), n)
               \in [left : Nat, top : Nat, width : Nat, height : Nat]
  <2>1. {q \in S : q < p} \subseteq Ports
    OBVIOUS
  <2>2. Cardinality({q \in S : q < p}) \in Nat
    BY <2>1, PortsFinite
  <2> QED  BY <1>1, <2>2, CellType
<1> QED  BY <1>1 DEF Layout

-----------------------------------------------------------------------------
(* The inductive invariant. *)

\* How far the application is with a port, and what its flags then are.
Phase(p) ==
    /\ (p \in ports) <=> app[p] = "handled"
    /\ removing[p] <=> app[p] \in {"sending", "nulling", "gone"}
    /\ app[p] \in {"sending", "nulling"} => lock = p
    /\ app[p] = "sending" => input[p]
    /\ app[p] = "absent" => elements[p] = "none" /\ stream[p] = "silent"
    /\ app[p] \in {"handled", "sending", "nulling"} => elements[p] = "in"
    /\ app[p] # "gone" => idles[p] = 0

\* No thread is in a probe of a port that is gone; a pad the removal finds ended has no
\* thread in its probes.
Quiet(p) ==
    /\ app[p] = "gone" => ~Streaming(p)
    /\ input[p] => stream[p] \notin {"silent", "starting"}
    /\ app[p] \in {"absent", "handled"} /\ padEos[p] => stream[p] = "ended"

Phases == \A p \in Ports : Phase(p) /\ Quiet(p)

\* The ports that were linked to the mixer, and those a cell is kept for.
Linked == {p \in Ports : stream[p] \notin {"silent", "starting"}}
Counted == {p \in Ports : input[p] /\ app[p] \in {"handled", "sending"}}

Counts == Cardinality(Counted) <= n_elems /\ n_elems <= Cardinality(Linked)

\* The mixer draws the sources where the last layout put them, among all the ports of
\* that layout.
Drawn ==
    \E S \in SUBSET Ports, n \in 0 .. MaxPorts :
        /\ Inputs \subseteq S /\ Cardinality(S) <= n
        /\ \A p \in S : cell[p] = CellAt(Rank(p, S), n)

IInv == TypeOK /\ Phases /\ RemovedOnce /\ Counts /\ Drawn

\* A new mixer has no port.
LEMMA InitHolds == Init => IInv
<1> SUFFICES ASSUME Init PROVE IInv
  OBVIOUS
<1>1. TypeOK
  BY ConstantsAssumption DEF Init, TypeOK, NoCell
<1>2. Phases
  BY DEF Init, Phases, Phase, Quiet
<1>3. RemovedOnce
  BY DEF Init, RemovedOnce
<1>4. Counts
  <2>1. Counted = {} /\ Linked = {} /\ n_elems = 0
    BY DEF Init, Counted, Linked
  <2> QED  BY <2>1, FS_EmptySet DEF Counts
<1>5. Drawn
  <2>1. Inputs = {}
    BY DEF Init, Inputs
  <2>2. Cardinality({}) = 0 /\ 0 \in 0 .. MaxPorts
    BY FS_EmptySet, ConstantsAssumption
  <2> QED  BY <2>1, <2>2 DEF Drawn
<1> QED  BY <1>1, <1>2, <1>3, <1>4, <1>5 DEF IInv

\* A step that links nobody and takes nobody's cell.
LEMMA GridKept ==
    ASSUME Counts, Drawn, UNCHANGED grid,
           n_elems \in Nat,
           Counted' \subseteq Counted, Linked' = Linked, Inputs' \subseteq Inputs
    PROVE  Counts' /\ Drawn'
<1>1. Counts'
  <2>1. Counted \subseteq Ports /\ IsFiniteSet(Counted)
    BY PortsFinite DEF Counted
  <2>2. /\ Cardinality(Counted') <= Cardinality(Counted)
        /\ Cardinality(Counted) \in Nat /\ Cardinality(Counted') \in Nat
    BY <2>1, FS_Subset, FS_CardinalityType
  <2> QED  BY <2>2 DEF Counts, grid
<1>2. Drawn'
  <2>1. cell' = cell
    BY DEF grid
  <2>2. PICK S \in SUBSET Ports, n \in 0 .. MaxPorts :
             /\ Inputs \subseteq S /\ Cardinality(S) <= n
             /\ \A p \in S : cell[p] = CellAt(Rank(p, S), n)
    BY DEF Drawn
  <2>3. Inputs' \subseteq S
    BY <2>2
  <2> QED  BY <2>1, <2>2, <2>3 DEF Drawn
<1> QED  BY <1>1, <1>2

\* Drawing a set of ports that has enough cells.
LEMMA Redrawn ==
    ASSUME TypeOK, NEW S, S \subseteq Ports, NEW n \in 0 .. MaxPorts,
           Cardinality(S) <= n, Inputs' \subseteq S, cell' = Layout(S, n)
    PROVE  Drawn'
<1>1. \A p \in S : n > 0 => cell'[p] = CellAt(Rank(p, S), n)
  BY DEF Layout, Rank
<1>2. n = 0 => S = {}
  <2>1. IsFiniteSet(S) /\ Cardinality(S) \in Nat
    BY PortsFinite
  <2> QED  BY <2>1, FS_EmptySet
<1>3. \A p \in S : cell'[p] = CellAt(Rank(p, S), n)
  BY <1>1, <1>2
<1> QED  BY <1>3 DEF Drawn

\* The removal of a port gives one cell back and draws the ports that are left.
LEMMA CellReturned ==
    ASSUME IInv, NEW p \in Ports, app[p] = "sending", Leave(p),
           app' = [app EXCEPT ![p] = "gone"], UNCHANGED <<ports, stream>>
    PROVE  /\ input' = [input EXCEPT ![p] = FALSE]
           /\ n_elems' \in 0 .. MaxPorts
           /\ cell' \in [Ports -> [left : Nat, top : Nat, width : Nat, height : Nat]]
           /\ Counts' /\ Drawn'
<1> USE DEF IInv
<1>1. /\ IsFiniteSet(Counted) /\ Cardinality(Counted) \in Nat
      /\ p \in Counted /\ n_elems \in Nat /\ MaxPorts \in Nat
      /\ n_elems <= MaxPorts
  <2>1. Counted \subseteq Ports
    BY DEF Counted
  <2> QED  BY <2>1, PortsFinite, ConstantsAssumption DEF Counted, Phases, Phase,
      TypeOK
<1>2. Cardinality(Counted \ {p}) = Cardinality(Counted) - 1
  BY <1>1, FS_RemoveElement
<1>3. n_elems > 0
  <2>1. Cardinality(Counted) # 0
    BY <1>1, FS_EmptySet
  <2> QED  BY <1>1, <2>1 DEF Counts
<1>4. /\ input' = [input EXCEPT ![p] = FALSE]
      /\ n_elems' = n_elems - 1
      /\ cell' = Layout(Inputs \ {p}, n_elems')
  BY <1>3 DEF Leave
<1>5. n_elems' \in 0 .. MaxPorts
  BY <1>1, <1>3, <1>4
<1>6. Counted' = Counted \ {p}
  BY <1>4 DEF Counted, TypeOK
<1>7. Linked' = Linked
  BY DEF Linked
<1>8. Counts'
  <2>1. Cardinality(Linked) \in Nat
    BY PortsFinite DEF Linked
  <2>2. Cardinality(Counted') <= n_elems'
    BY <1>1, <1>2, <1>4, <1>6 DEF Counts
  <2>3. n_elems' <= Cardinality(Linked')
    BY <1>1, <1>4, <1>7, <2>1 DEF Counts
  <2> QED  BY <2>2, <2>3 DEF Counts
<1>9. Inputs \ {p} \subseteq Ports
  BY DEF Inputs, TypeOK
<1>10. cell' \in [Ports -> [left : Nat, top : Nat, width : Nat, height : Nat]]
  <2>1. n_elems' \in Nat
    BY <1>5
  <2> QED  BY <1>4, <1>9, <2>1, LayoutType DEF TypeOK
<1>11. Drawn'
  <2>1. Inputs' \subseteq Inputs \ {p}
    BY <1>4 DEF Inputs, TypeOK
  <2>2. Inputs \ {p} \subseteq Counted'
    BY <1>6 DEF Inputs, Counted, Phases, Phase, TypeOK
  <2>3. IsFiniteSet(Counted') /\ Cardinality(Counted') \in Nat
        /\ Cardinality(Counted') <= n_elems'
    BY <1>1, <1>6, <1>8, FS_RemoveElement, FS_CardinalityType DEF Counts
  <2>4. /\ Cardinality(Inputs \ {p}) <= Cardinality(Counted')
        /\ Cardinality(Inputs \ {p}) \in Nat
    BY <1>9, <2>2, <2>3, FS_Subset, PortsFinite
  <2>5. Cardinality(Inputs \ {p}) <= n_elems'
    BY <1>5, <2>3, <2>4
  <2> QED  BY <1>4, <1>5, <1>9, <2>1, <2>5, Redrawn
<1> QED  BY <1>4, <1>5, <1>8, <1>10, <1>11

\* One lemma for each action.
LEMMA HandlePortStep ==
    ASSUME IInv, NEW p \in Ports, HandlePort(p)
    PROVE  IInv'
<1> USE DEF IInv
<1>1. Counts' /\ Drawn'
  <2>1. UNCHANGED grid
    BY DEF HandlePort
  <2>2. Counted' \subseteq Counted
    BY DEF HandlePort, port, Counted, Phases, Phase, Quiet
  <2>3. Linked' = Linked
    BY DEF HandlePort, Linked
  <2>4. Inputs' \subseteq Inputs
    BY DEF HandlePort, port, Inputs, Phases, Phase, Quiet
  <2>5. n_elems \in Nat
    BY DEF TypeOK
  <2> QED  BY <2>1, <2>2, <2>3, <2>4, <2>5, GridKept
<1>2. TypeOK'
  BY DEF HandlePort, grid, port, TypeOK
<1>3. Phases'
  <2> SUFFICES ASSUME NEW q \in Ports PROVE Phase(q)' /\ Quiet(q)'
    BY DEF Phases
  <2>1. Phase(q) /\ Quiet(q) /\ Phase(p) /\ Quiet(p)
    BY DEF Phases
  <2>2. CASE q = p
    <3>1. Phase(p)'
      <4>1. /\ app[p] = "absent" /\ app'[p] = "handled" /\ p \in ports'
            /\ elements'[p] = "in" /\ idles'[p] = idles[p]
            /\ removing'[p] = removing[p]
        BY DEF HandlePort, port, TypeOK
      <4>2. idles[p] = 0 /\ ~removing[p]
        BY <2>1, <4>1 DEF Phase
      <4> QED  BY <4>1, <4>2 DEF Phase
    <3>2. Quiet(p)'
      BY <2>1 DEF HandlePort, port, Quiet
    <3> QED  BY <2>2, <3>1, <3>2
  <2>3. CASE q # p
    BY <2>1, <2>3 DEF HandlePort, port, Phase, Quiet, Streaming
  <2> QED  BY <2>2, <2>3
<1>4. RemovedOnce'
  BY DEF HandlePort, RemovedOnce, Phases, Phase
<1> QED  BY <1>1, <1>2, <1>3, <1>4

LEMMA UnhandleEndedStep ==
    ASSUME IInv, NEW p \in Ports, UnhandleEnded(p)
    PROVE  IInv'
<1> USE DEF IInv
<1>1. Counts' /\ Drawn'
  <2>1. UNCHANGED grid
    BY DEF UnhandleEnded
  <2>2. Counted' \subseteq Counted
    BY DEF UnhandleEnded, Counted
  <2>3. Linked' = Linked
    BY DEF UnhandleEnded, Linked
  <2>4. Inputs' \subseteq Inputs
    BY DEF UnhandleEnded, UnhandlePort, Inputs
  <2>5. n_elems \in Nat
    BY DEF TypeOK
  <2> QED  BY <2>1, <2>2, <2>3, <2>4, <2>5, GridKept
<1>2. TypeOK'
  BY DEF UnhandleEnded, UnhandlePort, QueueRemoval, grid, TypeOK
<1>3. Phases'
  <2> SUFFICES ASSUME NEW q \in Ports PROVE Phase(q)' /\ Quiet(q)'
    BY DEF Phases
  <2> QED  BY DEF UnhandleEnded, UnhandlePort, QueueRemoval, TypeOK, Phases, Phase,
      Quiet, Streaming
<1>4. RemovedOnce'
  BY DEF UnhandleEnded, UnhandlePort, QueueRemoval, TypeOK, RemovedOnce, Phases, Phase
<1> QED  BY <1>1, <1>2, <1>3, <1>4

LEMMA UnhandleBeginStep ==
    ASSUME IInv, NEW p \in Ports, UnhandleBegin(p)
    PROVE  IInv'
<1> USE DEF IInv
<1>1. Counts' /\ Drawn'
  <2>1. UNCHANGED grid
    BY DEF UnhandleBegin
  <2>2. Counted' \subseteq Counted
    BY DEF UnhandleBegin, UnhandlePort, Counted
  <2>3. Linked' = Linked
    BY DEF UnhandleBegin, Linked
  <2>4. Inputs' \subseteq Inputs
    BY DEF UnhandleBegin, UnhandlePort, Inputs
  <2>5. n_elems \in Nat
    BY DEF TypeOK
  <2> QED  BY <2>1, <2>2, <2>3, <2>4, <2>5, GridKept
<1>2. TypeOK'
  BY DEF UnhandleBegin, UnhandlePort, grid, TypeOK
<1>3. Phases'
  <2> SUFFICES ASSUME NEW q \in Ports PROVE Phase(q)' /\ Quiet(q)'
    BY DEF Phases
  <2>1. Phase(q) /\ Quiet(q) /\ Phase(p) /\ Quiet(p)
    BY DEF Phases
  <2>2. CASE q = p
    <3>1. Phase(p)'
      BY <2>1 DEF UnhandleBegin, UnhandlePort, TypeOK, Phase
    <3>2. Quiet(p)'
      BY <2>1 DEF UnhandleBegin, Quiet, Streaming
    <3> QED  BY <2>2, <3>1, <3>2
  <2>3. CASE q # p
    BY <2>1, <2>3 DEF UnhandleBegin, UnhandlePort, Free, Phase, Quiet, Streaming,
        None, Free, Ports
  <2> QED  BY <2>2, <2>3
<1>4. RemovedOnce'
  BY DEF UnhandleBegin, UnhandlePort, RemovedOnce
<1> QED  BY <1>1, <1>2, <1>3, <1>4

LEMMA SendEosStep ==
    ASSUME IInv, NEW p \in Ports, SendEos(p)
    PROVE  IInv'
<1> USE DEF IInv
<1>1. /\ input' = [input EXCEPT ![p] = FALSE]
      /\ n_elems' \in 0 .. MaxPorts
      /\ cell' \in [Ports -> [left : Nat, top : Nat, width : Nat, height : Nat]]
      /\ Counts' /\ Drawn'
  BY CellReturned DEF SendEos
<1>2. /\ eosProbe' = [eosProbe EXCEPT ![p] = FALSE]
      /\ idles' = [idles EXCEPT ![p] = @ + 1] /\ UNCHANGED eos_managed
  BY DEF SendEos, ManageEos, QueueRemoval, Phases, Phase
<1>3. Counts' /\ Drawn'
  BY <1>1
<1>4. TypeOK'
  BY <1>1, <1>2 DEF SendEos, TypeOK
<1>5. Phases'
  <2> SUFFICES ASSUME NEW q \in Ports PROVE Phase(q)' /\ Quiet(q)'
    BY DEF Phases
  <2> QED  BY <1>1, <1>2 DEF SendEos, TypeOK, Phases, Phase, Quiet, Streaming
<1>6. RemovedOnce'
  BY <1>1, <1>2 DEF SendEos, RemovedOnce, Phases, Phase
<1> QED  BY <1>3, <1>4, <1>5, <1>6

LEMMA EosRefusedStep ==
    ASSUME IInv, NEW p \in Ports, EosRefused(p)
    PROVE  IInv'
<1> USE DEF IInv
<1>1. /\ input' = [input EXCEPT ![p] = FALSE]
      /\ n_elems' \in 0 .. MaxPorts
      /\ cell' \in [Ports -> [left : Nat, top : Nat, width : Nat, height : Nat]]
      /\ Counts' /\ Drawn'
  BY CellReturned DEF EosRefused
<1>2. Counts' /\ Drawn'
  BY <1>1
<1>3. TypeOK'
  BY <1>1 DEF EosRefused, TypeOK
<1>4. Phases'
  <2> SUFFICES ASSUME NEW q \in Ports PROVE Phase(q)' /\ Quiet(q)'
    BY DEF Phases
  <2> QED  BY <1>1 DEF EosRefused, TypeOK, Phases, Phase, Quiet, Streaming
<1>5. RemovedOnce'
  BY <1>1 DEF EosRefused, RemovedOnce
<1> QED  BY <1>2, <1>3, <1>4, <1>5

LEMMA NullElementsStep ==
    ASSUME IInv, NEW p \in Ports, NullElements(p)
    PROVE  IInv'
<1> USE DEF IInv
<1>1. Counts' /\ Drawn'
  <2>1. UNCHANGED grid
    BY DEF NullElements
  <2>2. Counted' \subseteq Counted
    BY DEF NullElements, port, Counted
  <2>3. Linked' = Linked
    BY DEF NullElements, Linked
  <2>4. Inputs' \subseteq Inputs
    BY DEF NullElements, port, Inputs
  <2>5. n_elems \in Nat
    BY DEF TypeOK
  <2> QED  BY <2>1, <2>2, <2>3, <2>4, <2>5, GridKept
<1>2. TypeOK'
  BY DEF NullElements, grid, port, TypeOK
<1>3. Phases'
  <2> SUFFICES ASSUME NEW q \in Ports PROVE Phase(q)' /\ Quiet(q)'
    BY DEF Phases
  <2> QED  BY DEF NullElements, port, TypeOK, Phases, Phase, Quiet, Streaming
<1>4. RemovedOnce'
  BY DEF NullElements, RemovedOnce, Phases, Phase
<1> QED  BY <1>1, <1>2, <1>3, <1>4

LEMMA StreamStartStep ==
    ASSUME IInv, NEW p \in Ports, StreamStart(p)
    PROVE  IInv'
<1> USE DEF IInv
<1>1. Counts' /\ Drawn'
  <2>1. UNCHANGED grid
    BY DEF StreamStart
  <2>2. Counted' \subseteq Counted
    BY DEF StreamStart, port, Counted
  <2>3. Linked' = Linked
    BY DEF StreamStart, Linked
  <2>4. Inputs' \subseteq Inputs
    BY DEF StreamStart, port, Inputs
  <2>5. n_elems \in Nat
    BY DEF TypeOK
  <2> QED  BY <2>1, <2>2, <2>3, <2>4, <2>5, GridKept
<1>2. TypeOK'
  BY DEF StreamStart, grid, port, TypeOK
<1>3. Phases'
  <2> SUFFICES ASSUME NEW q \in Ports PROVE Phase(q)' /\ Quiet(q)'
    BY DEF Phases
  <2> QED  BY DEF StreamStart, port, Phases, Phase, Quiet, Streaming
<1>4. RemovedOnce'
  BY DEF StreamStart, RemovedOnce
<1> QED  BY <1>1, <1>2, <1>3, <1>4

LEMMA StreamEosStep ==
    ASSUME IInv, NEW p \in Ports, StreamEos(p)
    PROVE  IInv'
<1> USE DEF IInv
<1>1. Counts' /\ Drawn'
  <2>1. UNCHANGED grid
    BY DEF StreamEos
  <2>2. Counted' \subseteq Counted
    BY DEF StreamEos, port, Counted
  <2>3. Linked' = Linked
    BY DEF StreamEos, Linked
  <2>4. Inputs' \subseteq Inputs
    BY DEF StreamEos, port, Inputs
  <2>5. n_elems \in Nat
    BY DEF TypeOK
  <2> QED  BY <2>1, <2>2, <2>3, <2>4, <2>5, GridKept
<1>2. TypeOK'
  BY DEF StreamEos, grid, port, TypeOK
<1>3. Phases'
  <2> SUFFICES ASSUME NEW q \in Ports PROVE Phase(q)' /\ Quiet(q)'
    BY DEF Phases
  <2> QED  BY DEF StreamEos, port, Phases, Phase, Quiet, Streaming
<1>4. RemovedOnce'
  BY DEF StreamEos, RemovedOnce
<1> QED  BY <1>1, <1>2, <1>3, <1>4

LEMMA EosReceivedStep ==
    ASSUME IInv, NEW p \in Ports, EosReceived(p)
    PROVE  IInv'
<1> USE DEF IInv
<1>1. ~removing[p]
  BY DEF EosReceived, Free, None, Ports, Phases, Phase, Quiet, Streaming
<1>2. /\ eos_managed' = [eos_managed EXCEPT ![p] = TRUE]
      /\ UNCHANGED <<eosProbe, idles>>
  BY <1>1 DEF EosReceived, ManageEos
<1>3. Counts' /\ Drawn'
  <2>1. UNCHANGED grid
    BY DEF EosReceived
  <2>2. Counted' \subseteq Counted
    BY DEF EosReceived, Counted
  <2>3. Linked' = Linked
    BY DEF EosReceived, Linked
  <2>4. Inputs' \subseteq Inputs
    BY DEF EosReceived, Inputs
  <2>5. n_elems \in Nat
    BY DEF TypeOK
  <2> QED  BY <2>1, <2>2, <2>3, <2>4, <2>5, GridKept
<1>4. TypeOK'
  BY <1>1, <1>2 DEF EosReceived, grid, TypeOK
<1>5. Phases'
  <2> SUFFICES ASSUME NEW q \in Ports PROVE Phase(q)' /\ Quiet(q)'
    BY DEF Phases
  <2> QED  BY <1>1, <1>2 DEF EosReceived, Phases, Phase, Quiet, Streaming
<1>6. RemovedOnce'
  BY <1>1, <1>2 DEF EosReceived, RemovedOnce
<1> QED  BY <1>3, <1>4, <1>5, <1>6

LEMMA StreamEndedStep ==
    ASSUME IInv, NEW p \in Ports, StreamEnded(p)
    PROVE  IInv'
<1> USE DEF IInv
<1>1. Counts' /\ Drawn'
  <2>1. UNCHANGED grid
    BY DEF StreamEnded
  <2>2. Counted' \subseteq Counted
    BY DEF StreamEnded, port, Counted
  <2>3. Linked' = Linked
    BY DEF StreamEnded, Linked
  <2>4. Inputs' \subseteq Inputs
    BY DEF StreamEnded, port, Inputs
  <2>5. n_elems \in Nat
    BY DEF TypeOK
  <2> QED  BY <2>1, <2>2, <2>3, <2>4, <2>5, GridKept
<1>2. TypeOK'
  BY DEF StreamEnded, grid, port, TypeOK
<1>3. Phases'
  <2> SUFFICES ASSUME NEW q \in Ports PROVE Phase(q)' /\ Quiet(q)'
    BY DEF Phases
  <2> QED  BY DEF StreamEnded, port, TypeOK, Phases, Phase, Quiet, Streaming
<1>4. RemovedOnce'
  BY DEF StreamEnded, RemovedOnce
<1> QED  BY <1>1, <1>2, <1>3, <1>4

LEMMA StreamAgainStep ==
    ASSUME IInv, NEW p \in Ports, StreamAgain(p)
    PROVE  IInv'
<1> USE DEF IInv
<1>1. Counts' /\ Drawn'
  <2>1. UNCHANGED grid
    BY DEF StreamAgain
  <2>2. Counted' \subseteq Counted
    BY DEF StreamAgain, port, Counted
  <2>3. Linked' = Linked
    BY DEF StreamAgain, Linked
  <2>4. Inputs' \subseteq Inputs
    BY DEF StreamAgain, port, Inputs
  <2>5. n_elems \in Nat
    BY DEF TypeOK
  <2> QED  BY <2>1, <2>2, <2>3, <2>4, <2>5, GridKept
<1>2. TypeOK'
  BY DEF StreamAgain, grid, port, TypeOK
<1>3. Phases'
  <2> SUFFICES ASSUME NEW q \in Ports PROVE Phase(q)' /\ Quiet(q)'
    BY DEF Phases
  <2> QED  BY DEF StreamAgain, port, TypeOK, Phases, Phase, Quiet, Streaming
<1>4. RemovedOnce'
  BY DEF StreamAgain, RemovedOnce
<1> QED  BY <1>1, <1>2, <1>3, <1>4

LEMMA RemoveElementsStep ==
    ASSUME IInv, NEW p \in Ports, RemoveElements(p)
    PROVE  IInv'
<1> USE DEF IInv
<1>1. Counts' /\ Drawn'
  <2>1. UNCHANGED grid
    BY DEF RemoveElements
  <2>2. Counted' \subseteq Counted
    BY DEF RemoveElements, port, Counted
  <2>3. Linked' = Linked
    BY DEF RemoveElements, Linked
  <2>4. Inputs' \subseteq Inputs
    BY DEF RemoveElements, port, Inputs
  <2>5. n_elems \in Nat
    BY DEF TypeOK
  <2> QED  BY <2>1, <2>2, <2>3, <2>4, <2>5, GridKept
<1>2. TypeOK'
  BY DEF RemoveElements, grid, port, TypeOK
<1>3. Phases'
  <2> SUFFICES ASSUME NEW q \in Ports PROVE Phase(q)' /\ Quiet(q)'
    BY DEF Phases
  <2> QED  BY DEF RemoveElements, port, Phases, Phase, Quiet, Streaming
<1>4. RemovedOnce'
  BY DEF RemoveElements, TypeOK, RemovedOnce
<1> QED  BY <1>1, <1>2, <1>3, <1>4

\* The stream of a port that is still handled reaches the mixer.
LEMMA LinkToVideomixerStep ==
    ASSUME IInv, NEW p \in Ports, LinkToVideomixer(p)
    PROVE  IInv'
<1> USE DEF IInv
<1> DEFINE S == (Inputs \union {p}) \intersect ports
<1>0. app[p] = "handled" /\ ~input[p]
  BY DEF LinkToVideomixer, Free, None, Ports, TypeOK, Phases, Phase, Quiet, Streaming
<1>1. /\ IsFiniteSet(Counted) /\ Cardinality(Counted) \in Nat /\ p \notin Counted
      /\ IsFiniteSet(Linked) /\ Cardinality(Linked) \in Nat /\ p \notin Linked
      /\ n_elems \in Nat
  <2>1. Counted \subseteq Ports /\ Linked \subseteq Ports
    BY DEF Counted, Linked
  <2>2. p \notin Counted /\ p \notin Linked /\ n_elems \in Nat
    BY <1>0 DEF LinkToVideomixer, Counted, Linked, TypeOK
  <2> QED  BY <2>1, <2>2, PortsFinite
<1>2. Counted' = Counted \union {p} /\ Linked' = Linked \union {p}
  BY <1>0 DEF LinkToVideomixer, Counted, Linked, TypeOK
<1>3. n_elems' = n_elems + 1 /\ cell' = Layout(S, n_elems')
  BY DEF LinkToVideomixer, Join
<1>4. Counts'
  <2>1. /\ Cardinality(Counted') = Cardinality(Counted) + 1
        /\ Cardinality(Linked') = Cardinality(Linked) + 1
    BY <1>1, <1>2, FS_AddElement
  <2> QED  BY <1>1, <1>3, <2>1 DEF Counts
<1>5. n_elems' \in 0 .. MaxPorts
  <2>1. Linked' \subseteq Ports
    BY DEF Linked
  <2>2. Cardinality(Linked') \in 0 .. MaxPorts
    BY <2>1, PortsFinite
  <2> QED  BY <1>1, <1>3, <1>4, <2>2, ConstantsAssumption DEF Counts
<1>6. S \subseteq Ports /\ S \subseteq Counted'
  BY <1>2 DEF Inputs, Counted, TypeOK, Phases, Phase
<1>7. Drawn'
  <2>1. Inputs' \subseteq S
    BY DEF LinkToVideomixer, Inputs
  <2>2. IsFiniteSet(Counted') /\ Cardinality(Counted') <= n_elems'
    BY <1>1, <1>2, <1>4, FS_AddElement DEF Counts
  <2>3. /\ Cardinality(S) <= Cardinality(Counted')
        /\ Cardinality(S) \in Nat /\ Cardinality(Counted') \in Nat
    BY <1>6, <2>2, FS_Subset, FS_CardinalityType
  <2>4. Cardinality(S) <= n_elems'
    BY <1>5, <2>2, <2>3
  <2> HIDE DEF S
  <2> QED  BY <1>3, <1>5, <1>6, <2>1, <2>4, Redrawn
<1>8. TypeOK'
  <2>1. n_elems' \in Nat
    BY <1>5
  <2>2. cell' \in [Ports -> [left : Nat, top : Nat, width : Nat, height : Nat]]
    <3> HIDE DEF S
    <3> QED  BY <1>3, <1>6, <2>1, LayoutType DEF TypeOK
  <2> QED  BY <1>5, <2>2 DEF LinkToVideomixer, TypeOK
<1>9. Phases'
  <2> SUFFICES ASSUME NEW q \in Ports PROVE Phase(q)' /\ Quiet(q)'
    BY DEF Phases
  <2> QED  BY <1>0 DEF LinkToVideomixer, TypeOK, Phases, Phase, Quiet, Streaming
<1>10. RemovedOnce'
  BY DEF LinkToVideomixer, RemovedOnce
<1> QED  BY <1>4, <1>7, <1>8, <1>9, <1>10

\* A step that changes nothing.
LEMMA StutterStep ==
    ASSUME IInv, UNCHANGED vars
    PROVE  IInv'
<1> USE DEF IInv, vars, grid, port
<1>1. TypeOK' /\ RemovedOnce'
  BY DEF TypeOK, RemovedOnce
<1>2. Phases'
  BY DEF Phases, Phase, Quiet, Streaming
<1>3. Counts' /\ Drawn'
  <2>1. Counted' \subseteq Counted /\ Linked' = Linked /\ Inputs' \subseteq Inputs
    BY DEF Counted, Linked, Inputs
  <2>2. n_elems \in Nat
    BY DEF TypeOK
  <2> QED  BY <2>1, <2>2, GridKept
<1> QED  BY <1>1, <1>2, <1>3

-----------------------------------------------------------------------------
(* The theorems. *)

\* What holds of every port, its flags and the grid (kmscompositemixer.c) after every
\* step of application, streaming threads and loop.
THEOREM InductiveInvariant == Spec => []IInv
<1>1. Init => IInv
  BY InitHolds
<1>2. IInv /\ [Next]_vars => IInv'
  <2> SUFFICES ASSUME IInv, [Next]_vars PROVE IInv'
    OBVIOUS
  <2>1. CASE UNCHANGED vars
    BY <2>1, StutterStep
  <2>2. ASSUME NEW p \in Ports, Application(p) PROVE IInv'
    BY <2>2, HandlePortStep, UnhandleEndedStep, UnhandleBeginStep, SendEosStep,
       EosRefusedStep, NullElementsStep DEF Application
  <2>3. ASSUME NEW p \in Ports, Stream(p) PROVE IInv'
    BY <2>3, StreamStartStep, LinkToVideomixerStep, StreamEosStep, EosReceivedStep,
       StreamEndedStep, StreamAgainStep DEF Stream
  <2>4. ASSUME NEW p \in Ports, RemoveElements(p) PROVE IInv'
    BY <2>4, RemoveElementsStep
  <2> QED  BY <2>1, <2>2, <2>3, <2>4 DEF Next
<1> QED  BY <1>1, <1>2, PTL DEF Spec

\* Every variable keeps its type; the number of cells stays within the number of ports.
THEOREM TypeInvariant == Spec => []TypeOK
<1>1. IInv => TypeOK
  BY DEF IInv
<1> QED  BY <1>1, InductiveInvariant, PTL

\* cb_EOS_received and port_data_destroy never both queue the removal of a port's
\* elements, for any number of ports.
THEOREM ElementsRemovedOnce == Spec => []RemovedOnce
<1>1. IInv => RemovedOnce
  BY DEF IInv
<1> QED  BY <1>1, InductiveInvariant, PTL

\* For any number of ports, in a frame that has at least as many columns and rows of
\* pixels as there are ports: no source is drawn over another one or outside the frame.
THEOREM SourcesDoNotOverlap ==
    ASSUME MaxPorts <= OutputWidth, MaxPorts <= OutputHeight
    PROVE  Spec => []EachHasItsCell
<1>1. IInv => EachHasItsCell
  <2> SUFFICES ASSUME IInv, NEW p \in Inputs
               PROVE  /\ Inside(cell[p])
                      /\ \A q \in Inputs \ {p} : Apart(cell[p], cell[q])
    BY DEF EachHasItsCell
  <2>1. PICK S \in SUBSET Ports, n \in 0 .. MaxPorts :
             /\ Inputs \subseteq S /\ Cardinality(S) <= n
             /\ \A q \in S : cell[q] = CellAt(Rank(q, S), n)
    BY DEF IInv, Drawn
  <2>2. Cardinality(S) \in Nat
    BY PortsFinite
  <2>3. ASSUME NEW q \in Inputs
        PROVE  /\ cell[q] = CellAt(Rank(q, S), n)
               /\ Rank(q, S) \in 0 .. n - 1
               /\ p # q => Rank(p, S) # Rank(q, S)
    <3>1. /\ Rank(q, S) \in 0 .. Cardinality(S) - 1
          /\ p # q => Rank(p, S) # Rank(q, S)
      BY <2>1, RanksDiffer
    <3>2. cell[q] = CellAt(Rank(q, S), n)
      BY <2>1
    <3> QED  BY <2>1, <2>2, <3>1, <3>2
  <2>4. /\ n \in Nat \ {0} /\ n <= OutputWidth /\ n <= OutputHeight
    BY <2>1, <2>3, ConstantsAssumption
  <2>5. Inside(cell[p])
    BY <2>3, <2>4, CellsApart
  <2>6. ASSUME NEW q \in Inputs \ {p} PROVE Apart(cell[p], cell[q])
    BY <2>3, <2>4, CellsApart
  <2> QED  BY <2>5, <2>6
<1> QED  BY <1>1, InductiveInvariant, PTL

===================================================================================
