----------------------- MODULE Ee24lc512CursorProofs -----------------------
(***************************************************************************)
(* Proofs about the cursor of Ee24lc512 and the bytes that go through it:  *)
(* the chunks of a write are the write, and a read is what is on the chip. *)
(***************************************************************************)
EXTENDS Ee24lc512Proofs

-----------------------------------------------------------------------------
(* The plan of a write.                                                    *)

WholePages(c) == IF c.nb_page > 0 THEN c.nb_page ELSE 0

(* The bytes of all chunks of a plan.                                      *)
Total(c) == c.remain_in_page + (WholePages(c) * EEP_PAGE_SIZE) + c.last_remain

(* The plan was made for a cursor and a count that stay on the chip, with  *)
(* the first page of that cursor, or with that of a cursor reset to 0.     *)
PlanKept(c) ==
  /\ c.start \in Nat /\ c.start < EEP_SIZE /\ c.start + c.count <= EEP_SIZE
  /\ c.remain_in_page = RemainInPage(c.start) \/ c.remain_in_page = 0
  /\ c.nb_page = NbPage(c.count, c.remain_in_page)
  /\ c.last_remain = LastRemain(c.count, c.remain_in_page)

(* The bytes sent before a chunk are those of the chunks before it.        *)
OnPlan(c) ==
  /\ c.stage = "head" => c.offset = 0 /\ c.i = 0
  /\ c.stage = "page" => /\ c.i < c.nb_page
                         /\ c.offset = c.remain_in_page + (c.i * EEP_PAGE_SIZE)
  /\ c.stage = "tail" =>
       c.offset = c.remain_in_page + (WholePages(c) * EEP_PAGE_SIZE)

(* Multiplication by a count of pages.                                     *)
LEMMA Product ==
  ASSUME NEW i \in Nat, NEW n \in Nat
  PROVE  /\ i * n \in Nat /\ (i + 1) * n = (i * n) + n /\ 0 * n = 0
         /\ \A j \in Nat : i <= j => i * n <= j * n
<1>1. i * n \in Nat /\ (i + 1) * n = (i * n) + n /\ 0 * n = 0
  OBVIOUS
<1>2. ASSUME NEW j \in Nat, i <= j
      PROVE  i * n <= j * n
  <2>1. PICK d \in Nat : j = i + d
    <3>1. j - i \in Nat /\ j = i + (j - i)
      BY <1>2
    <3> QED BY <3>1
  <2>2. d * n \in Nat /\ j * n = (i * n) + (d * n)
    BY <2>1
  <2> QED BY <1>1, <2>2
<1> QED BY <1>1, <1>2

(* The conversion to int never makes a value larger, and keeps one that    *)
(* int can hold.                                                           *)
LEMMA ToIntBelow ==
  ASSUME NEW u \in Nat
  PROVE  /\ ToInt(u) \in Int /\ ToInt(u) <= u
         /\ u < INT_T \div 2 => ToInt(u) = u
<1> DEFINE n == INT_T
           k == u \div n
           low == u % n
           half == n \div 2
<1>1. /\ n \in Nat \ {0} /\ low \in 0 .. n - 1 /\ k \in Int /\ u = (n * k) + low
      /\ half \in Int /\ n = (2 * half) + (n % 2) /\ n % 2 \in 0 .. 1
  BY DivMod, GeometryAssumption
<1>2. ToInt(u) = IF low < half THEN low ELSE low - n
  BY DEF ToInt
<1> HIDE DEF n, k, low, half
<1>3. k >= 0
  <2> SUFFICES ASSUME k <= -1 PROVE FALSE
    BY <1>1
  <2>1. n * k <= n * (-1)
    BY <1>1
  <2> QED BY <1>1, <2>1
<1>4. n * k >= 0
  BY <1>1, <1>3
<1>5. low <= u
  BY <1>1, <1>4
<1>6. ToInt(u) \in Int /\ ToInt(u) <= u
  BY <1>1, <1>2, <1>5
<1>7. ASSUME u < half
      PROVE  ToInt(u) = u
  <2>1. u < n
    BY <1>1, <1>7
  <2>2. k < 1
    <3> SUFFICES ASSUME k >= 1 PROVE FALSE
      BY <1>1
    <3>1. n * k >= n
      BY <1>1
    <3> QED BY <1>1, <2>1, <3>1
  <2>3. k = 0
    BY <1>1, <1>3, <2>2
  <2>4. low = u
    BY <1>1, <2>3
  <2> QED BY <1>2, <1>7, <2>4
<1> QED BY <1>6, <1>7 DEF half, n

(* The pages and the tail of a plan that has not wrapped are what follows  *)
(* the head.                                                               *)
LEMMA TotalFits ==
  ASSUME NEW count \in Nat, NEW r \in Nat, r <= count,
         NEW pages, pages = IF NbPage(count, r) > 0 THEN NbPage(count, r) ELSE 0
  PROVE  /\ pages \in Nat
         /\ r + (pages * EEP_PAGE_SIZE) + LastRemain(count, r) <= count
         /\ count <= EEP_SIZE =>
              r + (pages * EEP_PAGE_SIZE) + LastRemain(count, r) = count
<1> DEFINE P == EEP_PAGE_SIZE
           W == SIZE_T
           x == count - r
           u == x % W
           k == x \div W
           q == u \div P
           t == u % P
<1>1. /\ P \in Nat \ {0} /\ W \in Nat \ {0} /\ x \in Nat
  BY GeometryAssumption
<1>2. u \in 0 .. W - 1 /\ k \in Int /\ x = (W * k) + u
  BY <1>1, DivMod
<1>3. NbPage(count, r) = ToInt(q) /\ LastRemain(count, r) = t
  BY DEF NbPage, LastRemain
<1> HIDE DEF x, u, k
<1>4. k >= 0
  <2> SUFFICES ASSUME k <= -1 PROVE FALSE
    BY <1>2
  <2>1. W * k <= W * (-1)
    BY <1>1, <1>2
  <2> QED BY <1>1, <1>2, <2>1
<1>5. W * k >= 0 /\ u <= x /\ u \in Nat /\ u \in Int
  <2>1. W * k >= 0
    BY <1>1, <1>2, <1>4
  <2> QED BY <1>1, <1>2, <2>1
<1>6. t \in 0 .. P - 1 /\ q \in Int /\ u = (P * q) + t
  BY <1>1, <1>5, DivMod
<1> HIDE DEF q, t
<1>7. q \in Nat
  <2> SUFFICES ASSUME q <= -1 PROVE FALSE
    BY <1>6
  <2>1. P * q <= P * (-1)
    BY <1>1, <1>6
  <2> QED BY <1>1, <1>5, <1>6, <2>1
<1>8. ToInt(q) \in Int /\ ToInt(q) <= q /\ (q < INT_T \div 2 => ToInt(q) = q)
  BY <1>7, ToIntBelow
<1>9. pages \in Nat /\ pages <= q /\ (q < INT_T \div 2 => pages = q)
  BY <1>3, <1>7, <1>8
<1>10. pages * P <= q * P /\ pages * P \in Nat /\ q * P = P * q
  BY <1>1, <1>7, <1>9, Product
<1>11. r + (pages * P) + t <= count
  BY <1>1, <1>5, <1>6, <1>10 DEF x
<1>12. ASSUME count <= EEP_SIZE
       PROVE  r + (pages * P) + t = count
  <2> DEFINE m == EEP_SIZE \div P
  <2>1. /\ EEP_SIZE \in Nat /\ EEP_SIZE = P * m /\ m \in Int /\ EEP_SIZE < W
        /\ m < INT_T \div 2
    BY GeometryAssumption, WidthAssumption, DivMod
  <2> HIDE DEF m
  <2>2. x < W /\ x <= EEP_SIZE
    BY <1>1, <1>12, <2>1 DEF x
  <2>3. k = 0
    <3>1. SUFFICES ASSUME k >= 1 PROVE FALSE
      BY <1>2, <1>4
    <3>2. W * k >= W
      BY <1>1, <1>2, <3>1
    <3> QED BY <1>1, <1>2, <1>5, <2>2, <3>2
  <2>4. u = x
    BY <1>1, <1>2, <2>3
  <2>5. q <= m
    <3>1. SUFFICES ASSUME q >= m + 1 PROVE FALSE
      BY <1>6, <2>1
    <3>2. P * q >= P * (m + 1)
      BY <1>1, <1>6, <2>1, <3>1
    <3>3. P * (m + 1) = EEP_SIZE + P
      BY <1>1, <2>1
    <3> QED BY <1>1, <1>6, <2>1, <2>2, <2>4, <3>2, <3>3
  <2>6. q < INT_T \div 2
    <3>1. INT_T \div 2 \in Int
      BY GeometryAssumption, DivMod
    <3> QED BY <1>7, <2>1, <2>5, <3>1
  <2>7. pages = q
    BY <1>9, <2>6
  <2> QED BY <1>1, <1>6, <1>10, <2>4, <2>7 DEF x
<1> QED BY <1>3, <1>9, <1>11, <1>12 DEF P

(* A quotient is determined by its equation.                               *)
LEMMA DivUnique ==
  ASSUME NEW n \in Nat \ {0}, NEW q \in Int, NEW r \in 0 .. n - 1
  PROVE  ((n * q) + r) \div n = q
<1> DEFINE a == (n * q) + r
           k == a \div n
<1>0. a \in Int /\ r \in Int /\ n \in Int /\ n > 0
  OBVIOUS
<1>1. a % n = r
  BY ModUnique
<1> HIDE DEF a
<1>2. k \in Int /\ a = (n * k) + r
  BY <1>0, <1>1, DivMod
<1> HIDE DEF k
<1>3. n * (q - k) = 0
  BY <1>0, <1>2 DEF a
<1>4. ~(q - k >= 1) /\ ~(q - k <= -1)
  BY <1>0, <1>2, <1>3
<1>5. q = k
  BY <1>2, <1>4
<1> QED BY <1>5 DEF k, a

(* A write that ends inside its first page is planned as if count -        *)
(* remain_in_page were the size_t it wraps to: the pages of that, and a    *)
(* tail that with the head is a page more than the write.                  *)
LEMMA TotalWrapped ==
  ASSUME NEW count \in Nat, NEW r \in 0 .. EEP_PAGE_SIZE - 1, count < r
  PROVE  /\ NbPage(count, r) = WrappedPages
         /\ r + LastRemain(count, r) = count + EEP_PAGE_SIZE
<1> DEFINE P == EEP_PAGE_SIZE
           W == SIZE_T
           w == W \div P
           d == r - count
           u == (count - r) % W
<1>1. P \in Nat \ {0} /\ W \in Nat \ {0} /\ W % P = 0 /\ d \in 1 .. P - 1
  BY GeometryAssumption
<1>2. NbPage(count, r) = ToInt(u \div P) /\ LastRemain(count, r) = u % P
  BY DEF NbPage, LastRemain
<1>3. WrappedPages = ToInt(w - 1)
  BY DEF WrappedPages
<1>4. w \in Int /\ W = P * w
  BY <1>1, DivMod
<1> HIDE DEF P, W, w
<1>5. w >= 1
  <2> SUFFICES ASSUME w <= 0 PROVE FALSE
    BY <1>4
  <2>1. P * w <= 0
    BY <1>1, <1>4
  <2> QED BY <1>1, <1>4, <2>1
<1>6. W >= P
  BY <1>1, <1>4, <1>5
<1>7. u = W - d
  <2>1. W - d \in 0 .. W - 1 /\ count - r = (W * (-1)) + (W - d)
    BY <1>1, <1>6
  <2> DEFINE e == W - d
             minus == -1
  <2> HIDE DEF d, e, minus
  <2>2. e \in 0 .. W - 1 /\ minus \in Int /\ count - r = (W * minus) + e
    BY <2>1 DEF e, minus
  <2>3. ((W * minus) + e) % W = e
    BY <1>1, <2>2, ModUnique
  <2> QED BY <2>2, <2>3 DEF e
<1> HIDE DEF u, d
<1>8. P - d \in 0 .. P - 1 /\ W - d = (P * (w - 1)) + (P - d) /\ w - 1 \in Int
  BY <1>1, <1>4
<1>9. u \div P = w - 1 /\ u % P = P - d
  <2> DEFINE e == P - d
             v == w - 1
  <2>1. P \in Nat \ {0} /\ e \in 0 .. P - 1 /\ v \in Int /\ u = (P * v) + e
    BY <1>1, <1>7, <1>8
  <2> HIDE DEF e, v
  <2>2. ((P * v) + e) % P = e /\ ((P * v) + e) \div P = v
    BY <2>1, ModUnique, DivUnique
  <2> QED BY <2>1, <2>2 DEF e, v
<1>10. r + (P - d) = count + P
  BY <1>1 DEF d
<1> QED BY <1>2, <1>3, <1>9, <1>10 DEF P

-----------------------------------------------------------------------------
(* The chunks of a plan follow each other.                                 *)

(* What a plan is made of has the types of a call.                         *)
LEMMA TotalType ==
  ASSUME NEW c \in CallType
  PROVE  /\ WholePages(c) \in Nat /\ WholePages(c) * EEP_PAGE_SIZE \in Nat
         /\ c.remain_in_page \in Nat /\ c.last_remain \in Nat /\ Total(c) \in Nat
         /\ EEP_PAGE_SIZE \in Nat
<1>1. c.remain_in_page \in Nat /\ c.last_remain \in Nat /\ c.nb_page \in Int
        /\ EEP_PAGE_SIZE \in Nat
  BY GeometryAssumption DEF CallType, PartOfPage
<1>2. WholePages(c) \in Nat
  BY <1>1 DEF WholePages
<1>3. WholePages(c) * EEP_PAGE_SIZE \in Nat
  BY <1>1, <1>2, Product
<1> QED BY <1>1, <1>2, <1>3 DEF Total

(* No chunk goes past the bytes of the plan.                               *)
LEMMA ChunkWithinTotal ==
  ASSUME NEW c \in CallType, OnPlan(c)
  PROVE  c.offset + ChunkLen(c) <= Total(c)
<1> DEFINE P == EEP_PAGE_SIZE
           whole == WholePages(c)
<1>0. /\ c.i \in Nat /\ c.nb_page \in Int /\ c.stage \in {"head", "page", "tail"}
      /\ c.offset \in Nat
  BY DEF CallType, Stage
<1>1. /\ whole \in Nat /\ whole * P \in Nat /\ c.remain_in_page \in Nat
      /\ c.last_remain \in Nat /\ P \in Nat
      /\ Total(c) = c.remain_in_page + (whole * P) + c.last_remain
  BY TotalType DEF Total
<1>2. CASE c.stage = "head"
  BY <1>1, <1>2 DEF OnPlan, ChunkLen
<1>3. CASE c.stage = "page"
  <2>1. c.i < c.nb_page /\ c.offset = c.remain_in_page + (c.i * P) /\ ChunkLen(c) = P
    BY <1>3 DEF OnPlan, ChunkLen
  <2>2. c.i + 1 <= whole /\ c.i + 1 \in Nat
    BY <1>0, <2>1 DEF WholePages
  <2> HIDE DEF P, whole
  <2>3. (c.i + 1) * P <= whole * P /\ (c.i + 1) * P = (c.i * P) + P /\ c.i * P \in Nat
    BY <1>0, <1>1, <2>2, Product
  <2> QED BY <1>1, <2>1, <2>3
<1>4. CASE c.stage = "tail"
  BY <1>1, <1>4 DEF OnPlan, ChunkLen
<1> QED BY <1>0, <1>2, <1>3, <1>4

(* The first chunk starts the plan; a plan without a chunk has no byte.    *)
LEMMA FirstOnPlan ==
  ASSUME NEW c \in CallType, c.offset = 0, c.i = 0
  PROVE  IF FirstStage(c) = "end" THEN Total(c) = 0
         ELSE OnPlan([c EXCEPT !.stage = FirstStage(c)])
<1> DEFINE P == EEP_PAGE_SIZE
           s == FirstStage(c)
           d == [c EXCEPT !.stage = s]
<1>1. /\ c.remain_in_page \in Nat /\ c.last_remain \in Nat /\ P \in Nat
      /\ c.nb_page \in Int
      /\ Total(c) = c.remain_in_page + (WholePages(c) * P) + c.last_remain
  BY TotalType DEF Total, CallType
<1>2. /\ s = "head" => c.remain_in_page > 0
      /\ s # "head" => c.remain_in_page = 0
      /\ s = "page" => 0 < c.nb_page
      /\ s \in {"tail", "end"} => WholePages(c) = 0
      /\ s = "end" => c.last_remain = 0
      /\ s \in {"head", "page", "tail", "end"}
  BY <1>1 DEF FirstStage, NextStage, WholePages
<1>3. 0 * P = 0
  BY <1>1
<1>4. /\ d.stage = s /\ d.offset = 0 /\ d.i = 0 /\ d.nb_page = c.nb_page
      /\ d.remain_in_page = c.remain_in_page /\ WholePages(d) = WholePages(c)
  BY DEF CallType, WholePages
<1> HIDE DEF P, s, d
<1>5. s = "end" => Total(c) = 0
  BY <1>1, <1>2, <1>3
<1>6. s # "end" => OnPlan(d)
  <2>1. s = "page" => d.i < d.nb_page /\ d.offset = d.remain_in_page + (d.i * P)
    BY <1>2, <1>3, <1>4
  <2>2. s = "tail" => d.offset = d.remain_in_page + (WholePages(d) * P)
    BY <1>2, <1>3, <1>4
  <2> QED BY <1>4, <2>1, <2>2 DEF OnPlan, P
<1> QED BY <1>5, <1>6 DEF s, d

(* The chunk after a chunk starts where that one ended, and after the last *)
(* one all bytes of the plan are sent.                                     *)
LEMMA AdvanceOnPlan ==
  ASSUME NEW c \in CallType, OnPlan(c), NEW s,
         s = IF c.stage = "tail" THEN "end" ELSE NextStage(Advance(c))
  PROVE  IF s = "end" THEN c.offset + ChunkLen(c) = Total(c)
         ELSE OnPlan([Advance(c) EXCEPT !.stage = s])
<1> DEFINE P == EEP_PAGE_SIZE
           whole == WholePages(c)
           n == ChunkLen(c)
           d == [Advance(c) EXCEPT !.stage = s]
           next == IF c.stage = "page" THEN c.i + 1 ELSE c.i
<1>0. /\ c.i \in Nat /\ c.nb_page \in Int /\ c.stage \in {"head", "page", "tail"}
      /\ c.offset \in Nat
  BY DEF CallType, Stage
<1>1. /\ whole \in Nat /\ whole * P \in Nat /\ c.remain_in_page \in Nat
      /\ c.last_remain \in Nat /\ P \in Nat
      /\ Total(c) = c.remain_in_page + (whole * P) + c.last_remain
  BY TotalType DEF Total
<1>2. /\ Advance(c).i = next /\ Advance(c).nb_page = c.nb_page
      /\ Advance(c).last_remain = c.last_remain
  BY DEF Advance, CallType
<1>3. /\ d.stage = s /\ d.offset = c.offset + n /\ d.i = next
      /\ d.nb_page = c.nb_page /\ d.remain_in_page = c.remain_in_page
      /\ WholePages(d) = whole
  BY DEF Advance, CallType, WholePages
<1>4. c.stage # "tail" =>
        /\ s = "page" => next < c.nb_page
        /\ s \in {"tail", "end"} => ~(next < c.nb_page)
        /\ s = "end" => c.last_remain = 0
        /\ s \in {"page", "tail", "end"}
  BY <1>0, <1>1, <1>2 DEF NextStage
<1>5. c.stage # "tail" =>
        /\ c.offset + n = c.remain_in_page + (next * P)
        /\ ~(next < c.nb_page) => next = whole
        /\ next \in Nat
  <2>1. CASE c.stage = "head"
    <3>1. c.offset = 0 /\ c.i = 0 /\ n = c.remain_in_page /\ next = 0
      BY <2>1 DEF OnPlan, ChunkLen
    <3>2. ~(0 < c.nb_page) => whole = 0
      BY <1>0 DEF WholePages
    <3>3. 0 * P = 0
      BY <1>1
    <3> HIDE DEF P, whole, n, next
    <3> QED BY <1>1, <3>1, <3>2, <3>3
  <2>2. CASE c.stage = "page"
    <3>1. /\ c.i < c.nb_page /\ c.offset = c.remain_in_page + (c.i * P)
          /\ n = P /\ next = c.i + 1
      BY <2>2 DEF OnPlan, ChunkLen
    <3>2. ~(c.i + 1 < c.nb_page) => whole = c.i + 1
      BY <1>0, <3>1 DEF WholePages
    <3>3. (c.i + 1) * P = (c.i * P) + P /\ c.i * P \in Nat
      BY <1>0, <1>1, Product
    <3> HIDE DEF P, whole, n, next
    <3> QED BY <1>0, <1>1, <3>1, <3>2, <3>3
  <2> QED BY <1>0, <2>1, <2>2
<1>6. c.stage = "tail" => s = "end" /\ c.offset + n = Total(c)
  <2> SUFFICES ASSUME c.stage = "tail" PROVE s = "end" /\ c.offset + n = Total(c)
    OBVIOUS
  <2>1. n = c.last_remain /\ c.offset = c.remain_in_page + (whole * P)
    BY DEF OnPlan, ChunkLen
  <2> QED BY <1>1, <2>1
<1> HIDE DEF P, whole, n, d, next
<1>7. ASSUME s = "end" PROVE c.offset + n = Total(c)
  BY <1>1, <1>4, <1>5, <1>6, <1>7
<1>8. ASSUME s # "end" PROVE OnPlan(d)
  <2>1. c.stage # "tail" /\ s \in {"page", "tail"}
    BY <1>4, <1>6, <1>8
  <2>2. s = "page" => d.i < d.nb_page /\ d.offset = d.remain_in_page + (d.i * P)
    BY <1>3, <1>4, <1>5, <2>1
  <2>3. s = "tail" => d.offset = d.remain_in_page + (WholePages(d) * P)
    BY <1>3, <1>4, <1>5, <2>1
  <2> QED BY <1>3, <2>1, <2>2, <2>3 DEF OnPlan, P
<1> QED BY <1>7, <1>8 DEF d, n

(* What the plan adds up to: the write, when it reaches the end of its     *)
(* first page; otherwise a page more, or, where size_t is no wider than    *)
(* int, more than the chip holds.                                          *)
LEMMA PlanTotal ==
  ASSUME NEW c \in CallType, PlanKept(c)
  PROVE  /\ c.count >= c.remain_in_page => Total(c) = c.count
         /\ c.count < c.remain_in_page =>
              /\ WrappedPages < 1 => Total(c) = c.count + EEP_PAGE_SIZE
              /\ WrappedPages >= 1 => Total(c) > EEP_SIZE
         /\ c.count < c.remain_in_page => c.start + c.count < EEP_SIZE
         /\ c.count <= EEP_SIZE
<1> DEFINE P == EEP_PAGE_SIZE
           S == EEP_SIZE
           r == c.remain_in_page
           whole == WholePages(c)
<1>0. /\ c.count \in Nat /\ c.start \in Nat /\ c.start < S /\ c.start + c.count <= S
      /\ r \in 0 .. P - 1 /\ P \in Nat \ {0} /\ S \in Nat \ {0} /\ S % P = 0
      /\ Total(c) = r + (whole * P) + c.last_remain
      /\ c.nb_page = NbPage(c.count, r) /\ c.last_remain = LastRemain(c.count, r)
      /\ r = RemainInPage(c.start) \/ r = 0
      /\ c.nb_page \in Int
  BY GeometryAssumption DEF PlanKept, CallType, PartOfPage, Total
<1>1. whole \in Nat /\ whole * P \in Nat /\ c.last_remain \in Nat
  BY TotalType
<1>2. whole = IF NbPage(c.count, r) > 0 THEN NbPage(c.count, r) ELSE 0
  BY <1>0 DEF WholePages
<1>3. c.count <= S
  BY <1>0
<1> HIDE DEF P, S, r, whole
<1>4. ASSUME c.count >= r PROVE Total(c) = c.count
  <2>1. r \in Nat /\ r <= c.count
    BY <1>0, <1>4
  <2>2. r + (whole * P) + LastRemain(c.count, r) = c.count
    BY <1>0, <1>2, <1>3, <2>1, TotalFits DEF P, S
  <2> QED BY <1>0, <2>2
<1>5. ASSUME c.count < r
      PROVE  /\ WrappedPages < 1 => Total(c) = c.count + P
             /\ WrappedPages >= 1 => Total(c) > S
             /\ c.start + c.count < S
  <2>1. NbPage(c.count, r) = WrappedPages /\ r + c.last_remain = c.count + P
    BY <1>0, <1>5, TotalWrapped DEF P
  <2>2. WrappedPages \in Int
    BY <1>0, <2>1
  <2>3. Total(c) = (c.count + P) + (whole * P)
    BY <1>0, <1>1, <2>1
  <2>4. ASSUME WrappedPages < 1 PROVE Total(c) = c.count + P
    <3>1. whole = 0
      BY <1>2, <2>1, <2>2, <2>4
    <3>2. 0 * P = 0
      BY <1>0
    <3> QED BY <1>0, <2>3, <3>1, <3>2
  <2>5. ASSUME WrappedPages >= 1 PROVE Total(c) > S
    <3>1. whole = WrappedPages
      BY <1>2, <2>1, <2>2, <2>5
    <3>2. whole * P >= S
      BY <2>2, <2>5, <3>1, WidthAssumption DEF P, S
    <3> QED BY <1>0, <1>1, <2>3, <3>2
  <2>6. c.start + c.count < S
    <3> DEFINE a == c.start + r
               k == a \div P
               m == S \div P
    <3>0. r \in Nat /\ a \in Nat /\ a < S + P
      BY <1>0
    <3>1. a % P = 0
      <4>1. (c.start + RemainInPage(c.start)) % EEP_PAGE_SIZE = 0
        BY <1>0, PageBoundary
      <4>2. r # 0
        BY <1>0, <1>5
      <4> QED BY <1>0, <4>1, <4>2 DEF P
    <3> HIDE DEF a
    <3>2. a = P * k /\ k \in Int /\ S = P * m /\ m \in Int
      <4>1. a = (P * k) + 0 /\ k \in Int
        BY <1>0, <3>0, <3>1, DivMod
      <4>2. S = (P * m) + 0 /\ m \in Int
        BY <1>0, DivMod
      <4> HIDE DEF k, m
      <4> QED BY <1>0, <4>1, <4>2
    <3> HIDE DEF k, m
    <3>3. k <= m
      <4> SUFFICES ASSUME k >= m + 1 PROVE FALSE
        BY <3>2
      <4>1. P * k >= P * (m + 1)
        BY <1>0, <3>2
      <4>2. P * (m + 1) = S + P
        BY <1>0, <3>2
      <4> QED BY <3>0, <1>0, <3>2, <4>1, <4>2
    <3>4. a <= S
      BY <1>0, <3>2, <3>3
    <3> QED BY <1>0, <1>5, <3>0, <3>4 DEF a
  <2> QED BY <2>4, <2>5, <2>6
<1> QED BY <1>3, <1>4, <1>5, <1>0 DEF P, S, r

-----------------------------------------------------------------------------
(* The bytes on the chip.                                                  *)

(* An address of the chip is itself modulo its size.                       *)
LEMMA OnChip == ASSUME NEW a \in Nat, a < EEP_SIZE PROVE a \in Addr /\ a % EEP_SIZE = a
<1>1. EEP_SIZE \in Nat \ {0} /\ a \in 0 .. EEP_SIZE - 1
  BY GeometryAssumption
<1>2. ((EEP_SIZE * 0) + a) % EEP_SIZE = a
  BY <1>1, ModUnique
<1>3. (EEP_SIZE * 0) + a = a
  BY <1>1
<1> QED BY <1>1, <1>2, <1>3 DEF Addr

(* A chunk that stays in its page is on the chip from its address on, up   *)
(* to the end of the chip.                                                 *)
Placed(chip, addr, b, off, n) ==
  \A k \in 0 .. n - 1 : addr + k < EEP_SIZE => chip[addr + k] = b[off + k]

(* It is what PageWrite leaves, of a chunk that stays in its page.         *)
LEMMA ChunkPlaced ==
  ASSUME NEW addr \in Nat, NEW b, NEW off \in Nat, NEW n \in Nat,
         (addr % EEP_PAGE_SIZE) + n <= EEP_PAGE_SIZE
  PROVE  Placed(PageWrite(addr, b, off, n), addr, b, off, n)
<1> SUFFICES ASSUME NEW k \in 0 .. n - 1, addr + k < EEP_SIZE
             PROVE  PageWrite(addr, b, off, n)[addr + k] = b[off + k]
  BY DEF Placed
<1> DEFINE P == EEP_PAGE_SIZE
           u == addr \div P
           s == addr % P
<1>0. P \in Nat \ {0} /\ EEP_SIZE \in Nat \ {0} /\ s + n <= P
  BY GeometryAssumption
<1>1. u \in Int /\ s \in 0 .. P - 1 /\ addr = (P * u) + s
  BY <1>0, DivMod
<1> HIDE DEF P, u, s
<1>2. addr < EEP_SIZE /\ addr + k \in Nat /\ k \in Int /\ k < n
  BY <1>0
<1>3. addr % EEP_SIZE = addr /\ addr + k \in Addr
  BY <1>2, OnChip
<1>4. s + k \in 0 .. P - 1 /\ k \in 0 .. P - 1
  BY <1>0, <1>1
<1>5. (addr + k) \div P = u /\ addr \div P = u
  <2>1. addr + k = (P * u) + (s + k)
    BY <1>0, <1>1, <1>2
  <2>2. ((P * u) + (s + k)) \div P = u /\ ((P * u) + s) \div P = u
    BY <1>0, <1>1, <1>4, DivUnique
  <2> QED BY <1>1, <2>1, <2>2
<1>6. ((addr + k) - addr) % P = k
  <2>1. ((P * 0) + k) % P = k
    BY <1>0, <1>4, ModUnique
  <2>2. (addr + k) - addr = (P * 0) + k
    BY <1>0, <1>2
  <2> QED BY <2>1, <2>2
<1> QED BY <1>2, <1>3, <1>5, <1>6 DEF PageWrite, P

(* It leaves the bytes before it alone, unless it goes once round the chip *)
(* and comes to them from below.                                           *)
LEMMA BytesBefore ==
  ASSUME NEW addr \in Nat, NEW b, NEW off \in Nat, NEW n \in Nat,
         (addr % EEP_PAGE_SIZE) + n <= EEP_PAGE_SIZE,
         NEW a \in Addr, a < addr, addr + n <= a + EEP_SIZE
  PROVE  PageWrite(addr, b, off, n)[a] = eeprom[a]
<1> SUFFICES ASSUME PageWrite(addr, b, off, n)[a] # eeprom[a] PROVE FALSE
  OBVIOUS
<1>1. ChangedByChunk(addr, b, off, n, a)
  BY DEF ChangedByChunk
<1>2. PICK k : k \in 0 .. n - 1 /\ a = (addr + k) % EEP_SIZE
  BY <1>1, PageWriteWithin
<1> DEFINE S == EEP_SIZE
           x == addr + k
           q == x \div S
<1>3. /\ S \in Nat \ {0} /\ a \in Nat /\ k \in Nat /\ x \in Int
      /\ a < x /\ x < a + S
  BY <1>2, GeometryAssumption DEF Addr
<1>4. q \in Int /\ x = (S * q) + (x % S)
  BY <1>3, DivMod
<1>5. x % S = a
  BY <1>2
<1> HIDE DEF S, x, q
<1>6. S * q > 0 /\ S * q < S
  BY <1>3, <1>4, <1>5
<1>7. CASE q <= 0
  <2>1. S * q <= 0
    BY <1>3, <1>4, <1>7
  <2> QED BY <1>3, <1>4, <1>6, <2>1
<1>8. CASE q >= 1
  <2>1. S * q >= S
    BY <1>3, <1>4, <1>8
  <2> QED BY <1>3, <1>4, <1>6, <2>1
<1> QED BY <1>4, <1>7, <1>8

-----------------------------------------------------------------------------
(* Where the cursor is, whatever the other processes do to it: an open or  *)
(* a release can only set it to 0, and only the holder of the mutex moves  *)
(* it forward.  cursor is the cursor of the state l and c belong to.       *)

Ended(l, c) == l = "end" /\ c.op = "write"

(* Nothing of a call is sent yet.                                          *)
Unsent(c) == c.offset = 0 /\ c.i = 0 /\ c.retval = 0

Within(l, c, cursor) ==
  /\ l \in {"read_lock", "write_lock", "test", "clip", "write_copy", "write_address",
            "write_plan"} => Unsent(c)
  /\ l \in {"test", "clip", "read_address", "write_copy", "write_address"} =>
       cursor < EEP_SIZE
  /\ l \in {"read_address", "write_copy", "write_address"} => cursor + c.count <= EEP_SIZE
  /\ l \in {"read_message", "read", "read_copy", "read_load", "read_advance"} =>
       c.start \in Nat /\ c.start + c.count <= EEP_SIZE /\ cursor <= c.start
  /\ l = "read_advance" => c.loaded <= c.start
  /\ l = "write_plan" =>
       /\ c.start \in Nat /\ c.start < EEP_SIZE /\ c.start + c.count <= EEP_SIZE
       /\ cursor = c.start \/ cursor = 0
  /\ l \in {"send", "sent", "write_advance"} =>
       /\ PlanKept(c) /\ OnPlan(c) /\ c.retval = c.offset
       /\ cursor <= c.start + c.offset
  /\ l = "send" => c.offset <= EEP_SIZE
  /\ l \in {"sent", "write_advance"} => c.offset + ChunkLen(c) <= EEP_SIZE
  /\ l = "write_advance" => c.loaded <= c.start + c.offset
  /\ Ended(l, c) =>
       /\ c.failure = "none" => c.retval # EFAULT
       /\ c.retval \notin {EINVAL, EFAULT} =>
            /\ PlanKept(c)
            /\ c.failure = "none" =>
                 c.offset = Total(c) /\ c.retval = c.offset /\ c.offset <= EEP_SIZE

WithinInv == \A p \in Procs : Within(pc[p], call[p], current_pointer)

(* A reset of the cursor keeps all of this.                                *)
LEMMA WithinReset ==
  ASSUME NEW l, NEW c \in CallType, NEW cursor \in Nat, Within(l, c, cursor)
  PROVE  Within(l, c, 0)
<1>1. c.count \in Nat /\ c.offset \in Nat
  BY DEF CallType
<1>2. /\ 0 < EEP_SIZE
      /\ l \in {"read_address", "write_copy", "write_address"} => 0 + c.count <= EEP_SIZE
  BY <1>1, GeometryAssumption DEF Within
<1>3. l \in {"send", "sent", "write_advance"} => 0 <= c.start + c.offset
  BY <1>1 DEF Within, PlanKept
<1>4. l \in {"read_message", "read", "read_copy", "read_load", "read_advance"} =>
        0 <= c.start
  BY DEF Within
<1> QED BY <1>2, <1>3, <1>4 DEF Within

(* The step of p that a process sees: its own, or one that leaves it in    *)
(* its place.                                                              *)
LEMMA WithinStep ==
  ASSUME WithinInv, TypeOK, MutexDiscipline, NEW p \in Procs,
         NEW l, NEW c, pc' = [pc EXCEPT ![p] = l], call' = [call EXCEPT ![p] = c],
         Within(l, c, current_pointer'),
         \/ current_pointer' = current_pointer
         \/ current_pointer' = 0
         \/ pc[p] \in Critical
  PROVE  WithinInv'
<1> SUFFICES ASSUME NEW q \in Procs
             PROVE  Within(pc'[q], call'[q], current_pointer')
  BY DEF WithinInv
<1>0. /\ pc \in [Procs -> Places] /\ call \in [Procs -> CallType]
      /\ current_pointer \in Nat
  BY DEF TypeOK
<1>1. CASE q = p
  BY <1>0, <1>1
<1>2. CASE q # p
  <2>0. pc'[q] = pc[q] /\ call'[q] = call[q] /\ call[q] \in CallType
    BY <1>0, <1>2
  <2>1. Within(pc[q], call[q], current_pointer)
    BY DEF WithinInv
  <2>2. CASE current_pointer' = current_pointer
    BY <2>0, <2>1, <2>2
  <2>3. CASE current_pointer' = 0
    BY <1>0, <2>0, <2>1, <2>3, WithinReset
  <2>4. CASE pc[p] \in Critical
    <3>1. pc[q] \notin Critical
      BY <1>2, <2>4, InputAssumption DEF MutexDiscipline
    <3>2. pc[q] \notin {"test", "clip", "read_address", "read_message", "read",
                        "read_copy", "read_load", "read_advance", "write_copy",
                        "write_address", "write_plan", "send", "sent", "write_advance",
                        "end"}
      BY <3>1 DEF Critical
    <3> QED BY <2>0, <2>1, <3>2 DEF Within, Ended
  <2> QED BY <2>2, <2>3, <2>4
<1> QED BY <1>1, <1>2

(* Of most places the invariant says nothing.                              *)
Free == {"closed", "open_alloc", "open_test", "release_free", "release_clear",
         "release_reset", "idle"}

(* Nothing is claimed of a process between two calls.                      *)
LEMMA WithinFree ==
  ASSUME NEW l \in Free, NEW c, NEW cursor PROVE Within(l, c, cursor)
BY DEF Free, Within, Ended

(* Nor of the end of a read.                                               *)
LEMMA WithinReadEnd ==
  ASSUME NEW c, c.op = "read", NEW cursor PROVE Within("end", c, cursor)
BY DEF Within, Ended

(* A crash changes nothing.                                                *)
LEMMA WithinCrash == ASSUME WithinInv, NEW f, Crash(f) PROVE WithinInv'
BY DEF WithinInv, Crash, device

(* The copy of the caller's bytes moves nothing.                           *)
LEMMA WithinCopy ==
  ASSUME WithinInv, TypeOK, MutexDiscipline, NEW p \in Procs, WriteCopy(p)
  PROVE  WithinInv'
<1> DEFINE b == call[p]
<1>0. call \in [Procs -> CallType] /\ b \in CallType /\ pc[p] = "write_copy"
  BY DEF TypeOK, WriteCopy
<1>1. Within("write_copy", b, current_pointer)
  BY <1>0 DEF WithinInv
<1>2. CASE \E f : Crash(f)
  BY <1>2, WithinCrash
<1>3. CASE Finish(p, EFAULT, "copy") /\ UNCHANGED current_pointer
  <2> DEFINE e == [b EXCEPT !.retval = EFAULT, !.failure = "copy"]
  <2>1. e.retval = EFAULT /\ e.failure = "copy"
    BY <1>0 DEF CallType
  <2>2. call' = [call EXCEPT ![p] = e] /\ pc' = [pc EXCEPT ![p] = "end"]
    BY <1>0, <1>3 DEF Finish, Goto
  <2> HIDE DEF e
  <2>3. Within("end", e, current_pointer)
    BY <2>1 DEF Within
  <2> QED BY <1>3, <2>2, <2>3, WithinStep
<1>4. CASE Goto(p, "write_address") /\ UNCHANGED call /\ UNCHANGED current_pointer
  <2>1. call' = [call EXCEPT ![p] = b] /\ pc' = [pc EXCEPT ![p] = "write_address"]
    BY <1>0, <1>4 DEF Goto
  <2> HIDE DEF b
  <2>2. Within("write_address", b, current_pointer)
    BY <1>1 DEF Within, Ended
  <2> QED BY <1>4, <2>1, <2>2, WithinStep
<1> QED BY <1>2, <1>3, <1>4 DEF WriteCopy, device

(* From a cursor on the chip, the subtraction does not wrap.               *)
LEMMA LeftOnChip ==
  ASSUME NEW pointer \in Nat, pointer < EEP_SIZE
  PROVE  Left(pointer) = EEP_SIZE - pointer
<1> DEFINE x == EEP_SIZE - pointer
<1>1. x \in 0 .. SIZE_T - 1 /\ SIZE_T \in Nat \ {0}
  BY GeometryAssumption, WidthAssumption
<1>2. (SIZE_T * 0) + x = x
  BY <1>1
<1> HIDE DEF x
<1>3. x % SIZE_T = x
  BY <1>1, <1>2, ModUnique
<1> QED BY <1>3 DEF Left, x

(* What the test lets through, and what the cut leaves, ends on the chip.  *)
LEMMA WithinClip ==
  ASSUME WithinInv, TypeOK, MutexDiscipline, FootprintInv, NEW p \in Procs,
         TestCount(p) \/ ClipCount(p)
  PROVE  WithinInv'
<1> DEFINE b == call[p]
<1>0. /\ call \in [Procs -> CallType] /\ b \in CallType /\ b.count \in Nat
      /\ current_pointer \in Nat /\ EEP_SIZE \in Nat /\ pc[p] \in {"test", "clip"}
      /\ UNCHANGED current_pointer
  BY GeometryAssumption DEF TypeOK, CallType, TestCount, ClipCount, device
<1>1. Unsent(b) /\ current_pointer < EEP_SIZE
  BY <1>0 DEF WithinInv, Within
<1>2. AfterClip(b) \in {"read_address", "write_copy"}
  BY DEF AfterClip
<1>3. ASSUME NEW c, Unsent(c), c.count \in Nat, current_pointer + c.count <= EEP_SIZE,
             call' = [call EXCEPT ![p] = c], pc' = [pc EXCEPT ![p] = AfterClip(b)]
      PROVE  WithinInv'
  <2> HIDE DEF b
  <2>1. Within(AfterClip(b), c, current_pointer)
    BY <1>1, <1>2, <1>3 DEF Within, Ended
  <2> QED BY <1>0, <1>3, <2>1, WithinStep
<1>4. CASE TestCount(p)
  <2>1. call' = [call EXCEPT ![p] = b]
    BY <1>0, <1>4 DEF TestCount
  <2>2. CASE TooLong(b)
    <3>1. pc' = [pc EXCEPT ![p] = "clip"]
      BY <1>4, <2>2 DEF TestCount, Goto
    <3> HIDE DEF b
    <3>2. Within("clip", b, current_pointer)
      BY <1>1 DEF Within, Ended
    <3> QED BY <1>0, <2>1, <3>1, <3>2, WithinStep
  <2>3. CASE ~TooLong(b)
    <3>1. pc' = [pc EXCEPT ![p] = AfterClip(b)]
      BY <1>4, <2>3 DEF TestCount, Goto
    <3>2. current_pointer + b.count <= EEP_SIZE
      BY <1>0, <2>3 DEF TooLong
    <3> QED BY <1>0, <1>1, <1>3, <2>1, <3>1, <3>2
  <2> QED BY <2>2, <2>3
<1>5. CASE ClipCount(p)
  <2> DEFINE left == Left(current_pointer)
             n == IF left > EEP_SIZE THEN EEP_SIZE ELSE left
             c == [b EXCEPT !.count = n]
  <2>1. left = EEP_SIZE - current_pointer
    BY <1>0, <1>1, LeftOnChip
  <2>2. call' = [call EXCEPT ![p] = c] /\ pc' = [pc EXCEPT ![p] = AfterClip(b)]
    BY <1>0, <1>5 DEF ClipCount, Goto
  <2> HIDE DEF left
  <2>3. n \in Nat /\ current_pointer + n <= EEP_SIZE
    BY <1>0, <1>1, <2>1
  <2> HIDE DEF n
  <2>4. c.count = n /\ Unsent(c)
    BY <1>0, <1>1 DEF CallType, Unsent
  <2> HIDE DEF b, c
  <2> QED BY <1>3, <2>2, <2>3, <2>4
<1> QED BY <1>4, <1>5

(* The address of a write is where the cursor is.                          *)
LEMMA WithinAddress ==
  ASSUME WithinInv, TypeOK, MutexDiscipline, NEW p \in Procs, WriteAddress(p)
  PROVE  WithinInv'
<1> DEFINE b == call[p]
           c == [b EXCEPT !.reg_addr = current_pointer, !.start = current_pointer,
                          !.before = eeprom]
<1>0. /\ call \in [Procs -> CallType] /\ b \in CallType
      /\ current_pointer \in Nat /\ pc[p] = "write_address" /\ UNCHANGED current_pointer
  BY DEF TypeOK, WriteAddress, device
<1>1. Unsent(b) /\ current_pointer < EEP_SIZE /\ current_pointer + b.count <= EEP_SIZE
  BY <1>0 DEF WithinInv, Within
<1>2. c.start = current_pointer /\ c.count = b.count /\ Unsent(c)
  BY <1>0, <1>1 DEF CallType, Unsent
<1>3. call' = [call EXCEPT ![p] = c] /\ pc' = [pc EXCEPT ![p] = "write_plan"]
  BY <1>0 DEF WriteAddress, Goto
<1> HIDE DEF b, c
<1>4. Within("write_plan", c, current_pointer)
  BY <1>0, <1>1, <1>2 DEF Within, Ended
<1> QED BY <1>0, <1>3, <1>4, WithinStep

(* The first page of a cursor that has been reset has nothing left over.   *)
LEMMA RemainAtStart == RemainInPage(0) = 0
<1>1. EEP_PAGE_SIZE \in Nat \ {0} /\ 0 \in 0 .. EEP_PAGE_SIZE - 1
  BY GeometryAssumption
<1>2. ((EEP_PAGE_SIZE * 0) + 0) % EEP_PAGE_SIZE = 0
        /\ ((EEP_PAGE_SIZE * 1) + 0) % EEP_PAGE_SIZE = 0
  BY <1>1, ModUnique
<1>3. (EEP_PAGE_SIZE * 0) + 0 = 0 /\ (EEP_PAGE_SIZE * 1) + 0 = EEP_PAGE_SIZE
  BY <1>1
<1>4. 0 % EEP_PAGE_SIZE = 0 /\ EEP_PAGE_SIZE % EEP_PAGE_SIZE = 0
  BY <1>2, <1>3
<1> QED BY <1>1, <1>4 DEF RemainInPage

(* A plan is made for what is left of the count, and starts with its first *)
(* chunk.                                                                  *)
LEMMA WithinPlan ==
  ASSUME WithinInv, TypeOK, MutexDiscipline, FootprintInv, NEW p \in Procs, WritePlan(p)
  PROVE  WithinInv'
<1> DEFINE b == call[p]
           c == Plan(b, current_pointer)
           s == FirstStage(c)
           d == IF s = "end" THEN c ELSE [c EXCEPT !.stage = s]
<1>0. /\ call \in [Procs -> CallType] /\ b \in CallType /\ c \in CallType
      /\ current_pointer \in Nat /\ pc[p] = "write_plan"
      /\ b.failure = "none" /\ b.op = "write"
  BY PlanType DEF TypeOK, WritePlan, FootprintInv, Footprint, Fresh
<1>1. /\ Unsent(b) /\ b.start \in Nat /\ b.start < EEP_SIZE
      /\ b.start + b.count <= EEP_SIZE
      /\ current_pointer = b.start \/ current_pointer = 0
  BY <1>0 DEF WithinInv, Within
<1>2. Continue(p, c, s) /\ UNCHANGED current_pointer
  BY DEF WritePlan, device
<1>3. /\ Unsent(c) /\ c.failure = "none" /\ c.op = "write" /\ c.start = b.start
      /\ c.count = b.count /\ c.remain_in_page = RemainInPage(current_pointer)
      /\ c.nb_page = NbPage(c.count, c.remain_in_page)
      /\ c.last_remain = LastRemain(c.count, c.remain_in_page)
  BY <1>0, <1>1 DEF Plan, CallType, Unsent
<1>4. PlanKept(c)
  BY <1>0, <1>1, <1>3, RemainAtStart DEF PlanKept
<1>5. IF s = "end" THEN Total(c) = 0 ELSE OnPlan([c EXCEPT !.stage = s])
  BY <1>0, <1>3, FirstOnPlan DEF Unsent
<1>6. s \in Stage \union {"end"}
  BY DEF FirstStage, NextStage, Stage
<1> HIDE DEF b, c, s
<1>7. /\ d.offset = 0 /\ d.retval = 0 /\ d.failure = "none" /\ d.op = "write"
      /\ d.start = b.start /\ PlanKept(d)
      /\ IF s = "end" THEN Total(d) = 0 ELSE OnPlan(d)
  BY <1>0, <1>3, <1>4, <1>5, <1>6 DEF PlanKept, CallType, Unsent
<1>8. /\ call' = [call EXCEPT ![p] = d]
      /\ pc' = [pc EXCEPT ![p] = IF s = "end" THEN "end" ELSE "send"]
  BY <1>2 DEF Continue, Goto
<1> HIDE DEF d
<1>9. CASE s = "end"
  <2>1. Within("end", d, current_pointer)
    BY <1>7, <1>9, GeometryAssumption DEF Within, EFAULT
  <2> QED BY <1>2, <1>8, <1>9, <2>1, WithinStep
<1>10. CASE s # "end"
  <2>1. current_pointer <= d.start + d.offset
    BY <1>0, <1>1, <1>7
  <2>2. Within("send", d, current_pointer)
    BY <1>7, <1>10, <2>1, GeometryAssumption DEF Within, Ended
  <2> QED BY <1>2, <1>8, <1>10, <2>2, WithinStep
<1> QED BY <1>9, <1>10

(* The load of "current_pointer +=" finds the cursor or less.              *)
LEMMA WithinLoad ==
  ASSUME WithinInv, TypeOK, MutexDiscipline, NEW p \in Procs, LoadCursor(p)
  PROVE  WithinInv'
<1> DEFINE b == call[p]
           c == [b EXCEPT !.loaded = current_pointer]
<1>0. /\ call \in [Procs -> CallType] /\ b \in CallType /\ current_pointer \in Nat
      /\ UNCHANGED current_pointer /\ call' = [call EXCEPT ![p] = c]
  BY DEF TypeOK, LoadCursor, device
<1>1. /\ c.loaded = current_pointer /\ c.retval = b.retval /\ c.offset = b.offset
      /\ c.start = b.start /\ c.count = b.count
      /\ PlanKept(b) => PlanKept(c)
      /\ OnPlan(b) => OnPlan(c)
      /\ ChunkLen(c) = ChunkLen(b)
  BY <1>0 DEF CallType, PlanKept, OnPlan, WholePages, ChunkLen
<1>2. Within(pc[p], b, current_pointer)
  BY DEF WithinInv
<1> HIDE DEF b, c
<1>3. CASE pc[p] = "read_load"
  <2>1. pc' = [pc EXCEPT ![p] = "read_advance"]
    BY <1>3 DEF LoadCursor, Goto
  <2>2. Within("read_advance", c, current_pointer)
    BY <1>1, <1>2, <1>3 DEF Within, Ended
  <2> QED BY <1>0, <2>1, <2>2, WithinStep
<1>4. CASE pc[p] = "sent"
  <2>1. pc' = [pc EXCEPT ![p] = "write_advance"]
    BY <1>4 DEF LoadCursor, Goto
  <2>2. Within("write_advance", c, current_pointer)
    BY <1>1, <1>2, <1>4 DEF Within, Ended
  <2> QED BY <1>0, <2>1, <2>2, WithinStep
<1> QED BY <1>3, <1>4 DEF LoadCursor

(* A chunk that faults on nothing is inside the block, so the bytes sent   *)
(* with it are too.                                                        *)
LEMMA WithinSend ==
  ASSUME WithinInv, TypeOK, MutexDiscipline, NEW p \in Procs, SendChunk(p)
  PROVE  WithinInv'
<1> DEFINE c == call[p]
           n == ChunkLen(c)
           f == AccessFault(data, c.offset, n)
<1>0. /\ call \in [Procs -> CallType] /\ c \in CallType /\ n \in Nat
      /\ current_pointer \in Nat /\ pc[p] = "send" /\ c.offset \in Nat
  BY ChunkType, GeometryAssumption DEF TypeOK, SendChunk, CallType
<1>1. /\ PlanKept(c) /\ OnPlan(c) /\ c.retval = c.offset
      /\ current_pointer <= c.start + c.offset /\ c.offset <= EEP_SIZE
  BY <1>0 DEF WithinInv, Within
<1>2. CASE f # "none"
  <2>1. Crash(f)
    BY <1>2 DEF SendChunk
  <2> QED BY <2>1, WithinCrash
<1>3. CASE f = "none"
  <2>1. c.offset + n <= EEP_SIZE
    <3>1. CASE n = 0
      BY <1>0, <1>1, <3>1
    <3>2. CASE n > 0
      BY <1>0, <1>3, <3>2, AccessInBounds
    <3> QED BY <1>0, <3>1, <3>2
  <2>2. UNCHANGED current_pointer
    BY <1>3 DEF SendChunk, device
  <2>3. CASE Finish(p, -1, "bus")
    <3> DEFINE d == [c EXCEPT !.retval = -1, !.failure = "bus"]
    <3>1. d.failure = "bus" /\ PlanKept(d)
      BY <1>0, <1>1 DEF CallType, PlanKept
    <3>2. call' = [call EXCEPT ![p] = d] /\ pc' = [pc EXCEPT ![p] = "end"]
      BY <1>0, <2>3 DEF Finish, Goto
    <3> HIDE DEF d
    <3>3. Within("end", d, current_pointer)
      BY <3>1 DEF Within
    <3> QED BY <2>2, <3>2, <3>3, WithinStep
  <2>4. CASE Goto(p, "sent") /\ UNCHANGED call
    <3>1. call' = [call EXCEPT ![p] = c] /\ pc' = [pc EXCEPT ![p] = "sent"]
      BY <1>0, <2>4 DEF Goto
    <3> HIDE DEF c, n
    <3>2. Within("sent", c, current_pointer)
      BY <1>1, <2>1 DEF Within, Ended, n
    <3> QED BY <2>2, <3>1, <3>2, WithinStep
  <2> QED BY <1>3, <2>3, <2>4 DEF SendChunk
<1> QED BY <1>2, <1>3

(* The cursor a chunk leaves is at most what has been sent.                *)
LEMMA WithinAdvance ==
  ASSUME WithinInv, TypeOK, MutexDiscipline, NEW p \in Procs, WriteAdvance(p)
  PROVE  WithinInv'
<1> DEFINE b == call[p]
           n == ChunkLen(b)
           c == Advance(b)
           s == IF b.stage = "tail" THEN "end" ELSE NextStage(c)
           d == IF s = "end" THEN c ELSE [c EXCEPT !.stage = s]
<1>0. /\ call \in [Procs -> CallType] /\ b \in CallType /\ n \in Nat /\ c \in CallType
      /\ pc[p] = "write_advance" /\ pc[p] \in Critical /\ b.offset \in Nat /\ b.loaded \in Nat
  BY ChunkType, AdvanceType, GeometryAssumption
     DEF TypeOK, WriteAdvance, CallType, Critical
<1>1. /\ PlanKept(b) /\ OnPlan(b) /\ b.loaded <= b.start + b.offset
      /\ b.offset + n <= EEP_SIZE
  BY <1>0 DEF WithinInv, Within
<1>2. /\ c.offset = b.offset + n /\ c.retval = b.offset + n /\ c.start = b.start
      /\ c.loaded = b.loaded /\ c.stage = b.stage /\ ChunkLen(c) = n
      /\ Total(c) = Total(b) /\ PlanKept(c)
  BY <1>0, <1>1 DEF Advance, CallType, PlanKept, Total, WholePages, ChunkLen
<1>3. /\ current_pointer' = b.loaded + n /\ Continue(p, c, s)
  BY <1>2 DEF WriteAdvance
<1>4. IF s = "end" THEN b.offset + n = Total(b) ELSE OnPlan([c EXCEPT !.stage = s])
  BY <1>0, <1>1, AdvanceOnPlan
<1>5. s \in Stage \union {"end"}
  BY DEF NextStage, Stage
<1> HIDE DEF b, n, c, s
<1>6. /\ d.offset = b.offset + n /\ d.retval = b.offset + n /\ d.start = b.start
      /\ PlanKept(d)
      /\ IF s = "end" THEN d.offset = Total(d) ELSE OnPlan(d)
  BY <1>0, <1>2, <1>4, <1>5 DEF CallType, PlanKept
<1>7. call' = [call EXCEPT ![p] = d]
  BY <1>3 DEF Continue
<1>8. pc' = [pc EXCEPT ![p] = IF s = "end" THEN "end" ELSE "send"]
  BY <1>3 DEF Continue, Goto
<1> HIDE DEF d
<1>9. CASE s = "end"
  <2>1. Within("end", d, current_pointer')
    BY <1>0, <1>1, <1>6, <1>9 DEF Within, EFAULT
  <2>2. pc' = [pc EXCEPT ![p] = "end"]
    BY <1>8, <1>9
  <2> QED BY <1>0, <1>7, <2>1, <2>2, WithinStep
<1>10. CASE s # "end"
  <2>0. current_pointer' <= d.start + d.offset
    <3>1. b.start \in Nat
      BY <1>1 DEF PlanKept
    <3> QED BY <1>0, <1>1, <1>3, <1>6, <3>1
  <2>1. Within("send", d, current_pointer')
    BY <1>1, <1>6, <1>10, <2>0 DEF Within, Ended
  <2>2. pc' = [pc EXCEPT ![p] = "send"]
    BY <1>8, <1>10
  <2> QED BY <1>0, <1>7, <2>1, <2>2, WithinStep
<1> QED BY <1>9, <1>10

(* What the two llseek branches come to: the driver rejects every offset.  *)
LEMMA SeekMovesNothing ==
  ASSUME NEW p \in Procs, Llseek(p) PROVE UNCHANGED <<current_pointer, f_pos>>
<1>1. PICK s \in Seeks :
        LET newpos == NewPos(p, s[1], s[2])
            bad == s[2] \notin {SEEK_SET, SEEK_CUR} \/ SeekRejected(newpos)
        IN  /\ current_pointer' = IF bad THEN current_pointer ELSE newpos
            /\ f_pos' = IF bad THEN f_pos ELSE [f_pos EXCEPT ![p] = newpos]
  BY DEF Llseek
<1>2. SeekRejected(NewPos(p, s[1], s[2]))
  BY GeometryAssumption DEF SeekRejected
<1> QED BY <1>1, <1>2

(* A read is clipped at the cursor, which only a reset moves until it is   *)
(* advanced by what was read.                                              *)
LEMMA WithinRead ==
  ASSUME WithinInv, TypeOK, MutexDiscipline, FootprintInv, NEW p \in Procs,
         \/ ReadLock(p) \/ ReadAddress(p) \/ ReadMessage(p)
         \/ ReadTransfer(p) \/ ReadCopy(p) \/ ReadAdvance(p)
  PROVE  WithinInv'
<1> DEFINE c == call[p]
<1>0. /\ call \in [Procs -> CallType] /\ pc \in [Procs -> Places] /\ c \in CallType
      /\ current_pointer \in Nat /\ c.count \in Nat /\ EEP_SIZE \in Nat
  BY GeometryAssumption DEF TypeOK, CallType
<1>1. c.op = "read"
  BY DEF ReadLock, ReadAddress, ReadMessage, ReadTransfer, ReadCopy, ReadAdvance,
         FootprintInv, Footprint, Reading
<1>2. CASE \E f : Crash(f)
  BY <1>2, WithinCrash
<1>3. ASSUME NEW r, NEW f, Finish(p, r, f), UNCHANGED current_pointer PROVE WithinInv'
  <2> DEFINE d == [c EXCEPT !.retval = r, !.failure = f]
  <2>1. d.op = "read"
    BY <1>0, <1>1 DEF CallType
  <2>2. call' = [call EXCEPT ![p] = d] /\ pc' = [pc EXCEPT ![p] = "end"]
    BY <1>0, <1>3 DEF Finish, Goto
  <2> HIDE DEF d
  <2> QED BY <1>3, <2>1, <2>2, WithinReadEnd, WithinStep
<1>4. CASE ReadLock(p)
  <2>1. UNCHANGED current_pointer /\ pc[p] = "read_lock"
    BY <1>4 DEF ReadLock, device
  <2>2. CASE Finish(p, 0, "none")
    BY <1>3, <2>1, <2>2
  <2>3. CASE ~Finish(p, 0, "none")
    <3>1. /\ call' = [call EXCEPT ![p] = c] /\ pc' = [pc EXCEPT ![p] = "test"]
          /\ ~(current_pointer >= EEP_SIZE)
      BY <1>0, <1>4, <2>3 DEF ReadLock, Goto
    <3>2. current_pointer < EEP_SIZE /\ Unsent(c)
      BY <1>0, <2>1, <3>1 DEF WithinInv, Within
    <3> HIDE DEF c
    <3>3. Within("test", c, current_pointer)
      BY <3>2 DEF Within, Ended
    <3> QED BY <2>1, <3>1, <3>3, WithinStep
  <2> QED BY <2>2, <2>3
<1>5. CASE ReadAddress(p)
  <2> DEFINE d == [c EXCEPT !.reg_addr = current_pointer, !.start = current_pointer]
  <2>1. /\ UNCHANGED current_pointer /\ pc[p] = "read_address"
        /\ call' = [call EXCEPT ![p] = d] /\ pc' = [pc EXCEPT ![p] = "read_message"]
    BY <1>0, <1>5 DEF ReadAddress, device, Goto
  <2>2. d.start = current_pointer /\ d.count = c.count
    BY <1>0 DEF CallType
  <2>3. current_pointer + c.count <= EEP_SIZE
    BY <2>1 DEF WithinInv, Within
  <2> HIDE DEF c, d
  <2>4. Within("read_message", d, current_pointer)
    BY <1>0, <2>2, <2>3 DEF Within, Ended
  <2> QED BY <2>1, <2>4, WithinStep
<1>6. CASE ReadMessage(p)
  <2> DEFINE d == [c EXCEPT !.msg_buf = data]
  <2>1. /\ UNCHANGED current_pointer /\ pc[p] = "read_message"
        /\ call' = [call EXCEPT ![p] = d] /\ pc' = [pc EXCEPT ![p] = "read"]
    BY <1>0, <1>6 DEF ReadMessage, device, Goto
  <2>2. d.start = c.start /\ d.count = c.count
    BY <1>0 DEF CallType
  <2>3. Within("read_message", c, current_pointer)
    BY <2>1 DEF WithinInv
  <2> HIDE DEF c, d
  <2>4. Within("read", d, current_pointer)
    BY <2>2, <2>3 DEF Within, Ended
  <2> QED BY <2>1, <2>2, <2>4, WithinStep
<1>7. CASE ReadTransfer(p) /\ ~\E f : Crash(f)
  <2>1. PICK failed :
          /\ call' = [call EXCEPT ![p] = [c EXCEPT !.failure = failed]]
          /\ pc' = [pc EXCEPT ![p] = "read_copy"] /\ pc[p] = "read"
          /\ UNCHANGED current_pointer
    BY <1>0, <1>7 DEF ReadTransfer, Goto, device
  <2> DEFINE d == [c EXCEPT !.failure = failed]
  <2>2. d.start = c.start /\ d.count = c.count /\ call' = [call EXCEPT ![p] = d]
    BY <1>0, <2>1 DEF CallType
  <2>3. Within("read", c, current_pointer)
    BY <2>1 DEF WithinInv
  <2> HIDE DEF c, d
  <2>4. Within("read_copy", d, current_pointer)
    BY <2>2, <2>3 DEF Within, Ended
  <2> QED BY <2>1, <2>2, <2>4, WithinStep
<1>8. CASE ReadCopy(p) /\ ~\E f : Crash(f)
  <2>1. UNCHANGED current_pointer /\ pc[p] = "read_copy"
    BY <1>8 DEF ReadCopy, device
  <2>2. CASE Finish(p, EIO, "copy")
    BY <1>3, <2>1, <2>2
  <2>3. CASE ~Finish(p, EIO, "copy")
    <3> DEFINE d == [c EXCEPT !.retval = c.count]
    <3>1. call' = [call EXCEPT ![p] = d] /\ pc' = [pc EXCEPT ![p] = "read_load"]
      BY <1>0, <1>8, <2>3 DEF ReadCopy, Goto
    <3>2. d.start = c.start /\ d.count = c.count
      BY <1>0 DEF CallType
    <3>3. Within("read_copy", c, current_pointer)
      BY <2>1 DEF WithinInv
    <3> HIDE DEF c, d
    <3>4. Within("read_load", d, current_pointer)
      BY <3>2, <3>3 DEF Within, Ended
    <3> QED BY <2>1, <3>1, <3>4, WithinStep
  <2> QED BY <2>2, <2>3
<1>9. CASE ReadAdvance(p)
  <2>1. /\ call' = [call EXCEPT ![p] = c] /\ pc' = [pc EXCEPT ![p] = "end"]
        /\ pc[p] \in Critical
    BY <1>0, <1>9 DEF ReadAdvance, Goto, Critical
  <2> HIDE DEF c
  <2> QED BY <1>1, <2>1, WithinReadEnd, WithinStep
<1> QED BY <1>2, <1>4, <1>5, <1>6, <1>7, <1>8, <1>9

(* Every step keeps what is known of the cursor.                           *)
LEMMA StepWithin ==
  TypeOK /\ MutexDiscipline /\ FootprintInv /\ WithinInv /\ [Next]_vars => WithinInv'
<1> SUFFICES ASSUME TypeOK, MutexDiscipline, FootprintInv, WithinInv, [Next]_vars
             PROVE  WithinInv'
  OBVIOUS
<1>0. /\ pc \in [Procs -> Places] /\ call \in [Procs -> CallType]
      /\ current_pointer \in Nat
  BY DEF TypeOK
<1>1. CASE UNCHANGED vars
  BY <1>1 DEF vars, device, WithinInv
(* A step of p to a place of which the invariant says nothing.             *)
<1>2. ASSUME NEW p \in Procs, NEW l \in Free, NEW c,
             pc' = [pc EXCEPT ![p] = l], call' = [call EXCEPT ![p] = c],
             current_pointer' \in {current_pointer, 0}
      PROVE  WithinInv'
  BY <1>2, WithinFree, WithinStep
<1>3. ASSUME NEW p \in Procs,
             \/ OpenReset(p) \/ OpenAlloc(p) \/ OpenNoMemory(p) \/ OpenTest(p)
             \/ ReleaseTest(p) \/ ReleaseClear(p) \/ ReleaseReset(p)
      PROVE  WithinInv'
  <2>1. call' = [call EXCEPT ![p] = call[p]] /\ current_pointer' \in {current_pointer, 0}
    BY <1>0, <1>3 DEF OpenReset, OpenAlloc, OpenNoMemory, OpenTest, ReleaseTest,
                      ReleaseClear, ReleaseReset, device
  <2>2. \E l \in Free : pc' = [pc EXCEPT ![p] = l]
    BY <1>3 DEF OpenReset, OpenAlloc, OpenNoMemory, OpenTest, ReleaseTest, ReleaseClear,
                ReleaseReset, Goto, Free
  <2> QED BY <1>2, <2>1, <2>2
<1>4. ASSUME NEW p \in Procs, ReleaseFree(p) PROVE WithinInv'
  <2>1. CASE \E f : Crash(f)
    BY <2>1, WithinCrash
  <2>2. CASE ~\E f : Crash(f)
    <3>1. call' = [call EXCEPT ![p] = call[p]] /\ current_pointer' = current_pointer
      BY <1>0, <1>4, <2>2 DEF ReleaseFree, device
    <3>2. \E l \in Free : pc' = [pc EXCEPT ![p] = l]
      BY <1>4, <2>2 DEF ReleaseFree, Goto, Free
    <3> QED BY <1>2, <3>1, <3>2
  <2> QED BY <2>1, <2>2
<1>5. ASSUME NEW p \in Procs, LockKilled(p) \/ Unlock(p) PROVE WithinInv'
  <2>1. \E c : call' = [call EXCEPT ![p] = c]
    BY <1>5 DEF LockKilled, Unlock
  <2>2. \E l \in Free : pc' = [pc EXCEPT ![p] = l]
    BY <1>5 DEF LockKilled, Unlock, Goto, Free
  <2>3. current_pointer' = current_pointer
    BY <1>5 DEF LockKilled, Unlock, device
  <2> QED BY <1>2, <2>1, <2>2, <2>3
<1>6. ASSUME NEW p \in Procs, Llseek(p) PROVE WithinInv'
  <2>1. \E c : call' = [call EXCEPT ![p] = c]
    BY <1>6 DEF Llseek
  <2>2. pc' = [pc EXCEPT ![p] = "idle"] /\ "idle" \in Free
    BY <1>0, <1>6 DEF Llseek, Free
  <2> QED BY <1>2, <1>6, <2>1, <2>2, SeekMovesNothing
<1>7. ASSUME NEW p \in Procs, ReadCall(p) \/ WriteCall(p) PROVE WithinInv'
  <2>1. PICK c : Unsent(c) /\ call' = [call EXCEPT ![p] = c]
    <3>1. CASE WriteCall(p)
      <4>1. PICK count, pos, payload :
              call' = [call EXCEPT ![p] =
                         [NoCall EXCEPT !.op = "write", !.count = count, !.pos = pos,
                                        !.payload = payload]]
        BY <3>1 DEF WriteCall
      <4>2. Unsent([NoCall EXCEPT !.op = "write", !.count = count, !.pos = pos,
                                  !.payload = payload])
        BY DEF NoCall, Unsent
      <4> QED BY <4>1, <4>2, Zenon
    <3>2. CASE ReadCall(p)
      <4>1. PICK count, pos :
              call' = [call EXCEPT ![p] =
                         [NoCall EXCEPT !.op = "read", !.count = count, !.pos = pos]]
        BY <3>2 DEF ReadCall
      <4>2. Unsent([NoCall EXCEPT !.op = "read", !.count = count, !.pos = pos])
        BY DEF NoCall, Unsent
      <4> QED BY <4>1, <4>2, Zenon
    <3> QED BY <1>7, <3>1, <3>2
  <2>2. /\ UNCHANGED current_pointer
        /\ \E l \in {"read_lock", "write_lock"} : pc' = [pc EXCEPT ![p] = l]
    BY <1>7 DEF ReadCall, WriteCall, Goto, device
  <2>3. ASSUME NEW l \in {"read_lock", "write_lock"} PROVE Within(l, c, current_pointer)
    BY <2>1, <2>3 DEF Within, Ended
  <2> QED BY <2>1, <2>2, <2>3, WithinStep
<1>8. ASSUME NEW p \in Procs, WriteLock(p) PROVE WithinInv'
  <2>0. call[p] \in CallType /\ pc[p] = "write_lock" /\ EEP_SIZE \in Nat
    BY <1>0, <1>8, GeometryAssumption DEF WriteLock
  <2>1. UNCHANGED current_pointer /\ Unsent(call[p])
    BY <1>8, <2>0 DEF WriteLock, device, WithinInv, Within
  <2>2. CASE Finish(p, EINVAL, "none")
    <3> DEFINE c == [call[p] EXCEPT !.retval = EINVAL, !.failure = "none"]
    <3>1. c.retval = EINVAL
      BY <2>0 DEF CallType
    <3>2. call' = [call EXCEPT ![p] = c] /\ pc' = [pc EXCEPT ![p] = "end"]
      BY <1>0, <2>2 DEF Finish, Goto
    <3> HIDE DEF c
    <3>3. Within("end", c, current_pointer)
      BY <3>1 DEF Within, EINVAL, EFAULT
    <3> QED BY <2>1, <3>2, <3>3, WithinStep
  <2>3. CASE ~Finish(p, EINVAL, "none")
    <3> DEFINE c == call[p]
    <3>1. /\ call' = [call EXCEPT ![p] = c] /\ pc' = [pc EXCEPT ![p] = "test"]
          /\ ~(current_pointer >= EEP_SIZE)
      BY <1>0, <1>8, <2>3 DEF WriteLock, Goto
    <3>2. current_pointer < EEP_SIZE
      BY <1>0, <2>0, <3>1
    <3> HIDE DEF c
    <3>3. Within("test", c, current_pointer)
      BY <2>1, <3>2 DEF Within, Ended, c
    <3> QED BY <2>1, <3>1, <3>3, WithinStep
  <2> QED BY <2>2, <2>3
<1>9. ASSUME NEW p \in Procs,
             \/ ReadLock(p) \/ ReadAddress(p) \/ ReadMessage(p)
             \/ ReadTransfer(p) \/ ReadCopy(p) \/ ReadAdvance(p)
      PROVE  WithinInv'
  BY <1>9, WithinRead
<1>10. ASSUME NEW p \in Procs, TestCount(p) \/ ClipCount(p) \/ LoadCursor(p)
       PROVE  WithinInv'
  BY <1>10, WithinClip, WithinLoad
<1>11. ASSUME NEW p \in Procs,
              \/ WriteCopy(p) \/ WriteAddress(p) \/ WritePlan(p) \/ SendChunk(p)
              \/ WriteAdvance(p)
       PROVE  WithinInv'
  BY <1>11, WithinCopy, WithinAddress, WithinPlan, WithinSend, WithinAdvance
<1> QED
  <2>1. CASE \E p \in Procs : Request(p)
    BY <1>3, <1>6, <1>7, <2>1 DEF Request
  <2>2. CASE \E p \in Procs : Acquire(p)
    BY <1>8, <1>9, <2>2 DEF Acquire
  <2>3. CASE \E p \in Procs : Progress(p)
    BY <1>3, <1>4, <1>5, <1>9, <1>10, <1>11, <2>3 DEF Progress
  <2>4. CASE \E p \in Procs : LockKilled(p)
    BY <1>5, <2>4
  <2> QED BY <1>1, <2>1, <2>2, <2>3, <2>4 DEF Next

(* Planned and Kept hold of every write in every reachable state.          *)
LEMMA FootprintHolds == Spec => []FootprintInv
<1>1. Init => FootprintInv
  BY DEF Init, FootprintInv, Footprint, Reading
<1> QED BY <1>1, StepFootprint, TypeCorrect, MutexCorrect, PageSafety, PTL DEF Spec

(* And so does what is known of the cursor.                                *)
LEMMA WithinHolds == Spec => []WithinInv
<1>1. Init => WithinInv
  <2>1. \A p \in Procs : Init => pc[p] \in Free
    BY DEF Init, Free
  <2> QED BY <2>1, WithinFree DEF WithinInv
<1> QED BY <1>1, StepWithin, FootprintHolds, TypeCorrect, MutexCorrect, PTL DEF Spec

-----------------------------------------------------------------------------
(* The bound of the cursor.                                                *)

(* A call moves the cursor to the end of what it read, or of its plan.     *)
LEMMA CursorMove ==
  ASSUME TypeOK, WithinInv, [Next]_vars
  PROVE  \/ current_pointer' \in {current_pointer, 0}
         \/ current_pointer' <= EEP_SIZE
         \/ \E p \in Procs :
              /\ call[p] \in CallType /\ PlanKept(call[p]) /\ OnPlan(call[p])
              /\ current_pointer' <=
                   call[p].start + (call[p].offset + ChunkLen(call[p]))
<1>0. call \in [Procs -> CallType]
  BY DEF TypeOK
<1>1. ASSUME NEW p \in Procs, ReadAdvance(p) PROVE current_pointer' <= EEP_SIZE
  <2> DEFINE c == call[p]
  <2>1. c.loaded \in Nat /\ c.count \in Nat
    BY <1>0 DEF CallType
  <2>2. /\ c.start \in Nat /\ c.start + c.count <= EEP_SIZE /\ c.loaded <= c.start
        /\ current_pointer' = c.loaded + c.count
    BY <1>1 DEF ReadAdvance, WithinInv, Within
  <2> HIDE DEF c
  <2> QED BY <2>1, <2>2, GeometryAssumption
<1>2. ASSUME NEW p \in Procs, WriteAdvance(p)
      PROVE  /\ call[p] \in CallType /\ PlanKept(call[p]) /\ OnPlan(call[p])
             /\ current_pointer' <=
                  call[p].start + (call[p].offset + ChunkLen(call[p]))
  <2> DEFINE c == call[p]
             n == ChunkLen(c)
  <2>1. c \in CallType /\ c.loaded \in Nat /\ c.offset \in Nat /\ n \in Nat
    BY <1>0, ChunkType, GeometryAssumption DEF CallType
  <2>2. PlanKept(c) /\ OnPlan(c) /\ c.loaded <= c.start + c.offset
    BY <1>2 DEF WriteAdvance, WithinInv, Within
  <2>3. current_pointer' = c.loaded + n
    BY <1>2, <2>1 DEF WriteAdvance, Advance, CallType, ChunkLen
  <2>4. c.start \in Nat
    BY <2>2 DEF PlanKept
  <2> HIDE DEF c, n
  <2>5. current_pointer' <= c.start + (c.offset + n)
    BY <2>1, <2>2, <2>3, <2>4
  <2> QED BY <2>1, <2>2, <2>5 DEF c, n
<1>3. ASSUME NEW p \in Procs, Llseek(p) PROVE current_pointer' = current_pointer
  BY <1>3, SeekMovesNothing
<1>4. CASE UNCHANGED vars
  BY <1>4 DEF vars, device
<1>5. ASSUME NEW p \in Procs,
             \/ OpenReset(p) \/ ReleaseTest(p) \/ ReadCall(p) \/ WriteCall(p)
             \/ Acquire(p) \/ LockKilled(p)
      PROVE  current_pointer' \in {current_pointer, 0}
  BY <1>5 DEF OpenReset, ReleaseTest, ReadCall, WriteCall, Acquire, ReadLock, WriteLock,
              LockKilled, device
<1>6. ASSUME NEW p \in Procs,
             \/ OpenAlloc(p) \/ OpenNoMemory(p) \/ OpenTest(p)
             \/ ReleaseFree(p) \/ ReleaseClear(p) \/ ReleaseReset(p)
             \/ TestCount(p) \/ ClipCount(p) \/ LoadCursor(p)
      PROVE  current_pointer' \in {current_pointer, 0}
  BY <1>6 DEF OpenAlloc, OpenNoMemory, OpenTest, ReleaseFree, ReleaseClear, ReleaseReset,
              TestCount, ClipCount, LoadCursor, Crash, device
<1>7. ASSUME NEW p \in Procs,
             \/ ReadAddress(p) \/ ReadMessage(p) \/ ReadTransfer(p) \/ ReadCopy(p)
             \/ WriteCopy(p) \/ WriteAddress(p) \/ WritePlan(p) \/ SendChunk(p) \/ Unlock(p)
      PROVE  current_pointer' \in {current_pointer, 0}
  BY <1>7 DEF ReadAddress, ReadMessage, ReadTransfer, ReadCopy, WriteCopy, WriteAddress,
              WritePlan, SendChunk, Unlock, Crash, device
<1> QED BY <1>1, <1>2, <1>3, <1>4, <1>5, <1>6, <1>7 DEF Next, Request, Progress

(* The cursor stays within a page of the end of the chip where size_t is   *)
(* wider than int, so that a plan that wraps has no whole page.            *)
THEOREM CursorBounded == WrappedPages < 1 => (Spec => []CursorBound)
<1> SUFFICES ASSUME WrappedPages < 1 PROVE Spec => []CursorBound
  OBVIOUS
<1>0. EEP_SIZE \in Nat \ {0} /\ EEP_PAGE_SIZE \in Nat \ {0}
  BY GeometryAssumption
<1>1. Init => CursorBound
  BY <1>0 DEF Init, CursorBound
<1>2. TypeOK /\ WithinInv /\ CursorBound /\ [Next]_vars => CursorBound'
  <2> SUFFICES ASSUME TypeOK, WithinInv, CursorBound, [Next]_vars
               PROVE  current_pointer' < EEP_SIZE + EEP_PAGE_SIZE
    BY DEF CursorBound
  <2>0. current_pointer \in Nat /\ current_pointer' \in Nat
    BY StepType DEF TypeOK
  <2>1. CASE current_pointer' \in {current_pointer, 0} \/ current_pointer' <= EEP_SIZE
    BY <1>0, <2>0, <2>1 DEF CursorBound
  <2>2. ASSUME NEW c \in CallType, PlanKept(c), OnPlan(c),
               current_pointer' <= c.start + (c.offset + ChunkLen(c))
        PROVE  current_pointer' < EEP_SIZE + EEP_PAGE_SIZE
    <3>1. /\ c.count \in Nat /\ c.remain_in_page \in Nat /\ c.start \in Nat
          /\ c.offset + ChunkLen(c) \in Nat /\ Total(c) \in Nat
          /\ c.start + c.count <= EEP_SIZE
      BY <2>2, ChunkType, TotalType, <1>0 DEF CallType, PlanKept
    <3>2. c.offset + ChunkLen(c) <= Total(c)
      BY <2>2, ChunkWithinTotal
    <3>3. /\ c.count >= c.remain_in_page => Total(c) = c.count
          /\ c.count < c.remain_in_page =>
               Total(c) = c.count + EEP_PAGE_SIZE /\ c.start + c.count < EEP_SIZE
      BY <2>2, PlanTotal
    <3> DEFINE sent == c.offset + ChunkLen(c)
               all == Total(c)
    <3> HIDE DEF sent, all
    <3>4. /\ sent \in Nat /\ all \in Nat /\ sent <= all
          /\ current_pointer' <= c.start + sent
          /\ \/ all = c.count
             \/ all = c.count + EEP_PAGE_SIZE /\ c.start + c.count < EEP_SIZE
      BY <2>2, <3>1, <3>2, <3>3 DEF sent, all
    <3> QED BY <1>0, <2>0, <3>1, <3>4
  <2> QED BY <2>1, <2>2, CursorMove
<1> QED BY <1>1, <1>2, TypeCorrect, WithinHolds, PTL DEF Spec

-----------------------------------------------------------------------------
(* The bytes, when the process is the only user: block is dev->data's and  *)
(* chip the chip's.                                                        *)

(* The block holds what is on the chip from the old cursor on.             *)
Delivered(c, block, chip) ==
  c.failure = "none" /\ c.count < EEP_SIZE =>
    \A k \in 0 .. c.count - 1 : block[k] = chip[c.start + k]

(* The chip holds the caller's bytes among the first n of the write.       *)
Programmed(c, chip, n) ==
  \A k \in 0 .. n - 1 : k < c.count => chip[c.start + k] = c.payload[k]

(* The block holds the caller's buffer.                                    *)
Copied(c, block) == \A k \in 0 .. c.count - 1 : block[k] = c.payload[k]

Exact(l, c, cursor, block, chip) ==
  /\ l \in {"read_message", "read", "read_copy", "read_load", "read_advance"} =>
       cursor = c.start
  /\ l \in {"read_message", "read"} => c.reg_addr = c.start
  /\ l \in {"read_copy", "read_load", "read_advance"} => Delivered(c, block, chip)
  /\ l \in {"read_load", "read_advance"} => c.retval = c.count
  /\ l = "read_advance" => c.loaded = c.start
  /\ (l = "end" /\ c.op = "read" /\ c.failure = "none" /\ c.retval > 0) =>
       /\ Delivered(c, block, chip) /\ c.retval = c.count
       /\ cursor = c.start + c.count /\ cursor <= EEP_SIZE
  /\ l \in {"write_address", "write_plan", "send", "sent", "write_advance"} =>
       Copied(c, block)
  /\ l = "write_plan" => cursor = c.start
  /\ l \in {"send", "sent", "write_advance"} =>
       cursor = c.start + c.offset /\ ~Torn(c)
  /\ l = "send" => Programmed(c, chip, c.offset)
  /\ l \in {"sent", "write_advance"} => Programmed(c, chip, c.offset + ChunkLen(c))
  /\ l = "write_advance" => c.loaded = cursor
  /\ (Ended(l, c) /\ c.retval \notin {EINVAL, EFAULT}) =>
       cursor = c.start + c.offset /\ Programmed(c, chip, c.offset) /\ ~Torn(c)

ExactInv ==
  ~shared => \A p \in Procs :
               Exact(pc[p], call[p], current_pointer, mem[data], eeprom)

(* The step of the only user.                                              *)
LEMMA ExactStep ==
  ASSUME TypeOK, ExclusiveInv, NEW p \in Procs, pc[p] # "closed", ~shared,
         NEW l, NEW c, pc' = [pc EXCEPT ![p] = l], call' = [call EXCEPT ![p] = c],
         Exact(l, c, current_pointer', mem'[data'], eeprom')
  PROVE  ExactInv'
<1> SUFFICES ASSUME NEW q \in Procs
             PROVE  Exact(pc'[q], call'[q], current_pointer', mem'[data'], eeprom')
  BY DEF ExactInv
<1>1. CASE q = p
  BY <1>1 DEF TypeOK
<1>2. CASE q # p
  <2>1. pc'[q] = "closed"
    BY <1>2 DEF TypeOK, ExclusiveInv
  <2> QED BY <2>1 DEF Exact, Ended
<1> QED BY <1>1, <1>2

(* Places of which the invariant says nothing.                             *)
Vague == Free \union {"read_lock", "write_lock", "test", "clip", "read_address",
                      "write_copy"}

(* Nothing is claimed of them.                                             *)
LEMMA ExactFree ==
  ASSUME NEW l \in Vague, NEW c, NEW cursor, NEW block, NEW chip
  PROVE  Exact(l, c, cursor, block, chip)
BY DEF Free, Vague, Exact, Ended

(* A crash changes nothing.                                                *)
LEMMA ExactCrash == ASSUME ExactInv, NEW f, Crash(f) PROVE ExactInv'
BY DEF ExactInv, Crash, device, memory

(* The block of the only user is one of the blocks.                        *)
LEMMA OnlyBlock ==
  ASSUME TypeOK, ExclusiveInv, ~shared, NEW p \in Procs, pc[p] \in Using
  PROVE  data \in Buffers
BY DEF TypeOK, ExclusiveInv, Pointer

(* The bytes that copy_from_user puts into the block are the caller's.     *)
LEMMA ExactCopy ==
  ASSUME ExactInv, TypeOK, ExclusiveInv, WithinInv, FootprintInv, ~shared,
         NEW p \in Procs, WriteCopy(p)
  PROVE  ExactInv'
<1> DEFINE b == call[p]
<1>0. /\ call \in [Procs -> CallType] /\ b \in CallType
      /\ current_pointer \in Nat /\ pc[p] = "write_copy" /\ pc[p] \in Using
      /\ pc[p] # "closed" /\ b.op = "write" /\ b.count \in Nat
      /\ current_pointer + b.count <= EEP_SIZE
  BY DEF TypeOK, WriteCopy, FootprintInv, Footprint, Fresh, Using, Critical, CallType,
         WithinInv, Within
<1>1. CASE \E f : Crash(f)
  BY <1>1, ExactCrash
<1>2. CASE Finish(p, EFAULT, "copy")
  <2> DEFINE e == [b EXCEPT !.retval = EFAULT, !.failure = "copy"]
  <2>1. e.retval = EFAULT /\ e.op = "write"
    BY <1>0 DEF CallType
  <2>2. call' = [call EXCEPT ![p] = e] /\ pc' = [pc EXCEPT ![p] = "end"]
    BY <1>0, <1>2 DEF Finish, Goto
  <2> HIDE DEF e
  <2>3. Exact("end", e, current_pointer', mem'[data'], eeprom')
    BY <2>1 DEF Exact
  <2> QED BY <1>0, <2>2, <2>3, ExactStep
<1>3. CASE /\ mem' = CopyIn(b.count, b.payload)
           /\ Goto(p, "write_address") /\ UNCHANGED call
           /\ UNCHANGED <<current_pointer, data, eeprom>>
  <2>1. \A k \in 0 .. b.count - 1 : mem'[data'][k] = b.payload[k]
    <3> SUFFICES ASSUME NEW k \in 0 .. b.count - 1 PROVE mem'[data][k] = b.payload[k]
      BY <1>3
    <3>1. k \in Addr /\ k < b.count /\ b.count # 0
      BY <1>0, GeometryAssumption DEF Addr
    <3>2. data \in Buffers /\ mem \in [Buffers -> Contents]
      BY <1>0, OnlyBlock DEF TypeOK
    <3>3. mem'[data] = [a \in Addr |-> IF a < b.count THEN b.payload[a] ELSE mem[data][a]]
      BY <1>3, <3>1, <3>2 DEF CopyIn
    <3> QED BY <3>1, <3>3
  <2>2. call' = [call EXCEPT ![p] = b] /\ pc' = [pc EXCEPT ![p] = "write_address"]
    BY <1>0, <1>3 DEF Goto
  <2> HIDE DEF b
  <2>3. Exact("write_address", b, current_pointer', mem'[data'], eeprom')
    BY <2>1 DEF Exact, Ended, Copied
  <2> QED BY <1>0, <2>2, <2>3, ExactStep
<1> QED BY <1>1, <1>2, <1>3 DEF WriteCopy, device

(* The address of the write of the only user is its cursor.                *)
LEMMA ExactAddress ==
  ASSUME ExactInv, TypeOK, ExclusiveInv, ~shared, NEW p \in Procs, WriteAddress(p)
  PROVE  ExactInv'
<1> DEFINE b == call[p]
           c == [b EXCEPT !.reg_addr = current_pointer, !.start = current_pointer,
                          !.before = eeprom]
<1>0. /\ call \in [Procs -> CallType] /\ b \in CallType
      /\ pc[p] = "write_address" /\ pc[p] # "closed"
      /\ UNCHANGED <<current_pointer, data, mem, eeprom>>
      /\ call' = [call EXCEPT ![p] = c] /\ pc' = [pc EXCEPT ![p] = "write_plan"]
  BY DEF TypeOK, WriteAddress, device, memory, Goto
<1>1. Copied(b, mem[data])
  BY <1>0 DEF ExactInv, Exact
<1>2. c.start = current_pointer /\ c.count = b.count /\ c.payload = b.payload
  BY <1>0 DEF CallType
<1> HIDE DEF b, c
<1>3. Copied(c, mem[data])
  BY <1>1, <1>2 DEF Copied
<1>4. Exact("write_plan", c, current_pointer', mem'[data'], eeprom')
  BY <1>0, <1>2, <1>3 DEF Exact, Ended
<1> QED BY <1>0, <1>4, ExactStep

(* It is also what the plan is made for, and nothing of it is sent yet.    *)
LEMMA ExactPlan ==
  ASSUME ExactInv, TypeOK, ExclusiveInv, WithinInv, FootprintInv, ~shared,
         NEW p \in Procs, WritePlan(p)
  PROVE  ExactInv'
<1> DEFINE b == call[p]
           c == Plan(b, current_pointer)
           s == FirstStage(c)
           d == IF s = "end" THEN c ELSE [c EXCEPT !.stage = s]
<1>0. /\ call \in [Procs -> CallType] /\ b \in CallType /\ c \in CallType
      /\ current_pointer \in Nat /\ pc[p] = "write_plan"
      /\ pc[p] # "closed" /\ b.op = "write" /\ b.offset = 0
  BY PlanType DEF TypeOK, WritePlan, FootprintInv, Footprint, Fresh
<1>1. Copied(b, mem[data]) /\ current_pointer = b.start
  BY <1>0 DEF ExactInv, Exact
<1>2. Continue(p, c, s) /\ UNCHANGED <<current_pointer, data, mem, eeprom>>
  BY DEF WritePlan, device, memory
<1>3. /\ c.offset = 0 /\ c.op = "write" /\ c.start = b.start
      /\ c.count = b.count /\ c.payload = b.payload
      /\ c.remain_in_page = RemainInPage(current_pointer)
  BY <1>0 DEF Plan, CallType
<1>4. s \in Stage \union {"end"}
  BY DEF FirstStage, NextStage, Stage
<1> HIDE DEF b, c, s
<1>5. /\ d.offset = 0 /\ d.op = "write" /\ d.start = b.start
      /\ d.count = b.count /\ d.payload = b.payload
      /\ d.remain_in_page = RemainInPage(current_pointer)
  BY <1>0, <1>3, <1>4 DEF CallType
<1>6. call' = [call EXCEPT ![p] = d]
  BY <1>2 DEF Continue
<1>7. pc' = [pc EXCEPT ![p] = IF s = "end" THEN "end" ELSE "send"]
  BY <1>2 DEF Continue, Goto
<1> HIDE DEF d
<1>8. /\ Copied(d, mem'[data']) /\ Programmed(d, eeprom', d.offset)
      /\ current_pointer' = d.start + d.offset /\ ~Torn(d)
  BY <1>0, <1>1, <1>2, <1>5 DEF Copied, Programmed, Torn
<1>9. /\ Exact("end", d, current_pointer', mem'[data'], eeprom')
      /\ Exact("send", d, current_pointer', mem'[data'], eeprom')
  BY <1>5, <1>8 DEF Exact, Ended
<1> QED BY <1>0, <1>6, <1>7, <1>9, ExactStep

(* A chunk sent, or a part of one that failed, adds to what is programmed: *)
(* the write stays within one turn of the chip, so it sends no byte to an  *)
(* address it has been to.                                                 *)
LEMMA SendProgrammed ==
  ASSUME NEW c \in CallType, PlanKept(c), Copied(c, mem[data]),
         Programmed(c, eeprom, c.offset),
         (c.reg_addr % EEP_PAGE_SIZE) + ChunkLen(c) <= EEP_PAGE_SIZE,
         c.reg_addr = c.start + c.offset, c.offset + ChunkLen(c) <= EEP_SIZE,
         NEW sent \in 0 .. ChunkLen(c), NEW chip,
         chip = PageWrite(c.reg_addr, mem[data], c.offset, sent)
  PROVE  Programmed(c, chip, c.offset + sent)
<1> SUFFICES ASSUME NEW k \in 0 .. (c.offset + sent) - 1, k < c.count
             PROVE  chip[c.start + k] = c.payload[k]
  BY Zenon DEF Programmed
<1> DEFINE addr == c.reg_addr
           off == c.offset
           n == ChunkLen(c)
           block == mem[data]
           start == c.start
<1>0. /\ off \in Nat /\ n \in Nat /\ addr \in Nat /\ start \in Nat /\ c.count \in Nat
      /\ start + c.count <= EEP_SIZE /\ addr = start + off /\ off + n <= EEP_SIZE
      /\ EEP_SIZE \in Nat /\ EEP_PAGE_SIZE \in Nat \ {0} /\ sent \in Nat /\ sent <= n
      /\ k \in Nat /\ k < off + sent
  BY ChunkType, GeometryAssumption DEF CallType, PlanKept
<1>1. addr % EEP_PAGE_SIZE \in Nat /\ (addr % EEP_PAGE_SIZE) + n <= EEP_PAGE_SIZE
  <2>1. addr \in Int /\ (addr % EEP_PAGE_SIZE) + n <= EEP_PAGE_SIZE
    BY <1>0
  <2> HIDE DEF addr
  <2>2. addr % EEP_PAGE_SIZE \in 0 .. EEP_PAGE_SIZE - 1
    BY <1>0, <2>1, DivMod
  <2> QED BY <1>0, <2>1, <2>2
<1>2. chip = PageWrite(addr, block, off, sent) /\ block[k] = c.payload[k]
  BY <1>0 DEF Copied
<1>3. k < off => eeprom[start + k] = c.payload[k]
  BY <1>0 DEF Programmed
<1> HIDE DEF addr, off, n, block, start
<1>4. (addr % EEP_PAGE_SIZE) + sent <= EEP_PAGE_SIZE
  BY <1>0, <1>1
<1>5. start + k \in Nat /\ start + k < EEP_SIZE /\ start + k \in Addr
  <2>1. start + k \in Nat /\ start + k < EEP_SIZE
    BY <1>0
  <2> QED BY <2>1, OnChip
<1>6. CASE k < off
  <2> DEFINE a == start + k
  <2>1. a \in Addr /\ a < addr /\ addr + sent <= a + EEP_SIZE
    BY <1>0, <1>5, <1>6
  <2> HIDE DEF a
  <2>2. PageWrite(addr, block, off, sent)[a] = eeprom[a]
    BY <1>0, <1>4, <2>1, BytesBefore
  <2> QED BY <1>2, <1>3, <1>6, <2>2 DEF a, start
<1>7. CASE k >= off
  <2> DEFINE j == k - off
  <2>1. /\ j \in 0 .. sent - 1 /\ addr + j = start + k /\ off + j = k
        /\ addr + j < EEP_SIZE
    BY <1>0, <1>5, <1>7
  <2> HIDE DEF j
  <2>2. Placed(chip, addr, block, off, sent)
    BY <1>0, <1>2, <1>4, ChunkPlaced
  <2>3. chip[addr + j] = block[off + j]
    BY <2>1, <2>2 DEF Placed
  <2> QED BY <1>2, <2>1, <2>3 DEF start
<1> QED BY <1>0, <1>6, <1>7

(* The bytes of the chunks before it are there in any case.                *)
LEMMA ProgrammedLess ==
  ASSUME NEW c, NEW chip, NEW n \in Nat, NEW m \in Nat, m <= n,
         Programmed(c, chip, n)
  PROVE  Programmed(c, chip, m)
BY DEF Programmed

(* A chunk that is sent is inside the block, and adds to what is there.    *)
LEMMA ExactSend ==
  ASSUME ExactInv, TypeOK, ExclusiveInv, WithinInv, FootprintInv, ChunkInPage,
         ~shared, NEW p \in Procs, SendChunk(p)
  PROVE  ExactInv'
<1> DEFINE c == call[p]
           n == ChunkLen(c)
<1>0. /\ call \in [Procs -> CallType] /\ c \in CallType /\ n \in Nat
      /\ pc[p] = "send" /\ pc[p] # "closed" /\ c.offset \in Nat
  BY ChunkType, GeometryAssumption DEF TypeOK, SendChunk, CallType
<1>1. /\ PlanKept(c) /\ OnPlan(c)
      /\ Copied(c, mem[data]) /\ current_pointer = c.start + c.offset
      /\ Programmed(c, eeprom, c.offset)
      /\ c.reg_addr = c.start + c.offset /\ c.op = "write" /\ ~Torn(c)
      /\ (c.reg_addr % EEP_PAGE_SIZE) + n <= EEP_PAGE_SIZE
  BY <1>0 DEF WithinInv, Within, ExactInv, Exact, FootprintInv, Footprint, Planned,
              ChunkInPage
<1>2. CASE \E f : Crash(f)
  BY <1>2, ExactCrash
<1>a. ~(\E f : Crash(f)) => c.offset + n <= EEP_SIZE
  <2> SUFFICES ASSUME ~\E f : Crash(f) PROVE c.offset + n <= EEP_SIZE
    OBVIOUS
  <2>1. AccessFault(data, c.offset, n) = "none"
    BY DEF SendChunk
  <2>2. c.offset <= EEP_SIZE
    BY <1>0 DEF WithinInv, Within
  <2>3. CASE n = 0
    BY <1>0, <2>2, <2>3
  <2>4. CASE n > 0
    BY <1>0, <2>1, <2>4, AccessInBounds
  <2> QED BY <1>0, <2>3, <2>4
<1>3. CASE /\ ~\E f : Crash(f)
           /\ \E sent \in 0 .. n :
                /\ eeprom' = PageWrite(c.reg_addr, mem[data], c.offset, sent)
                /\ \/ Finish(p, -1, "bus")
                   \/ sent = n /\ Goto(p, "sent") /\ UNCHANGED call
           /\ UNCHANGED <<current_pointer, data, mem>>
  <2>1. PICK sent \in 0 .. n :
          /\ eeprom' = PageWrite(c.reg_addr, mem[data], c.offset, sent)
          /\ \/ Finish(p, -1, "bus")
             \/ sent = n /\ Goto(p, "sent") /\ UNCHANGED call
    BY <1>3
  <2>2. /\ Programmed(c, eeprom', c.offset)
        /\ sent = n => Programmed(c, eeprom', c.offset + n)
    <3>1. Programmed(c, eeprom', c.offset + sent)
      BY <1>0, <1>1, <1>3, <1>a, <2>1, SendProgrammed
    <3>2. sent \in Nat /\ c.offset + sent \in Nat /\ c.offset <= c.offset + sent
      BY <1>0
    <3> QED BY <1>0, <3>1, <3>2, ProgrammedLess
  <2>3. CASE Finish(p, -1, "bus")
    <3> DEFINE d == [c EXCEPT !.retval = -1, !.failure = "bus"]
    <3>1. /\ d.op = "write" /\ d.start = c.start /\ d.offset = c.offset
          /\ Programmed(d, eeprom', d.offset) /\ ~Torn(d)
      BY <1>0, <1>1, <2>2 DEF CallType, Programmed, Torn
    <3>2. call' = [call EXCEPT ![p] = d] /\ pc' = [pc EXCEPT ![p] = "end"]
      BY <1>0, <2>3 DEF Finish, Goto
    <3> HIDE DEF c, d, n
    <3>3. Exact("end", d, current_pointer', mem'[data'], eeprom')
      BY <1>1, <1>3, <3>1 DEF Exact
    <3> QED BY <1>0, <3>2, <3>3, ExactStep
  <2>4. CASE sent = n /\ Goto(p, "sent") /\ UNCHANGED call
    <3>1. Copied(c, mem[data]) /\ Programmed(c, eeprom', c.offset + n)
      BY <1>1, <2>2, <2>4
    <3>2. call' = [call EXCEPT ![p] = c] /\ pc' = [pc EXCEPT ![p] = "sent"]
      BY <1>0, <2>4 DEF Goto
    <3> HIDE DEF c
    <3>3. Exact("sent", c, current_pointer', mem'[data'], eeprom')
      BY <1>1, <1>3, <3>1 DEF Exact, Ended
    <3> QED BY <1>0, <3>2, <3>3, ExactStep
  <2> QED BY <2>1, <2>3, <2>4
<1> QED BY <1>2, <1>3 DEF SendChunk, device, memory

(* The load of "current_pointer +=" finds the cursor of the only user.     *)
LEMMA ExactLoad ==
  ASSUME ExactInv, TypeOK, ExclusiveInv, ~shared, NEW p \in Procs, LoadCursor(p)
  PROVE  ExactInv'
<1> DEFINE b == call[p]
           c == [b EXCEPT !.loaded = current_pointer]
<1>0. /\ call \in [Procs -> CallType] /\ b \in CallType
      /\ pc[p] \in {"read_load", "sent"} /\ pc[p] # "closed"
      /\ UNCHANGED <<current_pointer, data, mem, eeprom>>
      /\ call' = [call EXCEPT ![p] = c]
  BY DEF TypeOK, LoadCursor, device, memory
<1>1. Exact(pc[p], b, current_pointer, mem[data], eeprom)
  BY DEF ExactInv
<1>2. /\ c.loaded = current_pointer /\ c.start = b.start /\ c.count = b.count
      /\ c.retval = b.retval /\ c.offset = b.offset /\ ChunkLen(c) = ChunkLen(b)
      /\ Copied(b, mem[data]) => Copied(c, mem[data])
      /\ Torn(c) <=> Torn(b)
      /\ Delivered(b, mem[data], eeprom) => Delivered(c, mem[data], eeprom)
      /\ \A n : Programmed(b, eeprom, n) => Programmed(c, eeprom, n)
  BY <1>0 DEF CallType, ChunkLen, Copied, Torn, Delivered, Programmed
<1> HIDE DEF b, c
<1>3. CASE pc[p] = "read_load"
  <2>1. pc' = [pc EXCEPT ![p] = "read_advance"]
    BY <1>3 DEF LoadCursor, Goto
  <2>2. Exact("read_advance", c, current_pointer', mem'[data'], eeprom')
    BY <1>0, <1>1, <1>2, <1>3 DEF Exact, Ended
  <2> QED BY <1>0, <2>1, <2>2, ExactStep
<1>4. CASE pc[p] = "sent"
  <2>1. pc' = [pc EXCEPT ![p] = "write_advance"]
    BY <1>4 DEF LoadCursor, Goto
  <2>2. Exact("write_advance", c, current_pointer', mem'[data'], eeprom')
    BY <1>0, <1>1, <1>2, <1>4 DEF Exact, Ended
  <2> QED BY <1>0, <2>1, <2>2, ExactStep
<1> QED BY <1>0, <1>3, <1>4

(* The cursor counts what has been sent.                                   *)
LEMMA ExactAdvance ==
  ASSUME ExactInv, TypeOK, ExclusiveInv, WithinInv, FootprintInv, ~shared,
         NEW p \in Procs, WriteAdvance(p)
  PROVE  ExactInv'
<1> DEFINE b == call[p]
           n == ChunkLen(b)
           c == Advance(b)
           s == IF c.stage = "tail" THEN "end" ELSE NextStage(c)
           d == IF s = "end" THEN c ELSE [c EXCEPT !.stage = s]
<1>0. /\ call \in [Procs -> CallType] /\ b \in CallType /\ n \in Nat /\ c \in CallType
      /\ pc[p] = "write_advance" /\ pc[p] # "closed" /\ b.offset \in Nat
      /\ b.start \in Nat
  BY ChunkType, AdvanceType, GeometryAssumption
     DEF TypeOK, WriteAdvance, CallType, WithinInv, Within, PlanKept
<1>a. b.op = "write"
  BY <1>0 DEF FootprintInv, Footprint, Planned
<1>1. /\ Copied(b, mem[data]) /\ b.loaded = b.start + b.offset
      /\ Programmed(b, eeprom, b.offset + n) /\ ~Torn(b)
  BY <1>0 DEF ExactInv, Exact
<1>2. /\ c.offset = b.offset + n /\ c.start = b.start /\ c.loaded = b.loaded
      /\ c.count = b.count /\ c.payload = b.payload
      /\ c.remain_in_page = b.remain_in_page /\ ChunkLen(c) = n /\ c.op = b.op
  BY <1>0 DEF Advance, CallType, ChunkLen
<1>3. /\ current_pointer' = b.loaded + n /\ Continue(p, c, s)
      /\ UNCHANGED <<data, mem, eeprom>>
  BY <1>2 DEF WriteAdvance, memory
<1>4. s \in Stage \union {"end"}
  BY DEF NextStage, Stage
<1> HIDE DEF b, n, c, s
<1>5. /\ d.offset = b.offset + n /\ d.start = b.start /\ d.count = b.count
      /\ d.payload = b.payload /\ d.remain_in_page = b.remain_in_page
      /\ d.op = b.op
  BY <1>0, <1>2, <1>4 DEF CallType
<1>6. call' = [call EXCEPT ![p] = d]
  BY <1>3 DEF Continue
<1>7. pc' = [pc EXCEPT ![p] = IF s = "end" THEN "end" ELSE "send"]
  BY <1>3 DEF Continue, Goto
<1> HIDE DEF d
<1>8. /\ Copied(d, mem'[data']) /\ Programmed(d, eeprom', d.offset)
      /\ current_pointer' = d.start + d.offset /\ ~Torn(d)
  BY <1>0, <1>1, <1>3, <1>5 DEF Copied, Programmed, Torn
<1>10. /\ Exact("end", d, current_pointer', mem'[data'], eeprom')
       /\ Exact("send", d, current_pointer', mem'[data'], eeprom')
  BY <1>5, <1>8, <1>a DEF Exact, Ended
<1> QED BY <1>0, <1>6, <1>7, <1>10, ExactStep

(* A read that worked has in the block what is on the chip.                *)
LEMMA ExactTransfer ==
  ASSUME ExactInv, TypeOK, ExclusiveInv, WithinInv, ~shared,
         NEW p \in Procs, ReadTransfer(p)
  PROVE  ExactInv'
<1> DEFINE c == call[p]
<1>0. /\ call \in [Procs -> CallType] /\ c \in CallType /\ c.count \in Nat
      /\ pc[p] = "read" /\ pc[p] # "closed" /\ pc[p] \in Using /\ c.msg_buf = data
  BY DEF TypeOK, CallType, ReadTransfer, Using, Critical, ExclusiveInv
<1>1. /\ c.start \in Nat /\ c.start + c.count <= EEP_SIZE
      /\ c.reg_addr = c.start /\ current_pointer = c.start
  BY <1>0 DEF WithinInv, Within, ExactInv, Exact
<1>2. CASE \E f : Crash(f)
  BY <1>2, ExactCrash
<1>3. CASE ~\E f : Crash(f)
  <2>1. PICK got \in 0 .. MsgLen(c.count), failed \in {"none", "bus"} :
          /\ failed = "none" => got = MsgLen(c.count)
          /\ mem' = IF got = 0 THEN mem
                    ELSE [mem EXCEPT ![c.msg_buf] = ReadSequential(@, c.reg_addr, got)]
          /\ call' = [call EXCEPT ![p].failure = failed]
    BY <1>3 DEF ReadTransfer
  <2>2. pc' = [pc EXCEPT ![p] = "read_copy"] /\ UNCHANGED <<current_pointer, data, eeprom>>
    BY <1>3 DEF ReadTransfer, Goto, device
  <2> DEFINE d == [c EXCEPT !.failure = failed]
  <2>3. call' = [call EXCEPT ![p] = d]
    BY <1>0, <2>1
  <2>4. /\ d.failure = failed /\ d.count = c.count /\ d.start = c.start
    BY <1>0 DEF CallType
  <2>5. data \in Buffers /\ mem \in [Buffers -> Contents]
    BY <1>0, OnlyBlock DEF TypeOK
  <2>6. ASSUME failed = "none", c.count < EEP_SIZE, NEW k \in 0 .. c.count - 1
        PROVE  mem'[data][k] = eeprom[c.start + k]
    <3>1. got = c.count /\ got # 0 /\ k < got
      <4>1. MsgLen(c.count) = c.count
        BY <1>0, <2>6, OnChip DEF MsgLen
      <4> QED BY <1>0, <2>1, <2>6, <4>1
    <3>2. k \in Addr /\ c.start + k \in Nat /\ c.start + k < EEP_SIZE
      BY <1>0, <1>1, <2>6, GeometryAssumption DEF Addr
    <3>3. (c.start + k) % EEP_SIZE = c.start + k
      BY <3>2, OnChip
    <3>4. mem'[data] = ReadSequential(mem[data], c.start, got)
      BY <1>0, <1>1, <2>1, <2>5, <3>1
    <3>5. ReadSequential(mem[data], c.start, got)[k] = eeprom[(c.start + k) % EEP_SIZE]
      BY <3>1, <3>2 DEF ReadSequential
    <3> QED BY <3>3, <3>4, <3>5
  <2> HIDE DEF c, d
  <2>7. Delivered(d, mem'[data'], eeprom')
    BY <2>2, <2>4, <2>6 DEF Delivered
  <2>8. Exact("read_copy", d, current_pointer', mem'[data'], eeprom')
    BY <1>1, <2>2, <2>4, <2>7 DEF Exact, Ended
  <2> QED BY <1>0, <2>2, <2>3, <2>8, ExactStep
<1> QED BY <1>2, <1>3

(* The other steps of a read start at the cursor and count what was read.  *)
LEMMA ExactRead ==
  ASSUME ExactInv, TypeOK, ExclusiveInv, WithinInv, FootprintInv, ~shared,
         NEW p \in Procs,
         \/ ReadLock(p) \/ ReadAddress(p) \/ ReadMessage(p)
         \/ ReadCopy(p) \/ ReadAdvance(p)
  PROVE  ExactInv'
<1> DEFINE c == call[p]
<1>0. /\ call \in [Procs -> CallType] /\ c \in CallType /\ c.count \in Nat
      /\ c.op = "read" /\ pc[p] # "closed" /\ pc \in [Procs -> Places]
  BY DEF TypeOK, CallType, ReadLock, ReadAddress, ReadMessage, ReadCopy, ReadAdvance,
         FootprintInv, Footprint, Reading
<1>1. CASE \E f : Crash(f)
  BY <1>1, ExactCrash
<1>2. ASSUME NEW r, NEW f, Finish(p, r, f), f # "none" \/ r = 0 PROVE ExactInv'
  <2> DEFINE d == [c EXCEPT !.retval = r, !.failure = f]
  <2>1. d.retval = r /\ d.failure = f /\ d.op = "read"
    BY <1>0 DEF CallType
  <2>2. call' = [call EXCEPT ![p] = d] /\ pc' = [pc EXCEPT ![p] = "end"]
    BY <1>0, <1>2 DEF Finish, Goto
  <2> HIDE DEF d
  <2>3. Exact("end", d, current_pointer', mem'[data'], eeprom')
    BY <1>2, <2>1 DEF Exact, Ended
  <2> QED BY <1>0, <2>2, <2>3, ExactStep
<1>3. CASE ReadLock(p) /\ ~Finish(p, 0, "none")
  <2>1. call' = [call EXCEPT ![p] = c] /\ pc' = [pc EXCEPT ![p] = "test"]
    BY <1>0, <1>3 DEF ReadLock, Goto
  <2>2. Exact("test", c, current_pointer', mem'[data'], eeprom')
    BY ExactFree DEF Vague
  <2> HIDE DEF c
  <2> QED BY <1>0, <2>1, <2>2, ExactStep
<1>4. CASE ReadAddress(p)
  <2> DEFINE d == [c EXCEPT !.reg_addr = current_pointer, !.start = current_pointer]
  <2>1. /\ call' = [call EXCEPT ![p] = d] /\ pc' = [pc EXCEPT ![p] = "read_message"]
        /\ UNCHANGED current_pointer
    BY <1>0, <1>4 DEF ReadAddress, Goto, device
  <2>2. d.start = current_pointer /\ d.reg_addr = current_pointer
    BY <1>0 DEF CallType
  <2> HIDE DEF d
  <2>3. Exact("read_message", d, current_pointer', mem'[data'], eeprom')
    BY <2>1, <2>2 DEF Exact, Ended
  <2> QED BY <1>0, <2>1, <2>3, ExactStep
<1>5. CASE ReadMessage(p)
  <2> DEFINE d == [c EXCEPT !.msg_buf = data]
  <2>1. /\ call' = [call EXCEPT ![p] = d] /\ pc' = [pc EXCEPT ![p] = "read"]
        /\ UNCHANGED current_pointer /\ pc[p] = "read_message"
    BY <1>0, <1>5 DEF ReadMessage, Goto, device
  <2>2. current_pointer = c.start /\ c.reg_addr = c.start
    BY <2>1 DEF ExactInv, Exact
  <2>3. d.start = c.start /\ d.reg_addr = c.reg_addr
    BY <1>0 DEF CallType
  <2> HIDE DEF c, d
  <2>4. Exact("read", d, current_pointer', mem'[data'], eeprom')
    BY <2>1, <2>2, <2>3 DEF Exact, Ended
  <2> QED BY <1>0, <2>1, <2>4, ExactStep
<1>6. CASE ReadCopy(p) /\ ~Finish(p, EIO, "copy") /\ ~\E f : Crash(f)
  <2> DEFINE d == [c EXCEPT !.retval = c.count]
  <2>1. /\ call' = [call EXCEPT ![p] = d] /\ pc' = [pc EXCEPT ![p] = "read_load"]
        /\ UNCHANGED <<current_pointer, data, mem, eeprom>> /\ pc[p] = "read_copy"
    BY <1>0, <1>6 DEF ReadCopy, Goto, device, memory
  <2>2. Delivered(c, mem[data], eeprom) /\ current_pointer = c.start
    BY <2>1 DEF ExactInv, Exact
  <2>3. /\ d.start = c.start /\ d.count = c.count /\ d.retval = c.count
        /\ d.failure = c.failure
    BY <1>0 DEF CallType
  <2> HIDE DEF c, d
  <2>4. Delivered(d, mem'[data'], eeprom')
    BY <2>1, <2>2, <2>3 DEF Delivered
  <2>5. Exact("read_load", d, current_pointer', mem'[data'], eeprom')
    BY <2>1, <2>2, <2>3, <2>4 DEF Exact, Ended
  <2> QED BY <1>0, <2>1, <2>5, ExactStep
<1>7. CASE ReadAdvance(p)
  <2>1. /\ call' = [call EXCEPT ![p] = c] /\ pc' = [pc EXCEPT ![p] = "end"]
        /\ UNCHANGED <<data, mem, eeprom>> /\ pc[p] = "read_advance"
        /\ current_pointer' = c.loaded + c.count
    BY <1>0, <1>7 DEF ReadAdvance, Goto, memory
  <2>2. /\ Delivered(c, mem[data], eeprom) /\ c.loaded = c.start /\ c.retval = c.count
        /\ c.start + c.count <= EEP_SIZE
    BY <2>1 DEF ExactInv, Exact, WithinInv, Within
  <2> HIDE DEF c
  <2>3. Exact("end", c, current_pointer', mem'[data'], eeprom')
    BY <1>0, <2>1, <2>2 DEF Exact, Ended
  <2> QED BY <1>0, <2>1, <2>3, ExactStep
<1> QED BY <1>1, <1>2, <1>3, <1>4, <1>5, <1>6, <1>7 DEF ReadLock, ReadCopy

(* Every step keeps what the only user can rely on.                        *)
LEMMA StepExact ==
  TypeOK /\ ExclusiveInv /\ ExclusiveInv' /\ FootprintInv /\ WithinInv /\ ChunkInPage
    /\ ExactInv /\ [Next]_vars => ExactInv'
<1> SUFFICES ASSUME TypeOK, ExclusiveInv, FootprintInv, WithinInv, ChunkInPage,
                    ExactInv, [Next]_vars, ~shared'
             PROVE  ExactInv'
  BY DEF ExactInv
<1>0. pc \in [Procs -> Places] /\ call \in [Procs -> CallType]
  BY DEF TypeOK
<1>1. CASE UNCHANGED vars
  BY <1>1 DEF vars, device, memory, history, ExactInv
<1>2. ASSUME NEW p \in Procs, OpenReset(p) PROVE ExactInv'
  <2>1. \A q \in Procs \ {p} : pc[q] = "closed"
    BY <1>2 DEF OpenReset
  <2>2. \A q \in Procs : pc'[q] \in Vague
    BY <1>0, <1>2, <2>1 DEF OpenReset, Goto, Free, Vague
  <2> QED BY <2>2, ExactFree DEF ExactInv
<1>3. ASSUME NEW p \in Procs, ~shared, pc[p] # "closed", NEW l \in Vague, NEW c,
             pc' = [pc EXCEPT ![p] = l], call' = [call EXCEPT ![p] = c]
      PROVE  ExactInv'
  BY <1>3, ExactFree, ExactStep
(* Steps that leave the locals alone.                                      *)
<1>4. ASSUME NEW p \in Procs,
             \/ OpenAlloc(p) \/ OpenNoMemory(p) \/ OpenTest(p)
             \/ ReleaseTest(p) \/ ReleaseClear(p) \/ ReleaseReset(p) \/ TestCount(p)
      PROVE  ExactInv'
  <2>1. call' = [call EXCEPT ![p] = call[p]] /\ ~shared /\ pc[p] # "closed"
    BY <1>0, <1>4 DEF OpenAlloc, OpenNoMemory, OpenTest, ReleaseTest, ReleaseClear,
                      ReleaseReset, TestCount, history
  <2>2. \E l \in Vague : pc' = [pc EXCEPT ![p] = l]
    BY <1>4 DEF OpenAlloc, OpenNoMemory, OpenTest, ReleaseTest, ReleaseClear,
                ReleaseReset, TestCount, AfterClip, Goto, Free, Vague
  <2> QED BY <1>3, <2>1, <2>2
<1>5. ASSUME NEW p \in Procs, ReleaseFree(p) PROVE ExactInv'
  <2>1. CASE \E f : Crash(f)
    BY <2>1, ExactCrash
  <2>2. CASE ~\E f : Crash(f)
    <3>1. /\ call' = [call EXCEPT ![p] = call[p]] /\ ~shared /\ pc[p] # "closed"
          /\ \E l \in Vague : pc' = [pc EXCEPT ![p] = l]
      BY <1>0, <1>5, <2>2 DEF ReleaseFree, Goto, Free, Vague, history
    <3> QED BY <1>3, <3>1
  <2> QED BY <2>1, <2>2
<1>6. ASSUME NEW p \in Procs,
             \/ LockKilled(p) \/ Unlock(p) \/ ReadCall(p) \/ WriteCall(p) \/ Llseek(p)
             \/ ClipCount(p)
      PROVE  ExactInv'
  <2>1. \E c : call' = [call EXCEPT ![p] = c]
    <3>1. CASE ClipCount(p)
      <4>1. call' = [call EXCEPT ![p] = [call[p] EXCEPT !.count =
                       IF Left(current_pointer) > EEP_SIZE THEN EEP_SIZE
                       ELSE Left(current_pointer)]]
        BY <1>0, <3>1 DEF ClipCount
      <4> QED BY <4>1
    <3> QED BY <1>6, <3>1 DEF LockKilled, Unlock, ReadCall, WriteCall, Llseek
  <2>2. /\ ~shared /\ pc[p] # "closed"
        /\ \E l \in Vague : pc' = [pc EXCEPT ![p] = l]
    <3>1. CASE LockKilled(p) \/ Unlock(p) \/ ReadCall(p) \/ ClipCount(p)
      <4>1. UNCHANGED shared /\ pc[p] # "closed"
        BY <3>1 DEF LockKilled, Unlock, ReadCall, ClipCount, history
      <4>2. \E l \in Vague : pc' = [pc EXCEPT ![p] = l]
        BY <3>1 DEF LockKilled, Unlock, ReadCall, ClipCount, AfterClip, Goto, Free, Vague
      <4> QED BY <4>1, <4>2
    <3>2. CASE WriteCall(p)
      BY <1>0, <3>2 DEF WriteCall, Goto, Vague, history
    <3>3. CASE Llseek(p)
      <4>1. pc' = [pc EXCEPT ![p] = "idle"] /\ pc[p] = "idle"
        BY <1>0, <3>3 DEF Llseek
      <4>2. UNCHANGED shared
        BY <3>3 DEF Llseek, history
      <4> QED BY <4>1, <4>2 DEF Free, Vague
    <3> QED BY <1>6, <3>1, <3>2, <3>3
  <2> QED BY <1>3, <2>1, <2>2
<1>7. ASSUME NEW p \in Procs, WriteLock(p) PROVE ExactInv'
  <2>0. ~shared /\ pc[p] # "closed" /\ call[p] \in CallType /\ call[p].op = "write"
    BY <1>0, <1>7 DEF WriteLock, history, FootprintInv, Footprint, Fresh
  <2>1. CASE Finish(p, EINVAL, "none")
    <3> DEFINE c == [call[p] EXCEPT !.retval = EINVAL, !.failure = "none"]
    <3>1. c.retval = EINVAL /\ c.op = "write"
      BY <2>0 DEF CallType
    <3>2. call' = [call EXCEPT ![p] = c] /\ pc' = [pc EXCEPT ![p] = "end"]
      BY <1>0, <2>1 DEF Finish, Goto
    <3> HIDE DEF c
    <3>3. Exact("end", c, current_pointer', mem'[data'], eeprom')
      BY <3>1 DEF Exact
    <3> QED BY <2>0, <3>2, <3>3, ExactStep
  <2>2. CASE ~Finish(p, EINVAL, "none")
    <3>1. call' = [call EXCEPT ![p] = call[p]] /\ pc' = [pc EXCEPT ![p] = "test"]
      BY <1>0, <1>7, <2>2 DEF WriteLock, Goto
    <3> QED BY <1>3, <2>0, <3>1 DEF Vague
  <2> QED BY <2>1, <2>2
<1>8. ASSUME NEW p \in Procs,
             \/ ReadLock(p) \/ ReadAddress(p) \/ ReadMessage(p) \/ ReadTransfer(p)
             \/ ReadCopy(p) \/ ReadAdvance(p) \/ LoadCursor(p)
      PROVE  ExactInv'
  <2>1. ~shared
    BY <1>8 DEF ReadLock, ReadAddress, ReadMessage, ReadTransfer, ReadCopy, ReadAdvance,
                LoadCursor, Crash, history
  <2> QED BY <1>8, <2>1, ExactRead, ExactTransfer, ExactLoad
<1>9. ASSUME NEW p \in Procs,
             \/ WriteCopy(p) \/ WriteAddress(p) \/ WritePlan(p) \/ SendChunk(p)
             \/ WriteAdvance(p)
      PROVE  ExactInv'
  <2>1. ~shared
    BY <1>9 DEF WriteCopy, WriteAddress, WritePlan, SendChunk, WriteAdvance, Crash, history
  <2> QED BY <1>9, <2>1, ExactCopy, ExactAddress, ExactPlan, ExactSend, ExactAdvance
<1> QED
  <2>1. CASE \E p \in Procs : Request(p)
    BY <1>2, <1>4, <1>6, <2>1 DEF Request
  <2>2. CASE \E p \in Procs : Acquire(p)
    BY <1>7, <1>8, <2>2 DEF Acquire
  <2>3. CASE \E p \in Procs : Progress(p)
    BY <1>4, <1>5, <1>6, <1>8, <1>9, <2>3 DEF Progress
  <2>4. CASE \E p \in Procs : LockKilled(p)
    BY <1>6, <2>4
  <2> QED BY <1>1, <2>1, <2>2, <2>3, <2>4 DEF Next

(* So it holds in every reachable state.                                   *)
LEMMA ExactHolds == Spec => []ExactInv
<1>1. Init => ExactInv
  <2>1. \A p \in Procs : Init => pc[p] \in Vague
    BY DEF Init, Free, Vague
  <2> QED BY <2>1, ExactFree DEF ExactInv
<1> QED BY <1>1, StepExact, WithinHolds, FootprintHolds, ExclusiveCorrect, TypeCorrect,
           PageSafety, PTL DEF Spec

-----------------------------------------------------------------------------
(* What the only user gets.                                                *)

(* An address is in the span of a write on the chip exactly when it is one *)
(* of the addresses from its start on.                                     *)
LEMMA SpanOnChip ==
  ASSUME NEW c, NEW n \in Nat, c.start \in Nat, c.start + n <= EEP_SIZE,
         NEW a \in Addr, a \notin c.start .. c.start + n - 1
  PROVE  a \notin Span(c, n)
<1> SUFFICES ASSUME NEW k \in 0 .. n - 1, a = (c.start + k) % EEP_SIZE PROVE FALSE
  BY DEF Span
<1>1. c.start + k \in Nat /\ c.start + k < EEP_SIZE
  BY GeometryAssumption
<1>2. a = c.start + k
  BY <1>1, OnChip
<1> QED BY <1>1, <1>2

(* A completed write by the only user put the caller's bytes at the cursor *)
(* and nothing anywhere else, and counted them.                            *)
THEOREM WriteCorrect == Spec => []WriteFaithful
<1>1. TypeOK /\ WithinInv /\ ExactInv /\ WriteFootprint => WriteFaithful
  <2> SUFFICES ASSUME TypeOK, WithinInv, ExactInv, WriteFootprint, NEW p \in Procs,
                      Completed(p, "write"), ~shared, call[p].retval # EINVAL,
                      NEW c, c = call[p]
               PROVE  /\ c.retval = Written(c)
                      /\ current_pointer = c.start + c.retval
                      /\ \A k \in 0 .. c.count - 1 : eeprom[c.start + k] = c.payload[k]
                      /\ c.count >= c.remain_in_page =>
                           \A a \in Addr \ (c.start .. c.start + c.count - 1) :
                             eeprom[a] = c.before[a]
    BY DEF WriteFaithful
  <2>1. /\ c \in CallType /\ pc[p] = "end" /\ c.op = "write" /\ c.failure = "none"
        /\ c.count \in Nat /\ c.remain_in_page \in Nat /\ c.offset \in Nat
        /\ EEP_SIZE \in Nat
    BY GeometryAssumption DEF TypeOK, Completed, CallType, PartOfPage
  <2>2. /\ PlanKept(c) /\ c.offset = Total(c) /\ c.retval = c.offset
        /\ c.offset <= EEP_SIZE /\ c.retval \notin {EINVAL, EFAULT}
    BY <2>1 DEF WithinInv, Within, Ended
  <2>3. /\ current_pointer = c.start + c.offset /\ Programmed(c, eeprom, c.offset)
        /\ ~Torn(c)
    BY <2>1, <2>2 DEF ExactInv, Exact, Ended
  <2>4. c.retval = Written(c)
    <3>1. CASE c.count >= c.remain_in_page
      BY <2>1, <2>2, <3>1, PlanTotal DEF Written
    <3>2. CASE c.count < c.remain_in_page
      <4>1. c.remain_in_page \in 0 .. EEP_PAGE_SIZE - 1
        BY <2>1 DEF CallType, PartOfPage
      <4>2. WrappedPages \in Int
        BY <2>1, <3>2, <4>1, TotalWrapped, NbPageType
      <4>3. WrappedPages < 1 \/ WrappedPages >= 1
        BY <4>2
      <4>4. ~(Total(c) > EEP_SIZE)
        BY <2>1, <2>2
      <4>5. Total(c) = c.count + EEP_PAGE_SIZE
        BY <2>1, <2>2, <3>2, <4>3, <4>4, PlanTotal
      <4> QED BY <2>2, <3>2, <4>5 DEF Written
    <3> QED BY <2>1, <3>1, <3>2
  <2>5. c.start \in Nat /\ c.start + c.count <= EEP_SIZE
    BY <2>2 DEF PlanKept
  <2>6. ASSUME NEW k \in 0 .. c.count - 1 PROVE eeprom[c.start + k] = c.payload[k]
    <3>1. c.offset >= c.count
      BY <2>1, <2>2, <2>4, GeometryAssumption DEF Written
    <3>2. k \in 0 .. c.offset - 1 /\ k < c.count
      BY <2>1, <3>1
    <3> QED BY <2>3, <3>2 DEF Programmed
  <2>7. ASSUME c.count >= c.remain_in_page,
               NEW a \in Addr \ (c.start .. c.start + c.count - 1)
        PROVE  eeprom[a] = c.before[a]
    <3>1. c.offset = c.count
      BY <2>1, <2>2, <2>7, PlanTotal
    <3>2. a \notin Span(c, c.offset)
      BY <2>1, <2>5, <2>7, <3>1, SpanOnChip
    <3>3. a \notin Touched(c, c.offset)
      BY <2>3, <3>2 DEF Touched
    <3> QED BY <2>1, <2>2, <3>3 DEF WriteFootprint
  <2> QED BY <2>2, <2>3, <2>4, <2>6, <2>7
<1> QED BY <1>1, TypeCorrect, WithinHolds, ExactHolds, FootprintCorrect, PTL

(* When a transacWrite fails, the cursor counts the chunks before it, and  *)
(* they are on the chip.                                                   *)
THEOREM FailedWriteCorrect == Spec => []FailedWriteAccounting
<1>1. ExactInv => FailedWriteAccounting
  <2> SUFFICES ASSUME ExactInv, NEW p \in Procs, pc[p] = "end",
                      call[p].op = "write", call[p].retval = -1, ~shared,
                      NEW c, c = call[p]
               PROVE  /\ current_pointer = c.start + c.offset
                      /\ \A k \in 0 .. c.offset - 1 : k < c.count =>
                           eeprom[c.start + k] = c.payload[k]
    BY DEF FailedWriteAccounting
  <2>1. c.retval \notin {EINVAL, EFAULT}
    BY DEF EINVAL, EFAULT
  <2> QED BY <2>1 DEF ExactInv, Exact, Ended, Programmed
<1> QED BY <1>1, ExactHolds, PTL

(* A completed read by the only user returns what is on the chip from the  *)
(* old cursor on, and counts it.                                           *)
THEOREM ReadCorrect == Spec => []ReadDelivers
<1>1. ExactInv => ReadDelivers
  <2> SUFFICES ASSUME ExactInv, NEW p \in Procs, Completed(p, "read"), ~shared,
                      call[p].retval > 0, call[p].count < EEP_SIZE, NEW c, c = call[p]
               PROVE  /\ current_pointer = c.start + c.retval
                      /\ current_pointer <= EEP_SIZE
                      /\ \A k \in 0 .. c.retval - 1 :
                           mem[data][k] = eeprom[c.start + k]
    BY DEF ReadDelivers
  <2> QED BY DEF ExactInv, Exact, Ended, Completed, Delivered
<1> QED BY <1>1, ExactHolds, PTL

=============================================================================
