---------------------------- MODULE PcMemoryProofs ----------------------------
(***************************************************************************)
(* The page allocator for pages of any size and any machines: what is free *)
(* is spare, what is used is accounted for, and clients' memory is theirs. *)
(***************************************************************************)
EXTENDS PcMemory, WellFoundedInduction, TLAPS

-----------------------------------------------------------------------------
(* Pages and bytes.                                                        *)

\* Multiples of the page size.
LEMMA Multiples ==
  ASSUME NEW a \in Int, NEW b \in Int, a <= b
  PROVE  a * PageSize <= b * PageSize
BY PageAssumption, SMTT(30)

\* The next multiple.
LEMMA Succ ==
  ASSUME NEW a \in Int PROVE (a + 1) * PageSize = a * PageSize + PageSize
BY PageAssumption, SMTT(30)

\* The page a byte is in.
LEMMA InPage ==
  ASSUME NEW x \in Nat
  PROVE  /\ PageDown(x) \in Nat
         /\ PageDown(x) * PageSize <= x /\ x < PageDown(x) * PageSize + PageSize
BY PageAssumption, SMTT(30) DEF PageDown

\* It is in no other.
LEMMA OnlyPage ==
  ASSUME NEW x \in Nat, NEW p \in Int, p * PageSize <= x, x < p * PageSize + PageSize
  PROVE  PageDown(x) = p
<1> DEFINE q == PageDown(x)
<1>1. q \in Nat /\ q * PageSize <= x /\ x < q * PageSize + PageSize
  BY InPage
<1>2. (p + 1) * PageSize = p * PageSize + PageSize /\ (q + 1) * PageSize = q * PageSize + PageSize
  BY Succ, <1>1
<1>3. p * PageSize \in Int /\ q * PageSize \in Int /\ PageSize \in Nat
  BY <1>1, PageAssumption
<1>4. CASE p < q
  <2>1. (p + 1) * PageSize <= q * PageSize
    BY <1>1, <1>4, Multiples
  <2> QED BY <1>1, <1>2, <1>3, <2>1
<1>5. CASE q < p
  <2>1. (q + 1) * PageSize <= p * PageSize
    BY <1>1, <1>5, Multiples
  <2> QED BY <1>1, <1>2, <1>3, <2>1
<1> QED BY <1>1, <1>4, <1>5

\* Rounding up.
LEMMA UpPage ==
  ASSUME NEW x \in Nat
  PROVE  /\ PageUp(x) \in Nat
         /\ x <= PageUp(x) * PageSize /\ PageUp(x) * PageSize < x + PageSize
         /\ PageDown(x) <= PageUp(x)
<1>1. x + PageSize - 1 \in Nat /\ PageUp(x) = PageDown(x + PageSize - 1)
  BY PageAssumption DEF PageUp, PageDown
<1>2. /\ PageUp(x) \in Nat /\ PageUp(x) * PageSize <= x + PageSize - 1
      /\ x + PageSize - 1 < PageUp(x) * PageSize + PageSize
  BY <1>1, InPage
<1>3. PageUp(x) * PageSize \in Int /\ PageSize \in Nat
  BY <1>2, PageAssumption
<1>4. PageDown(x) <= PageUp(x)
  <2>1. SUFFICES ASSUME PageUp(x) + 1 <= PageDown(x) PROVE FALSE
    BY <1>2, InPage
  <2>2. (PageUp(x) + 1) * PageSize <= PageDown(x) * PageSize
    BY <2>1, <1>2, InPage, Multiples
  <2>3. PageDown(x) * PageSize <= x /\ PageDown(x) * PageSize \in Int
    BY InPage, PageAssumption
  <2> QED BY <1>2, <1>3, <2>2, <2>3, Succ
<1> QED BY <1>2, <1>3, <1>4

\* A multiple of the page size is the first byte of a page.
LEMMA FirstByte ==
  ASSUME NEW p \in Nat
  PROVE  p * PageSize \in Nat /\ PageDown(p * PageSize) = p
<1>1. p * PageSize \in Nat /\ PageSize \in Nat \ {0}
  BY PageAssumption
<1> QED BY <1>1, OnlyPage

\* The bytes of a page are those whose page it is.
LEMMA BytesOfPage ==
  ASSUME NEW p \in Nat, NEW x \in PageBytes(p)
  PROVE  x \in Nat /\ PageDown(x) = p
<1>1. p * PageSize \in Nat /\ (p + 1) * PageSize = p * PageSize + PageSize /\ PageSize \in Nat
  BY FirstByte, Succ, PageAssumption
<1>2. x \in Nat /\ p * PageSize <= x /\ x < p * PageSize + PageSize
  BY <1>1 DEF PageBytes
<1> QED BY <1>2, OnlyPage

\* The pages of n bytes at address a.
PagesAt(a, n) == PageDown(a) .. PageUp(a + n) - 1

\* Every byte is in one of them.
LEMMA BytesInPages ==
  ASSUME NEW a \in Nat, NEW n \in Nat, NEW x \in a .. a + n - 1
  PROVE  PageDown(x) \in PagesAt(a, n)
<1>1. x \in Nat /\ a <= x /\ x < a + n /\ a + n \in Nat /\ PageSize \in Nat
  BY PageAssumption
<1>2. PageDown(a) <= PageDown(x)
  <2>1. SUFFICES ASSUME PageDown(x) + 1 <= PageDown(a) PROVE FALSE
    BY <1>1, InPage
  <2>2. (PageDown(x) + 1) * PageSize <= PageDown(a) * PageSize
    BY <1>1, <2>1, InPage, Multiples
  <2>3. (PageDown(x) + 1) * PageSize = PageDown(x) * PageSize + PageSize
    BY <1>1, InPage, Succ
  <2>4. PageDown(a) * PageSize <= a /\ x < PageDown(x) * PageSize + PageSize
    BY <1>1, InPage
  <2>5. PageDown(a) * PageSize \in Int /\ PageDown(x) * PageSize \in Int
    BY <1>1, InPage
  <2> QED BY <1>1, <2>2, <2>3, <2>4, <2>5
<1>3. PageDown(x) < PageUp(a + n)
  <2>1. SUFFICES ASSUME PageUp(a + n) <= PageDown(x) PROVE FALSE
    BY <1>1, InPage, UpPage
  <2>2. PageUp(a + n) * PageSize <= PageDown(x) * PageSize
    <3>1. PageUp(a + n) \in Int /\ PageDown(x) \in Int
      BY <1>1, InPage, UpPage
    <3> QED BY <2>1, <3>1, Multiples
  <2>3. a + n <= PageUp(a + n) * PageSize /\ PageDown(x) * PageSize <= x
    BY <1>1, InPage, UpPage
  <2>4. PageUp(a + n) * PageSize \in Int /\ PageDown(x) * PageSize \in Int
    BY <1>1, InPage, UpPage
  <2> QED BY <1>1, <2>2, <2>3, <2>4
<1> QED BY <1>1, <1>2, <1>3, InPage, UpPage DEF PagesAt

\* Every one of them has such a byte.
LEMMA PagesHaveBytes ==
  ASSUME NEW a \in Nat, NEW n \in Nat \ {0}, NEW p \in PagesAt(a, n)
  PROVE  p \in Nat /\ PageBytes(p) \cap (a .. a + n - 1) # {}
<1>1. a + n \in Nat /\ PageSize \in Nat \ {0}
  BY PageAssumption
<1>2. p \in Nat /\ PageDown(a) <= p /\ p + 1 <= PageUp(a + n)
  BY <1>1, InPage, UpPage DEF PagesAt
<1>3. p * PageSize \in Nat /\ (p + 1) * PageSize = p * PageSize + PageSize
  BY <1>2, FirstByte, Succ
<1>4. CASE p = PageDown(a)
  <2>1. a \in PageBytes(p)
    <3>1. p * PageSize <= a /\ a < p * PageSize + PageSize
      BY <1>4, InPage
    <3> QED BY <1>1, <1>3, <3>1 DEF PageBytes
  <2>2. a \in a .. a + n - 1
    OBVIOUS
  <2> QED BY <1>2, <2>1, <2>2
<1>5. CASE p # PageDown(a)
  <2>1. a < p * PageSize
    <3>1. (PageDown(a) + 1) * PageSize <= p * PageSize
      BY <1>2, <1>5, InPage, Multiples
    <3>2. (PageDown(a) + 1) * PageSize = PageDown(a) * PageSize + PageSize
      BY InPage, Succ
    <3>3. a < PageDown(a) * PageSize + PageSize /\ PageDown(a) * PageSize \in Int
      BY <1>1, InPage
    <3> QED BY <1>1, <1>3, <3>1, <3>2, <3>3
  <2>2. p * PageSize < a + n
    <3>1. (p + 1) * PageSize <= PageUp(a + n) * PageSize
      <4>1. p + 1 \in Int /\ PageUp(a + n) \in Int
        BY <1>1, <1>2, UpPage
      <4> QED BY <1>2, <4>1, Multiples
    <3>2. PageUp(a + n) * PageSize < a + n + PageSize /\ PageUp(a + n) * PageSize \in Int
      BY <1>1, UpPage
    <3> QED BY <1>1, <1>3, <3>1, <3>2
  <2>3. p * PageSize \in PageBytes(p)
    BY <1>1, <1>3 DEF PageBytes
  <2>4. p * PageSize \in a .. a + n - 1
    BY <1>3, <2>1, <2>2
  <2> QED BY <1>2, <2>3, <2>4
<1> QED BY <1>4, <1>5

\* A page meets n bytes at a if and only if it is one of theirs.
LEMMA Meets ==
  ASSUME NEW a \in Nat, NEW n \in Nat, NEW p \in Nat,
         PageBytes(p) \cap (a .. a + n - 1) # {}
  PROVE  p \in PagesAt(a, n)
<1>1. PICK x \in PageBytes(p) : x \in a .. a + n - 1
  OBVIOUS
<1> QED BY <1>1, BytesOfPage, BytesInPages

\* Whole pages.
LEMMA UpMultiple ==
  ASSUME NEW q \in Nat PROVE PageUp(q * PageSize) = q
<1>1. q * PageSize \in Nat /\ PageSize \in Nat \ {0}
  BY FirstByte, PageAssumption
<1> DEFINE u == PageUp(q * PageSize)
<1>2. u \in Nat /\ q * PageSize <= u * PageSize /\ u * PageSize < q * PageSize + PageSize
  BY <1>1, UpPage
<1>3. u * PageSize \in Nat
  BY <1>2, FirstByte
<1> HIDE DEF u
<1>4. PageDown(u * PageSize) = q
  BY <1>2, <1>3, OnlyPage
<1>5. u = q
  BY <1>2, <1>4, FirstByte
<1> QED BY <1>5 DEF u

\* A page at a page.
LEMMA OnePage ==
  ASSUME NEW p \in Nat PROVE PagesAt(p * PageSize, PageSize) = {p}
<1>1. p * PageSize + PageSize = (p + 1) * PageSize
  BY Succ
<1>2. PageUp(p * PageSize + PageSize) = p + 1
  BY <1>1, UpMultiple
<1> QED BY <1>2, FirstByte DEF PagesAt

-----------------------------------------------------------------------------
(* Ranges, and the pages found for a size.                                 *)

\* What physFreeRange frees is in the range, but for its first page.
LEMMA RangeFreedIsMemory ==
  ASSUME NEW r, r.base \in Nat, r.length \in Nat, NEW c \in Int,
         NEW p \in RangeFreed(c, r.base, r.length)
  PROVE  p \in Nat /\ PageBytes(p) \subseteq FromItsPage(r)
<1>1. r.base + r.length \in Nat /\ PageSize \in Nat \ {0}
  BY PageAssumption
<1>2. p \in Nat /\ PageDown(r.base) <= p /\ p + 1 <= PageDown(r.base + r.length)
  BY <1>1, InPage DEF RangeFreed
<1>3. PageDown(r.base) * PageSize <= p * PageSize
  BY <1>2, InPage, Multiples
<1>4. (p + 1) * PageSize <= r.base + r.length
  <2>1. PageDown(r.base + r.length) \in Nat
    BY <1>1, InPage
  <2>2. (p + 1) * PageSize <= PageDown(r.base + r.length) * PageSize
    BY <1>2, <2>1, Multiples
  <2>3. PageDown(r.base + r.length) * PageSize <= r.base + r.length
    BY <1>1, InPage
  <2>4. PageDown(r.base + r.length) * PageSize \in Int /\ (p + 1) * PageSize \in Int
    BY <1>2, <2>1, FirstByte
  <2> QED BY <1>1, <2>2, <2>3, <2>4
<1>5. /\ p * PageSize \in Int /\ (p + 1) * PageSize \in Int
      /\ PageDown(r.base) * PageSize \in Int
  BY <1>2, InPage, FirstByte
<1>6. ASSUME NEW x \in PageBytes(p) PROVE x \in FromItsPage(r)
  <2>1. x \in Int /\ p * PageSize <= x /\ x < (p + 1) * PageSize
    BY <1>5 DEF PageBytes
  <2> QED BY <1>1, <1>3, <1>4, <1>5, <2>1 DEF FromItsPage
<1> QED BY <1>2, <1>6

\* What physAllocRange takes, if the range is valid.
LEMMA RangeIsPages ==
  ASSUME NEW a \in Nat, NEW n \in Nat, NEW c \in Int
  PROVE  /\ RangeTaken(c, a, n) \subseteq 0 .. c - 1
         /\ RangeTaken(c, a, n) # {} => RangeTaken(c, a, n) = PagesAt(a, n)
         /\ PageUp(a + n) < c => RangeTaken(c, a, n) = PagesAt(a, n)
<1>1. /\ PageDown(a) \in Nat /\ PageUp(a + n) \in Nat
  BY InPage, UpPage
<1>2. PageDown(a) <= PageUp(a + n)
  <2>1. CASE n = 0
    BY <2>1, UpPage
  <2>2. CASE n # 0
    <3>1. a \in a .. a + n - 1
      BY <2>2
    <3>2. PageDown(a) \in PagesAt(a, n)
      BY <3>1, BytesInPages
    <3> QED BY <1>1, <3>2 DEF PagesAt
  <2> QED BY <2>1, <2>2
<1> QED BY <1>1, <1>2 DEF RangeTaken, PagesAt

\* The pages physAllocSize looks for are all that it takes.
Need(n) == Max({1, n \div PageSize})

\* They suffice for whole pages and for less than one.
LEMMA NeedIsEnough ==
  ASSUME NEW n \in Sizes, NEW p \in Nat
  PROVE  n \in Nat \ {0} /\ Need(n) \in Nat \ {0} /\ PageUp(p * PageSize + n) <= p + Need(n)
<1>1. PageSize \in Nat \ {0} /\ n \in Nat \ {0} /\ (n % PageSize = 0 \/ n < PageSize)
  BY PageAssumption
<1> DEFINE k == n \div PageSize
<1>2. k \in Nat /\ k = PageDown(n)
  BY <1>1, InPage DEF PageDown
<1>3. Need(n) \in {1, k} /\ Need(n) >= 1 /\ Need(n) >= k
  <2>1. \E x \in {1, k} : \A y \in {1, k} : x >= y
    BY <1>2
  <2> QED BY <2>1 DEF Need, Max
<1>4. p * PageSize \in Nat /\ (p + 1) * PageSize = p * PageSize + PageSize
  BY FirstByte, Succ
<1>5. CASE n < PageSize
  <2>1. /\ PageUp(p * PageSize + n) \in Nat
        /\ PageUp(p * PageSize + n) * PageSize < p * PageSize + n + PageSize
    <3>1. p * PageSize + n \in Nat
      BY <1>1, <1>4
    <3> QED BY <3>1, UpPage
  <2>2. (p + 2) * PageSize = p * PageSize + PageSize + PageSize
    <3>1. ((p + 1) + 1) * PageSize = (p + 1) * PageSize + PageSize
      BY Succ
    <3>2. (p + 1) + 1 = p + 2
      OBVIOUS
    <3> QED BY <1>4, <3>1, <3>2
  <2>3. PageUp(p * PageSize + n) <= p + 1
    <3>1. SUFFICES ASSUME p + 2 <= PageUp(p * PageSize + n) PROVE FALSE
      BY <2>1
    <3>2. (p + 2) * PageSize <= PageUp(p * PageSize + n) * PageSize
      BY <2>1, <3>1, Multiples
    <3>3. PageUp(p * PageSize + n) * PageSize \in Nat
      BY <2>1, FirstByte
    <3> QED BY <1>1, <1>4, <1>5, <2>1, <2>2, <3>2, <3>3
  <2> QED BY <1>1, <1>2, <1>3, <2>1, <2>3
<1>6. CASE n % PageSize = 0
  <2>1. n = k * PageSize
    <3>1. \A x \in Nat, q \in Nat \ {0} : x % q = 0 => x = (x \div q) * q
      BY SMTT(30)
    <3> QED BY <1>1, <1>6, <3>1
  <2>2. p * PageSize + n = (p + k) * PageSize
    <3>1. \A x, y, q \in Nat : x * q + y * q = (x + y) * q
      BY SMTT(30)
    <3> QED BY <1>1, <1>2, <2>1, <3>1
  <2>3. PageUp(p * PageSize + n) = p + k
    BY <1>2, <2>2, UpMultiple
  <2> QED BY <1>1, <1>2, <1>3, <2>3
<1> QED BY <1>1, <1>5, <1>6

\* A set of page numbers that is not empty has a first one.
LEMMA FirstPage ==
  ASSUME NEW S \in SUBSET Nat, S # {}
  PROVE  Min(S) \in S
<1>1. PICK n \in S : \A m \in S : <<m, n>> \notin OpToRel(<, Nat)
  BY NatLessThanWellFounded, WFMin
<1>2. ASSUME NEW m \in S PROVE n <= m
  <2>1. <<m, n>> \in Nat \X Nat
    OBVIOUS
  <2>2. ~(m < n)
    BY <1>1, <2>1 DEF OpToRel
  <2> QED BY <2>2
<1> QED BY <1>2 DEF Min

-----------------------------------------------------------------------------
(* The invariant: clients have whole pages, no two the same, that were     *)
(* free when the kernel had started, and they account for what is used.    *)

Block(a) == PagesAt(a, live[a])

\* A block is at a page, and has a size that clients ask for.
BlockFits(a) ==
  /\ PageDown(a) \in Nat /\ a = PageDown(a) * PageSize
  /\ live[a] \in Sizes \cup {PageSize}
  /\ Block(a) \subseteq (0 .. Count - 1) \ Booted(machine)

MemInv ==
  /\ machine \in Machines
  /\ \A a \in DOMAIN live : BlockFits(a)
  /\ \A a, b \in DOMAIN live : a # b => Block(a) \cap Block(b) = {}
  /\ used = Booted(machine) \cup UNION {Block(a) : a \in DOMAIN live}

\* Machines and sizes.
LEMMA MachineFacts ==
  ASSUME NEW m \in Machines
  PROVE  /\ Top(m) \in Nat /\ PageCount(m) \in Nat /\ PageCount(m) > LowPages
         /\ LowPages \in Nat \ {0} /\ PageCount(m) * PageSize <= Top(m)
         /\ 0 \in Booted(m)
<1>1. /\ Top(m) \in Nat /\ PageCount(m) > LowPages /\ LowPages \in Nat \ {0}
      /\ PageSize \in Nat \ {0}
  BY MachineAssumption, PageAssumption
<1>2. PageCount(m) \in Nat /\ PageCount(m) * PageSize <= Top(m)
  BY <1>1, InPage DEF PageCount
<1> DEFINE r == [base |-> 0, length |-> PageSize]
<1>3. r \in Occupied(m) /\ r.base = 0 /\ r.length = PageSize
  BY DEF Occupied
<1>4. RangeTaken(PageCount(m), 0, PageSize) = PagesAt(0, PageSize)
  <2>1. PageUp(0 + PageSize) < PageCount(m)
    BY <1>3, MachineAssumption
  <2> QED BY <1>1, <1>2, <2>1, RangeIsPages
<1>5. 0 \in PagesAt(0, PageSize)
  <2>1. 0 * PageSize = 0
    BY <1>1
  <2> QED BY <2>1, OnePage
<1>6. 0 \in PagesTaken(m)
  BY <1>3, <1>4, <1>5 DEF PagesTaken
<1> QED BY <1>1, <1>2, <1>6 DEF Booted

\* Blocks have bytes, and the pages of their bytes.
LEMMA BlockFacts ==
  ASSUME MemInv, NEW a \in DOMAIN live
  PROVE  /\ a \in Nat /\ live[a] \in Nat \ {0} /\ PageDown(a) \in Block(a)
         /\ \A p \in Nat : PageBytes(p) \cap (a .. a + live[a] - 1) # {} <=> p \in Block(a)
<1>1. a \in Nat /\ live[a] \in Nat \ {0}
  BY FirstByte, PageAssumption DEF MemInv, BlockFits
<1>2. a \in a .. a + live[a] - 1
  BY <1>1
<1>3. PageDown(a) \in Block(a)
  BY <1>1, <1>2, BytesInPages DEF Block
<1> QED BY <1>1, <1>3, Meets, PagesHaveBytes DEF Block

\* Bytes in pages that were free when the kernel had started are in memory.
LEMMA InMemory ==
  ASSUME NEW m \in Machines, NEW a \in Nat, NEW n \in Nat,
         PagesAt(a, n) \subseteq (0 .. PageCount(m) - 1) \ Booted(m)
  PROVE  a .. a + n - 1 \subseteq PageSize .. Top(m) - 1
<1> SUFFICES ASSUME NEW x \in a .. a + n - 1 PROVE x \in PageSize .. Top(m) - 1
  OBVIOUS
<1> DEFINE q == PageDown(x)
<1> DEFINE c == PageCount(m)
<1>1. x \in Nat /\ q \in PagesAt(a, n)
  BY BytesInPages
<1>2. q \in Nat \ {0} /\ c \in Nat /\ q + 1 <= c
  BY <1>1, InPage, MachineFacts
<1>3. 1 * PageSize <= q * PageSize
  BY <1>2, Multiples
<1>4. (q + 1) * PageSize <= c * PageSize
  BY <1>2, Multiples
<1>5. (q + 1) * PageSize = q * PageSize + PageSize
  BY <1>2, Succ
<1>6. q * PageSize <= x /\ x < q * PageSize + PageSize
  BY <1>1, InPage
<1>7. c * PageSize <= Top(m) /\ Top(m) \in Nat /\ c * PageSize \in Nat
  BY <1>2, MachineFacts, FirstByte
<1>8. q * PageSize \in Nat /\ PageSize \in Nat \ {0} /\ 1 * PageSize = PageSize
  BY <1>2, FirstByte, PageAssumption
<1> QED BY <1>1, <1>3, <1>4, <1>5, <1>6, <1>7, <1>8

\* A client gets pages that are not used.
LEMMA PagesGot ==
  ASSUME MemInv, NEW p \in Nat, NEW n \in Sizes \cup {PageSize}, UNCHANGED machine,
         PagesAt(p * PageSize, n) \subseteq (0 .. Count - 1) \ used,
         used' = used \cup PagesAt(p * PageSize, n), Got(p * PageSize, n)
  PROVE  MemInv' /\ Promise!Alloc(p * PageSize, n)
<1> DEFINE a == p * PageSize
<1> DEFINE S == PagesAt(a, n)
<1>1. a \in Nat /\ PageDown(a) = p /\ n \in Nat \ {0}
  BY FirstByte, PageAssumption
<1>2. p \in S
  <2>1. a \in a .. a + n - 1
    BY <1>1
  <2> QED BY <1>1, <2>1, BytesInPages
<1>3. a \notin DOMAIN live
  <2>1. SUFFICES ASSUME a \in DOMAIN live PROVE FALSE
    OBVIOUS
  <2>2. p \in Block(a)
    BY <1>1, <2>1, BlockFacts
  <2> QED BY <1>2, <2>1, <2>2 DEF MemInv
<1>4. \A b \in DOMAIN live : Block(b) \cap S = {}
  BY DEF MemInv
<1>5. /\ DOMAIN live' = DOMAIN live \cup {a}
      /\ live'[a] = n /\ \A b \in DOMAIN live : live'[b] = live[b]
  BY <1>3 DEF Got
<1>6. Block(a)' = S /\ \A b \in DOMAIN live : Block(b)' = Block(b)
  BY <1>5 DEF Block, PagesAt
<1>7. BlockFits(a)'
  BY <1>1, <1>5, <1>6 DEF BlockFits, MemInv, Count
<1>8. ASSUME NEW b \in DOMAIN live PROVE BlockFits(b)'
  BY <1>5, <1>6 DEF BlockFits, MemInv, Count
<1>9. \A b, c \in DOMAIN live' : b # c => Block(b)' \cap Block(c)' = {}
  BY <1>4, <1>5, <1>6 DEF MemInv
<1>10. used' = Booted(machine) \cup UNION {Block(b)' : b \in DOMAIN live'}
  BY <1>5, <1>6 DEF MemInv
<1>11. MemInv'
  BY <1>5, <1>7, <1>8, <1>9, <1>10 DEF MemInv
<1>12. Promise!Bytes(a, n) \subseteq UNION {PageSize .. Top(m) - 1 : m \in Machines}
  BY <1>1, InMemory DEF MemInv, Promise!Bytes, Count
<1>13. ASSUME NEW b \in DOMAIN live
       PROVE  Promise!Bytes(a, n) \cap Promise!Bytes(b, live[b]) = {}
  <2>1. SUFFICES ASSUME NEW x \in a .. a + n - 1, x \in b .. b + live[b] - 1 PROVE FALSE
    BY DEF Promise!Bytes
  <2>2. b \in Nat /\ live[b] \in Nat
    BY BlockFacts
  <2>3. PageDown(x) \in S /\ PageDown(x) \in Block(b)
    BY <1>1, <2>1, <2>2, BytesInPages DEF Block
  <2> QED BY <1>4, <2>3
<1>14. Promise!Alloc(a, n)
  BY <1>12, <1>13 DEF Promise!Alloc, Got
<1> QED BY <1>11, <1>14

\* A client gives a page back.
LEMMA PageFreed ==
  ASSUME MemInv, NEW addr \in DOMAIN live, FreePage(addr)
  PROVE  MemInv' /\ Promise!Free(addr)
<1>1. Block(addr) = {PageDown(addr)}
  BY OnePage DEF FreePage, MemInv, BlockFits, Block
<1>2. /\ DOMAIN live' = DOMAIN live \ {addr}
      /\ \A b \in DOMAIN live' : live'[b] = live[b] /\ Block(b)' = Block(b)
  BY DEF FreePage, Block, PagesAt
<1>3. machine' = machine /\ used' = used \ {PageDown(addr)}
  BY DEF FreePage
<1>4. \A b \in DOMAIN live' : BlockFits(b)'
  BY <1>2, <1>3 DEF MemInv, BlockFits, Count
<1>5. \A b, c \in DOMAIN live' : b # c => Block(b)' \cap Block(c)' = {}
  BY <1>2 DEF MemInv
<1>6. used' = Booted(machine) \cup UNION {Block(b)' : b \in DOMAIN live'}
  <2>1. PageDown(addr) \notin Booted(machine)
    BY <1>1 DEF MemInv, BlockFits
  <2>2. \A b \in DOMAIN live' : PageDown(addr) \notin Block(b)
    BY <1>1, <1>2 DEF MemInv
  <2> QED BY <1>1, <1>2, <1>3, <2>1, <2>2 DEF MemInv
<1>7. MemInv'
  BY <1>3, <1>4, <1>5, <1>6 DEF MemInv
<1>8. Promise!Free(addr)
  BY DEF Promise!Free, FreePage
<1> QED BY <1>7, <1>8

\* A client gets a single page.
LEMMA PageTaken ==
  ASSUME MemInv, UNCHANGED machine, NEW from \in Nat, NEW to \in Nat, to <= Count,
         FreeIn(from, to) # {}, TakePage(Min(FreeIn(from, to)))
  PROVE  MemInv' /\ \E a \in Nat, n \in Sizes \cup {PageSize} : Promise!Alloc(a, n)
<1> DEFINE p == Min(FreeIn(from, to))
<1>1. Count \in Nat
  BY MachineFacts DEF MemInv, Count
<1>2. FreeIn(from, to) \subseteq Nat /\ FreeIn(from, to) \subseteq (0 .. Count - 1) \ used
  BY <1>1 DEF FreeIn
<1>3. p \in Nat /\ p \in (0 .. Count - 1) \ used
  BY <1>2, FirstPage
<1>4. /\ used' = used \cup {p} /\ Got(p * PageSize, PageSize)
  BY DEF TakePage
<1>5. PagesAt(p * PageSize, PageSize) = {p}
  BY <1>3, OnePage
<1> HIDE DEF p
<1>6. MemInv' /\ Promise!Alloc(p * PageSize, PageSize)
  BY <1>3, <1>4, <1>5, PagesGot
<1> QED BY <1>3, <1>6, FirstByte

\* A client gets the first run that is long enough.
LEMMA RunGot ==
  ASSUME MemInv, UNCHANGED machine, NEW n \in Sizes, NEW from \in Nat, NEW to \in Nat,
         to <= Count, NEW p \in RunTaken(n, from, to),
         used' = used \cup RangeTaken(Count, p * PageSize, n), Got(p * PageSize, n)
  PROVE  MemInv' /\ \E a \in Nat, k \in Sizes \cup {PageSize} : Promise!Alloc(a, k)
<1>1. Count \in Nat
  BY MachineFacts DEF MemInv, Count
<1>2. /\ Runs(n, from, to) # {} /\ p = Min(Runs(n, from, to))
      /\ RangeTaken(Count, p * PageSize, n) # {}
  BY DEF RunTaken
<1>3. Need(n) \in Nat \ {0} /\ n \in Nat \ {0}
  <2>1. 0 \in Nat
    OBVIOUS
  <2> QED BY <2>1, NeedIsEnough
<1>4. Runs(n, from, to) \subseteq Nat
  BY <1>3 DEF Runs, Need
<1>5. p \in Runs(n, from, to)
  BY <1>2, <1>4, FirstPage
<1>6. p \in Nat /\ \A q \in p .. p + Need(n) - 1 : q \notin used
  BY <1>4, <1>5 DEF Runs, Need
<1>7. PageUp(p * PageSize + n) <= p + Need(n) /\ p * PageSize \in Nat
  BY <1>6, NeedIsEnough, FirstByte
<1>8. /\ RangeTaken(Count, p * PageSize, n) = PagesAt(p * PageSize, n)
      /\ RangeTaken(Count, p * PageSize, n) \subseteq 0 .. Count - 1
  BY <1>1, <1>2, <1>3, <1>7, RangeIsPages
<1>9. PagesAt(p * PageSize, n) \subseteq p .. p + Need(n) - 1
  <2>1. p * PageSize + n \in Nat /\ PageDown(p * PageSize) = p
    BY <1>3, <1>6, FirstByte
  <2>2. PageUp(p * PageSize + n) \in Nat
    BY <2>1, UpPage
  <2> QED BY <1>3, <1>6, <1>7, <2>1, <2>2 DEF PagesAt
<1>10. PagesAt(p * PageSize, n) \subseteq (0 .. Count - 1) \ used
  BY <1>6, <1>8, <1>9
<1>11. MemInv' /\ Promise!Alloc(p * PageSize, n)
  BY <1>6, <1>8, <1>10, PagesGot
<1> QED BY <1>7, <1>11

-----------------------------------------------------------------------------
(* The theorems.                                                           *)

\* It holds when the kernel has started.
LEMMA MemoryInit == Init => MemInv
<1> SUFFICES ASSUME Init PROVE MemInv
  OBVIOUS
<1>1. machine \in Machines /\ used = Booted(machine) /\ DOMAIN live = {}
  BY DEF Init
<1> QED BY <1>1 DEF MemInv

\* A step of the allocator: a client gets something or gives something back.
Gets == \E a \in Nat, n \in Sizes \cup {PageSize} : Promise!Alloc(a, n)
Gives == \E a \in DOMAIN live : Promise!Free(a)

\* Every step keeps the invariant, and is one of those or leaves clients alone.
LEMMA MemoryStep ==
  ASSUME MemInv, [Next]_memory
  PROVE  MemInv' /\ (Gets \/ Gives \/ UNCHANGED live)
<1>1. Count \in Nat /\ LowPages \in Nat \ {0} /\ LowPages <= Count
  BY MachineFacts DEF MemInv, Count
<1>2. ASSUME UNCHANGED <<machine, used, live>> PROVE MemInv' /\ UNCHANGED live
  BY <1>2 DEF MemInv, BlockFits, Block, Count
<1>3. CASE AllocPageLower
  BY <1>1, <1>3, PageTaken DEF AllocPageLower, Gets
<1>4. CASE AllocPage
  <2>1. CASE FreeIn(LowPages, Count) # {}
    BY <1>1, <1>4, <2>1, PageTaken DEF AllocPage, Gets
  <2>2. CASE FreeIn(LowPages, Count) = {} /\ FreeIn(0, LowPages) # {}
    BY <1>1, <1>4, <2>2, PageTaken DEF AllocPage, Gets
  <2>3. CASE FreeIn(LowPages, Count) = {} /\ FreeIn(0, LowPages) = {}
    BY <1>2, <1>4, <2>3 DEF AllocPage, Panic
  <2> QED BY <2>1, <2>2, <2>3
<1>5. ASSUME NEW n \in Sizes, AllocSize(n) PROVE MemInv' /\ (Gets \/ UNCHANGED live)
  <2>1. CASE UNCHANGED <<machine, used, live>>
    BY <1>2, <2>1
  <2>2. ASSUME NEW p \in RunTaken(n, LowPages, Count) \cup RunTaken(n, 0, LowPages),
               used' = used \cup RangeTaken(Count, p * PageSize, n), Got(p * PageSize, n)
        PROVE  MemInv' /\ Gets
    BY <1>1, <1>5, <2>2, RunGot DEF AllocSize, Gets
  <2>3. \/ UNCHANGED <<machine, used, live>>
        \/ \E p \in RunTaken(n, LowPages, Count) \cup RunTaken(n, 0, LowPages) :
             used' = used \cup RangeTaken(Count, p * PageSize, n) /\ Got(p * PageSize, n)
    BY <1>5 DEF AllocSize, Panic
  <2> QED BY <2>1, <2>2, <2>3
<1>6. ASSUME NEW addr \in DOMAIN live, FreePage(addr) PROVE MemInv' /\ Gives
  BY <1>6, PageFreed DEF Gives
<1>7. CASE UNCHANGED memory
  BY <1>2, <1>7 DEF memory
<1> QED BY <1>3, <1>4, <1>5, <1>6, <1>7 DEF Next

\* The invariant of the page allocator.
THEOREM MemoryInvariance == Spec => []MemInv
<1>1. MemInv /\ [Next]_memory => MemInv'
  BY MemoryStep
<1> QED BY <1>1, MemoryInit, PTL DEF Spec

\* A page is used exactly if it was when the kernel had started or a client has
\* it, for any machine and pages of any size.
THEOREM NothingLost == Spec => []UsedIsAccountedFor
<1>1. ASSUME MemInv PROVE UsedIsAccountedFor
  <2>1. Count \in Nat
    BY <1>1, MachineFacts DEF MemInv, Count
  <2>2. ASSUME NEW p \in used, p \notin Booted(machine)
        PROVE  p \in 0 .. Count - 1
               /\ \E a \in DOMAIN live : PageBytes(p) \cap (a .. a + live[a] - 1) # {}
    <3>1. PICK a \in DOMAIN live : p \in Block(a)
      BY <1>1, <2>2 DEF MemInv
    <3>2. p \in 0 .. Count - 1
      BY <1>1, <3>1 DEF MemInv, BlockFits
    <3>3. p \in Nat
      BY <2>1, <3>2
    <3> QED BY <1>1, <3>1, <3>2, <3>3, BlockFacts
  <2>3. ASSUME NEW p \in 0 .. Count - 1, NEW a \in DOMAIN live,
               PageBytes(p) \cap (a .. a + live[a] - 1) # {}
        PROVE  p \in used
    <3>1. p \in Block(a)
      BY <1>1, <2>1, <2>3, BlockFacts
    <3> QED BY <1>1, <3>1 DEF MemInv
  <2> QED BY <1>1, <2>2, <2>3 DEF UsedIsAccountedFor, MemInv
<1> QED BY <1>1, MemoryInvariance, PTL

\* A page that is marked free is memory, and nobody's, for any machine and pages
\* of any size.
THEOREM FreePagesAreSpare == Spec => []FreeIsSpare
<1>1. ASSUME MemInv PROVE FreeIsSpare
  <2> SUFFICES ASSUME NEW p \in 0 .. Count - 1, p \notin used
               PROVE  /\ PageBytes(p) \subseteq UNION {FromItsPage(r) : r \in Available(machine)}
                      /\ \A r \in Occupied(machine) : PageBytes(p) \cap BytesOf(r) = {}
                      /\ \A a \in DOMAIN live : PageBytes(p) \cap (a .. a + live[a] - 1) = {}
    BY DEF FreeIsSpare
  <2>1. /\ machine \in Machines /\ Count \in Nat /\ p \in Nat
        /\ p \notin Booted(machine) /\ \A a \in DOMAIN live : p \notin Block(a)
    BY <1>1, MachineFacts DEF MemInv, Count
  <2>2. PageBytes(p) \subseteq UNION {FromItsPage(r) : r \in Available(machine)}
    <3>1. p \in PagesFreed(machine)
      BY <2>1 DEF Booted, Count
    <3>2. PICK r \in Available(machine) : p \in RangeFreed(Count, r.base, r.length)
      BY <3>1 DEF PagesFreed, Count
    <3>3. r.base \in Nat /\ r.length \in Nat
      BY <2>1, MachineAssumption
    <3>4. PageBytes(p) \subseteq FromItsPage(r)
      BY <2>1, <3>2, <3>3, RangeFreedIsMemory
    <3> QED BY <3>4
  <2>3. ASSUME NEW r \in Occupied(machine) PROVE PageBytes(p) \cap BytesOf(r) = {}
    <3>1. /\ r.base \in Nat /\ r.length \in Nat /\ PageUp(r.base + r.length) < Count
      BY <2>1, MachineAssumption DEF Count
    <3>2. RangeTaken(Count, r.base, r.length) = PagesAt(r.base, r.length)
      BY <2>1, <3>1, RangeIsPages
    <3>3. p \notin PagesAt(r.base, r.length)
      BY <2>1, <3>2 DEF Booted, PagesTaken, Count
    <3> QED BY <2>1, <3>1, <3>3, Meets DEF BytesOf
  <2>4. \A a \in DOMAIN live : PageBytes(p) \cap (a .. a + live[a] - 1) = {}
    BY <1>1, <2>1, BlockFacts
  <2> QED BY <2>2, <2>3, <2>4
<1> QED BY <1>1, MemoryInvariance, PTL

\* The page allocator implements Allocator: nobody gets what another has.
THEOREM PagesImplementAllocator == Spec => ImplementsAllocator
<1> DEFINE H == UNION {PageSize .. Top(m) - 1 : m \in Machines}
<1>1. Init => Promise!AInit
  BY DEF Init, Promise!AInit
<1>2. ASSUME MemInv, [Next]_memory PROVE [Promise!ANext]_live
  <2>1. ASSUME NEW a \in Nat, NEW n \in Sizes \cup {PageSize}, Promise!Alloc(a, n)
        PROVE  Promise!ANext
    <3>1. n \in Nat \ {0} /\ a \in Promise!Bytes(a, n)
      BY PageAssumption DEF Promise!Bytes
    <3>2. a \in H
      BY <2>1, <3>1 DEF Promise!Alloc
    <3> QED BY <2>1, <3>2 DEF Promise!ANext
  <2>2. ASSUME NEW a \in DOMAIN live, Promise!Free(a) PROVE Promise!ANext
    <3>1. a \in Nat /\ live[a] \in Nat \ {0} /\ machine \in Machines
      BY <1>2, BlockFacts DEF MemInv
    <3>2. a .. a + live[a] - 1 \subseteq PageSize .. Top(machine) - 1
      BY <1>2, <3>1, InMemory DEF MemInv, BlockFits, Block, Count
    <3>3. a \in H
      BY <3>1, <3>2
    <3> QED BY <2>2, <3>3 DEF Promise!ANext
  <2> QED BY <1>2, <2>1, <2>2, MemoryStep DEF Gets, Gives
<1> QED BY <1>1, <1>2, MemoryInvariance, PTL DEF Spec, ImplementsAllocator, Promise!ASpec
===============================================================================
