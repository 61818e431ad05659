------------------------------ MODULE HeapProofs ------------------------------
(***************************************************************************)
(* kmalloc and kfree keep the promise of Allocator for every heap, every   *)
(* set of requests and any number of threads, until two calls of kmalloc   *)
(* clash: what the theorems say then is that nothing else can go wrong.    *)
(***************************************************************************)
EXTENDS Heap, TLAPS

\* Where the chain ends and what is there before the first call.
Ends ==
  /\ ~initialized => /\ last = 0 /\ current = HeapStart
                     /\ DOMAIN block = {} /\ DOMAIN live = {}
                     /\ \A t \in Threads : At(t, "client")
  /\ initialized => HeapStart <= last /\ (last - HeapStart) % 16 = 0
  /\ \A a \in DOMAIN block : HeapStart <= a /\ a + block[a].size <= last

\* The memory that sbrk gave t is not yet part of the chain.
Pending(t) == At(t, "attach") \/ At(t, "extend")

\* Between the chain and the program break there is room for every block about
\* to be attached.  Their order says nothing of who attaches first, so which
\* slot is whose is only known to exist.
Fits(slot) ==
  /\ \A t \in Threads : Pending(t) =>
       last <= slot[t] /\ slot[t] + call[t].size <= current
  /\ \A t, u \in Threads : Pending(t) /\ Pending(u) /\ t # u =>
       slot[t] + call[t].size <= slot[u] \/ slot[u] + call[u].size <= slot[t]
Room == \E slot \in [Threads -> Nat] : Fits(slot)

\* What a call of kmalloc knows at each place.
KnownOf(t) ==
  /\ ~At(t, "client") => /\ call[t].request \in Requests \ {0}
                         /\ call[t].size = WholeBlock(call[t].request)
  /\ At(t, "search") => /\ call[t].at \in DOMAIN block \cup {last}
                        /\ \A a \in call[t].fits : call[t].at <= a
  /\ At(t, "found") => /\ call[t].at \in DOMAIN block
                       /\ call[t].size <= block[call[t].at].size
  /\ At(t, "extend") => (call[t].at - HeapStart) % 16 = 0
  /\ At(t, "header") => /\ call[t].at \in DOMAIN block
                        /\ ~block[call[t].at].is_available
                        /\ block[call[t].at].size = call[t].size
                        /\ Payload(call[t].at) \notin DOMAIN live
  /\ \A a \in call[t].fits : Suitable(block[a], call[t].size)
  /\ ~At(t, "search") /\ ~At(t, "found") => call[t].fits = {}

Known == \A t \in Threads : KnownOf(t)

\* No two threads write the same control block.
OwnHeader ==
  \A t, u \in Threads : At(t, "header") /\ At(u, "header") /\ t # u =>
    call[t].at # call[u].at

\* A block in use is marked so and large enough.
Covered ==
  \A p \in DOMAIN live :
    /\ p - mcbSize \in DOMAIN block
    /\ ~block[p - mcbSize].is_available
    /\ WholeBlock(live[p]) <= block[p - mcbSize].size

\* The inductive invariant: after a clash only the types are left.
HInv ==
  /\ HTypeOK /\ NoFitMissed
  /\ ~clashed => Tiled /\ Ends /\ Room /\ Known /\ OwnHeader /\ Covered

\* A block has room for the request and its header, in whole units.
LEMMA WholeBlockFits ==
  ASSUME NEW n \in Nat
  PROVE  /\ WholeBlock(n) \in Nat \ {0}
         /\ n + mcbSize <= WholeBlock(n)
         /\ WholeBlock(n) % 16 = 0
BY DEF WholeBlock, mcbSize

LEMMA InitHolds == Init => HInv
<1> SUFFICES ASSUME Init PROVE HInv
  OBVIOUS
<1>1. HTypeOK
  <2>1. DOMAIN block = {} /\ DOMAIN live = {}
    BY DEF Init
  <2>2. block \in Blocks(DOMAIN block) /\ live \in [DOMAIN live -> Requests \ {0}]
    <3>1. \A S : [a \in {} |-> 0] \in [{} -> S]
      OBVIOUS
    <3> QED BY <2>1, <3>1 DEF Init, Blocks
  <2>3. Idle \in [place : Places, request : Requests \cup {0}, size : Nat, at : Nat,
                 fits : SUBSET DOMAIN block]
    BY DEF Idle, Places
  <2>4. call \in [Threads -> [place : Places, request : Requests \cup {0}, size : Nat,
                             at : Nat, fits : SUBSET DOMAIN block]]
    BY <2>3 DEF Init
  <2>5. initialized = FALSE /\ clashed = FALSE /\ current \in Nat /\ last \in Nat
    BY HeapAssumption DEF Init
  <2>6. /\ DOMAIN block \subseteq Nat /\ DOMAIN live \subseteq Nat
        /\ \A a \in DOMAIN block : (a - HeapStart) % 16 = 0 /\ block[a].size % 16 = 0
    BY <2>1
  <2> QED BY <2>2, <2>4, <2>5, <2>6 DEF HTypeOK
<1>2. \A t \in Threads : call[t] = Idle
  BY DEF Init
<1>3. NoFitMissed /\ Known /\ OwnHeader
  BY <1>2 DEF NoFitMissed, Known, KnownOf, OwnHeader, At, Idle
<1>4. Tiled /\ Ends /\ Covered
  BY <1>2, HeapAssumption DEF Init, Tiled, Ends, Covered, At, Idle
<1>5. Room
  <2>1. [t \in Threads |-> 0] \in [Threads -> Nat]
    OBVIOUS
  <2>2. Fits([t \in Threads |-> 0])
    BY <1>2 DEF Fits, Pending, At, Idle
  <2> QED BY <2>1, <2>2 DEF Room
<1> QED BY <1>1, <1>3, <1>4, <1>5 DEF HInv

\* Room for the blocks to come stays where it is while the ends do not move and
\* no call joins those that wait for it.
LEMMA RoomKept ==
  ASSUME Room,
         \A t \in Threads : Pending(t)' =>
           /\ Pending(t) /\ call'[t].size = call[t].size
           /\ UNCHANGED <<current, last>>
  PROVE  Room'
<1>1. PICK slot \in [Threads -> Nat] : Fits(slot)
  BY DEF Room
<1>2. Fits(slot)'
  <2>1. ASSUME NEW t \in Threads, Pending(t)'
        PROVE  last' <= slot[t] /\ slot[t] + call'[t].size <= current'
    BY <1>1, <2>1 DEF Fits
  <2>2. ASSUME NEW t \in Threads, NEW u \in Threads, Pending(t)', Pending(u)', t # u
        PROVE  \/ slot[t] + call'[t].size <= slot[u]
               \/ slot[u] + call'[u].size <= slot[t]
    <3>1. Pending(t) /\ Pending(u) /\ call'[t].size = call[t].size /\ call'[u].size = call[u].size
      BY <2>2
    <3> QED BY <1>1, <2>2, <3>1 DEF Fits
  <2> QED BY <2>1, <2>2 DEF Fits
<1> QED BY <1>2 DEF Room

\* A call that moves to place p, with l at hand.
LEMMA CallMoves ==
  ASSUME HTypeOK, NEW t \in Threads, NEW p \in Places, NEW l \in Nat,
         call' = [call EXCEPT ![t].place = p, ![t].at = l]
  PROVE  /\ call'[t].place = p /\ call'[t].at = l /\ call'[t].fits = call[t].fits
         /\ call'[t].size = call[t].size /\ call'[t].request = call[t].request
         /\ \A u \in Threads \ {t} : call'[u] = call[u]
         /\ call' \in [Threads -> [place : Places, request : Requests \cup {0}, size : Nat,
                                  at : Nat, fits : SUBSET DOMAIN block]]
<1> DEFINE S == [place : Places, request : Requests \cup {0}, size : Nat,
                 at : Nat, fits : SUBSET DOMAIN block]
<1>1. call \in [Threads -> S]
  BY DEF HTypeOK
<1>2. call[t] \in S
  BY <1>1
<1> DEFINE r == [call[t] EXCEPT !.place = p, !.at = l]
<1>3. /\ r \in S /\ r.place = p /\ r.at = l /\ r.fits = call[t].fits
      /\ r.size = call[t].size /\ r.request = call[t].request
  BY <1>2
<1>4. call' = [call EXCEPT ![t] = r]
  BY <1>1, <1>2
<1> HIDE DEF S, r
<1>5. call' \in [Threads -> S] /\ call'[t] = r /\ \A u \in Threads \ {t} : call'[u] = call[u]
  BY <1>1, <1>3, <1>4
<1> QED BY <1>3, <1>5 DEF S

LEMMA EnterKeeps ==
  ASSUME HInv, ~clashed, NEW t \in Threads, NEW n \in Requests, Enter(t, n)
  PROVE  HInv'
<1> DEFINE entered == [place |-> "search", request |-> n, size |-> WholeBlock(n),
                       at |-> HeapStart, fits |-> Fitting(WholeBlock(n))]
<1>1. /\ HTypeOK /\ NoFitMissed /\ Tiled /\ Ends /\ Room /\ Known /\ OwnHeader /\ Covered
      /\ n \in Requests \ {0} /\ n \in Nat /\ HeapStart \in Nat
      /\ initialized' = TRUE /\ last' = IF initialized THEN last ELSE current
      /\ UNCHANGED <<current, block, live, clashed>>
  BY HeapAssumption DEF Enter, HInv
<1>2. /\ WholeBlock(n) \in Nat \ {0}
      /\ Fitting(WholeBlock(n)) \subseteq DOMAIN block
      /\ \A a \in Fitting(WholeBlock(n)) : HeapStart <= a /\ Suitable(block[a], WholeBlock(n))
  BY <1>1, WholeBlockFits DEF Fitting, Suitable, Ends
<1>3. /\ call' = [call EXCEPT ![t] = entered]
      /\ call'[t] = entered /\ \A u \in Threads \ {t} : call'[u] = call[u]
  BY <1>1 DEF Enter, HTypeOK
<1>4. HTypeOK'
  <2>1. call' \in [Threads -> [place : Places, request : Requests \cup {0}, size : Nat,
                              at : Nat, fits : SUBSET DOMAIN block]]
    BY <1>1, <1>2, <1>3 DEF HTypeOK, Places
  <2> QED BY <1>1, <2>1 DEF HTypeOK
<1>5. last' \in Nat /\ HeapStart <= last' /\ (last' - HeapStart) % 16 = 0
  BY <1>1 DEF HTypeOK, Ends
<1>6. \A a \in DOMAIN block : last' = last
  BY <1>1 DEF Ends
<1>7. HeapStart \in DOMAIN block \cup {last'} /\ last' <= current
  BY <1>1 DEF Ends, Tiled, HTypeOK
<1>8. Tiled' /\ Ends'
  BY <1>1, <1>5, <1>6, <1>7 DEF Tiled, Ends
<1>9. Room'
  <2>1. ASSUME NEW u \in Threads, Pending(u)'
        PROVE  Pending(u) /\ call'[u].size = call[u].size /\ UNCHANGED <<current, last>>
    <3>1. u # t
      BY <1>3, <2>1 DEF Pending, At
    <3>2. call'[u] = call[u] /\ Pending(u)
      BY <1>3, <2>1, <3>1 DEF Pending, At
    <3>3. initialized
      BY <1>1, <3>2 DEF Ends, Pending, At
    <3> QED BY <1>1, <3>2, <3>3
  <2> QED BY <1>1, <2>1, RoomKept
<1>10. Known'
  <2>1. \A u \in Threads \ {t} : ~At(u, "client") => last' = last
    BY <1>1 DEF Ends
  <2> QED BY <1>1, <1>2, <1>3, <1>7, <2>1 DEF Known, KnownOf, At
<1>11. NoFitMissed' /\ OwnHeader' /\ Covered'
  BY <1>1, <1>3 DEF NoFitMissed, OwnHeader, Covered, At
<1> QED BY <1>1, <1>4, <1>8, <1>9, <1>10, <1>11 DEF HInv

\* A round of the search and what follows it change nothing but the call.
LEMMA SearchKeeps ==
  ASSUME HInv, ~clashed, NEW t \in Threads, Find(t) \/ Skip(t) \/ GiveUp(t)
  PROVE  HInv'
<1>1. /\ HTypeOK /\ NoFitMissed /\ Tiled /\ Ends /\ Room /\ Known /\ OwnHeader /\ Covered
      /\ UNCHANGED <<initialized, current, last, block, live, clashed>>
      /\ At(t, "search") /\ initialized
  BY DEF HInv, Ends, Find, Skip, GiveUp, At
<1>2. PICK p \in {"found", "search", "more"}, l \in Nat :
        /\ call' = [call EXCEPT ![t].place = p, ![t].at = l]
        /\ p = "found" => /\ l = call[t].at /\ l \in DOMAIN block
                          /\ Suitable(block[l], call[t].size)
        /\ p = "search" => /\ l = call[t].at + block[call[t].at].size
                           /\ call[t].at \in DOMAIN block
                           /\ ~Suitable(block[call[t].at], call[t].size)
        /\ p = "more" => l = call[t].at /\ l = last
  <2>1. call[t].at \in DOMAIN block \cup {last} /\ call[t].at \in Nat
    BY <1>1 DEF Known, KnownOf, HTypeOK
  <2>2. CASE Find(t)
    <3>1. call' = [call EXCEPT ![t].place = "found", ![t].at = call[t].at]
      BY <1>1, <2>2 DEF Find, HTypeOK
    <3> QED BY <2>1, <2>2, <3>1 DEF Find
  <2>3. CASE Skip(t)
    <3> DEFINE c == call[t].at
    <3>1. c \in DOMAIN block /\ ~Suitable(block[c], call[t].size)
      BY <2>1, <2>3 DEF Skip
    <3>2. c + block[c].size \in Nat
      BY <1>1, <3>1 DEF HTypeOK, Blocks
    <3>3. call' = [call EXCEPT ![t].place = "search", ![t].at = c + block[c].size]
      BY <1>1, <2>3 DEF Skip, HTypeOK, At
    <3> QED BY <3>1, <3>2, <3>3
  <2>4. CASE GiveUp(t)
    <3>1. call' = [call EXCEPT ![t].place = "more", ![t].at = call[t].at]
      BY <1>1, <2>4 DEF GiveUp, HTypeOK
    <3> QED BY <2>1, <2>4, <3>1 DEF GiveUp
  <2> QED BY <2>2, <2>3, <2>4
<1>3. /\ call'[t].place = p /\ call'[t].at = l /\ call'[t].fits = call[t].fits
      /\ call'[t].size = call[t].size /\ call'[t].request = call[t].request
      /\ \A u \in Threads \ {t} : call'[u] = call[u]
      /\ call' \in [Threads -> [place : Places, request : Requests \cup {0}, size : Nat,
                               at : Nat, fits : SUBSET DOMAIN block]]
  <2>1. p \in Places
    BY DEF Places
  <2> QED BY <1>1, <1>2, <2>1, CallMoves
<1>4. HTypeOK'
  BY <1>1, <1>3 DEF HTypeOK
<1>5. Tiled' /\ Ends' /\ Covered'
  BY <1>1 DEF Tiled, Ends, Covered
<1>6. Room'
  <2>1. \A u \in Threads : Pending(u)' => Pending(u) /\ call'[u].size = call[u].size
    BY <1>2, <1>3 DEF Pending, At
  <2> QED BY <1>1, <2>1, RoomKept
<1>7. OwnHeader' /\ NoFitMissed'
  <2>1. \A u \in Threads : At(u, "header")' \/ At(u, "panic")' => call'[u] = call[u]
    BY <1>2, <1>3 DEF At
  <2> QED BY <1>1, <2>1 DEF OwnHeader, NoFitMissed, At
<1>8. Known'
  <2>1. /\ call[t].request \in Requests \ {0} /\ call[t].size = WholeBlock(call[t].request)
        /\ \A a \in call[t].fits : call[t].at <= a /\ Suitable(block[a], call[t].size)
        /\ call[t].fits \subseteq DOMAIN block
    BY <1>1 DEF Known, KnownOf, At, HTypeOK
  <2>2. p = "search" => l \in DOMAIN block \cup {last} /\ \A a \in call[t].fits : l <= a
    <3> SUFFICES ASSUME p = "search"
                 PROVE  l \in DOMAIN block \cup {last} /\ \A a \in call[t].fits : l <= a
      OBVIOUS
    <3> DEFINE c == call[t].at
    <3>1. c \in DOMAIN block /\ l = c + block[c].size /\ ~Suitable(block[c], call[t].size)
      BY <1>2
    <3>2. l \in DOMAIN block \cup {last}
      BY <1>1, <3>1 DEF Tiled
    <3>3. ASSUME NEW a \in call[t].fits PROVE l <= a
      <4>1. a \in DOMAIN block /\ c <= a /\ a # c
        BY <2>1, <3>1, <3>3
      <4>2. a \in Nat /\ c \in Nat
        BY <1>1, <3>1, <4>1 DEF HTypeOK
      <4>3. c < a
        BY <4>1, <4>2
      <4> QED BY <1>1, <3>1, <4>1, <4>3 DEF Tiled
    <3> QED BY <3>2, <3>3
  <2>3. p = "more" => call[t].fits = {}
    <3> SUFFICES ASSUME p = "more", NEW a \in call[t].fits PROVE FALSE
      OBVIOUS
    <3>1. a \in DOMAIN block /\ last <= a
      BY <1>2, <2>1
    <3>2. a \in Nat /\ block[a].size \in Nat \ {0} /\ last \in Nat
      BY <1>1, <3>1 DEF HTypeOK, Blocks
    <3> QED BY <1>1, <3>1, <3>2 DEF Ends
  <2>4. p = "found" => l \in DOMAIN block /\ call[t].size <= block[l].size
    BY <1>2 DEF Suitable
  <2> SUFFICES ASSUME NEW u \in Threads PROVE KnownOf(u)'
    BY DEF Known
  <2>5. CASE u # t
    BY <1>1, <1>3, <2>5 DEF Known, KnownOf, At
  <2>6. CASE u = t
    BY <1>1, <1>2, <1>3, <2>1, <2>2, <2>3, <2>4, <2>6 DEF KnownOf, At
  <2> QED BY <2>5, <2>6
<1> QED BY <1>1, <1>4, <1>5, <1>6, <1>7, <1>8 DEF HInv

\* What a return of the block at a does to the calls and to the clients.
LEMMA ReturnFacts ==
  ASSUME HTypeOK, NEW t \in Threads, NEW a \in Nat, Return(t, a),
         call[t].request \in Requests \ {0}
  PROVE  /\ call'[t] = Idle
         /\ \A u \in Threads \ {t} :
              /\ call'[u].place = call[u].place /\ call'[u].request = call[u].request
              /\ call'[u].size = call[u].size /\ call'[u].at = call[u].at
              /\ call'[u].fits = call[u].fits \ {a}
         /\ call' \in [Threads -> [place : Places, request : Requests \cup {0}, size : Nat,
                                  at : Nat, fits : SUBSET DOMAIN block]]
         /\ DOMAIN live' = DOMAIN live \cup {Payload(a)}
         /\ live'[Payload(a)] = call[t].request
         /\ \A p \in DOMAIN live \ {Payload(a)} : live'[p] = live[p]
         /\ DOMAIN live' \subseteq Nat /\ live' \in [DOMAIN live' -> Requests \ {0}]
<1>1. call' = [u \in Threads |->
                 IF u = t THEN Idle ELSE [call[u] EXCEPT !.fits = @ \ {a}]]
  BY DEF Return
<1>2. call \in [Threads -> [place : Places, request : Requests \cup {0}, size : Nat,
                           at : Nat, fits : SUBSET DOMAIN block]]
  BY DEF HTypeOK
<1>3. Idle \in [place : Places, request : Requests \cup {0}, size : Nat, at : Nat,
               fits : SUBSET DOMAIN block]
  BY DEF Idle, Places
<1>4. ASSUME NEW u \in Threads \ {t}
      PROVE  /\ call'[u].place = call[u].place /\ call'[u].request = call[u].request
             /\ call'[u].size = call[u].size /\ call'[u].at = call[u].at
             /\ call'[u].fits = call[u].fits \ {a}
             /\ call'[u] \in [place : Places, request : Requests \cup {0}, size : Nat,
                              at : Nat, fits : SUBSET DOMAIN block]
  <2>1. call'[u] = [call[u] EXCEPT !.fits = @ \ {a}]
    BY <1>1
  <2> QED BY <1>2, <2>1
<1>5. call'[t] = Idle
  BY <1>1
<1>6. call' \in [Threads -> [place : Places, request : Requests \cup {0}, size : Nat,
                            at : Nat, fits : SUBSET DOMAIN block]]
  <2>1. DOMAIN call' = Threads /\ call' = [u \in Threads |-> call'[u]]
    BY <1>1
  <2> QED BY <1>3, <1>4, <1>5, <2>1
<1>7. live' = [b \in DOMAIN live \cup {Payload(a)} |->
                 IF b = Payload(a) THEN call[t].request ELSE live[b]]
  BY DEF Return
<1>8. DOMAIN live' \subseteq Nat /\ live' \in [DOMAIN live' -> Requests \ {0}]
  BY <1>7 DEF HTypeOK, Payload, mcbSize
<1> QED BY <1>4, <1>5, <1>6, <1>7, <1>8

\* A read of a control block to come is a clash.
LEMMA StrayKeeps ==
  ASSUME HInv, NEW t \in Threads, Stray(t)
  PROVE  HInv'
<1>1. clashed' = TRUE /\ UNCHANGED <<initialized, current, last, block, call, live>>
  BY DEF Stray
<1>2. HTypeOK' /\ NoFitMissed'
  BY <1>1 DEF HInv, HTypeOK, NoFitMissed, At
<1> QED BY <1>1, <1>2 DEF HInv

LEMMA TakeKeeps ==
  ASSUME HInv, Running, NEW t \in Threads, Take(t)
  PROVE  HInv'
<1> DEFINE c == call[t].at
           n == call[t].request
<1>1. /\ HTypeOK /\ NoFitMissed /\ Tiled /\ Ends /\ Room /\ Known /\ OwnHeader /\ Covered
      /\ ~clashed /\ \A u \in Threads : ~At(u, "panic")
      /\ c \in DOMAIN block /\ c \in Nat /\ call[t].size <= block[c].size
      /\ n \in Requests \ {0} /\ call[t].size = WholeBlock(n)
      /\ At(t, "found")
  BY DEF HInv, HTypeOK, Known, KnownOf, Take, At, Running
<1>2. /\ block' = [block EXCEPT ![c].is_available = FALSE]
      /\ Return(t, c) /\ clashed' = ~block[c].is_available
      /\ UNCHANGED <<initialized, current, last>>
  BY DEF Take
<1>3. /\ DOMAIN block' = DOMAIN block
      /\ \A a \in DOMAIN block : /\ block'[a].size = block[a].size
                                 /\ a # c => block'[a] = block[a]
      /\ ~block'[c].is_available /\ block' \in Blocks(DOMAIN block)
  <2>1. block \in [DOMAIN block -> [is_available : BOOLEAN, size : Nat \ {0}]]
    BY <1>1 DEF HTypeOK, Blocks
  <2>2. block' = [block EXCEPT ![c].is_available = FALSE] /\ c \in DOMAIN block
    BY <1>1, <1>2
  <2> HIDE DEF c
  <2> QED BY ONLY <2>1, <2>2 DEF Blocks
<1>4. /\ call'[t] = Idle
      /\ \A u \in Threads \ {t} :
           /\ call'[u].place = call[u].place /\ call'[u].request = call[u].request
           /\ call'[u].size = call[u].size /\ call'[u].at = call[u].at
           /\ call'[u].fits = call[u].fits \ {c}
      /\ call' \in [Threads -> [place : Places, request : Requests \cup {0}, size : Nat,
                               at : Nat, fits : SUBSET DOMAIN block]]
      /\ DOMAIN live' = DOMAIN live \cup {Payload(c)}
      /\ live'[Payload(c)] = n
      /\ \A p \in DOMAIN live \ {Payload(c)} : live'[p] = live[p]
      /\ DOMAIN live' \subseteq Nat /\ live' \in [DOMAIN live' -> Requests \ {0}]
  BY <1>1, <1>2, ReturnFacts
<1> HIDE DEF c, n
<1>5. HTypeOK'
  BY <1>1, <1>2, <1>3, <1>4 DEF HTypeOK
<1>6. NoFitMissed'
  BY <1>1, <1>4 DEF NoFitMissed, At, Idle
<1>7. Tiled' /\ Ends'
  BY <1>1, <1>2, <1>3, <1>4 DEF Tiled, Ends, At
<1>8. Room'
  <2>1. \A u \in Threads : Pending(u)' => Pending(u) /\ call'[u].size = call[u].size
    BY <1>4 DEF Pending, At, Idle
  <2> QED BY <1>1, <1>2, <2>1, RoomKept
<1>9. OwnHeader'
  BY <1>1, <1>4 DEF OwnHeader, At, Idle
<1>10. Covered'
  <2> SUFFICES ASSUME NEW p \in DOMAIN live'
               PROVE  /\ p - mcbSize \in DOMAIN block
                      /\ ~block'[p - mcbSize].is_available
                      /\ WholeBlock(live'[p]) <= block[p - mcbSize].size
    BY <1>3 DEF Covered
  <2>1. CASE p = Payload(c)
    <3>1. p - mcbSize = c /\ live'[p] = n
      BY <1>1, <1>4, <2>1 DEF Payload, mcbSize
    <3> QED BY <1>1, <1>3, <3>1
  <2>2. CASE p # Payload(c)
    <3>1. p \in DOMAIN live /\ live'[p] = live[p]
      BY <1>4, <2>2
    <3> QED BY <1>1, <1>3, <3>1 DEF Covered
  <2> QED BY <2>1, <2>2
<1>11. ~clashed' => Known'
  <2> SUFFICES ASSUME ~clashed', NEW u \in Threads PROVE KnownOf(u)'
    BY DEF Known
  <2>1. CASE u = t
    BY <1>4, <2>1 DEF KnownOf, At, Idle
  <2>2. CASE u # t
    <3>1. KnownOf(u) /\ call[u].fits \subseteq DOMAIN block /\ call[u].at \in Nat
      BY <1>1 DEF Known, HTypeOK
    <3>2. block[c].is_available
      BY <1>1, <1>2 DEF HTypeOK, Blocks
    <3>3. At(u, "header") => Payload(call[u].at) # Payload(c)
      BY <1>1, <3>1, <3>2 DEF KnownOf, Payload, mcbSize
    <3> QED BY <1>2, <1>3, <1>4, <2>2, <3>1, <3>2, <3>3 DEF KnownOf, At, Suitable
  <2> QED BY <2>1, <2>2
<1> QED BY <1>5, <1>6, <1>7, <1>8, <1>9, <1>10, <1>11 DEF HInv

\* The test of sbrk and the read of last_valid_address change only the call.
LEMMA TestBreakKeeps ==
  ASSUME HInv, ~clashed, NEW t \in Threads, TestBreak(t)
  PROVE  HInv'
<1>1. /\ HTypeOK /\ NoFitMissed /\ Tiled /\ Ends /\ Room /\ Known /\ OwnHeader /\ Covered
      /\ UNCHANGED <<initialized, current, last, block, live, clashed>>
      /\ At(t, "more") /\ initialized
  BY DEF HInv, Ends, TestBreak, At
<1>2. PICK p \in {"move", "panic"}, l \in Nat :
        call' = [call EXCEPT ![t].place = p, ![t].at = l]
  <2>1. CASE current + call[t].size <= HeapEnd
    <3>1. call' = [call EXCEPT ![t].place = "move", ![t].at = current] /\ current \in Nat
      BY <1>1, <2>1 DEF TestBreak, HTypeOK
    <3> QED BY <3>1
  <2>2. CASE ~(current + call[t].size <= HeapEnd)
    <3>1. /\ call' = [call EXCEPT ![t].place = "panic", ![t].at = call[t].at]
          /\ call[t].at \in Nat
      BY <1>1, <2>2 DEF TestBreak, HTypeOK
    <3> QED BY <3>1
  <2> QED BY <2>1, <2>2
<1>3. /\ call'[t].place = p /\ call'[t].at = l /\ call'[t].fits = {}
      /\ call'[t].size = call[t].size /\ call'[t].request = call[t].request
      /\ \A u \in Threads \ {t} : call'[u] = call[u]
      /\ call' \in [Threads -> [place : Places, request : Requests \cup {0}, size : Nat,
                               at : Nat, fits : SUBSET DOMAIN block]]
  <2>1. p \in Places
    BY DEF Places
  <2>2. call[t].fits = {}
    BY <1>1 DEF Known, KnownOf, At
  <2>3. HTypeOK /\ call' = [call EXCEPT ![t].place = p, ![t].at = l]
    BY <1>1, <1>2, Zenon
  <2>4. /\ call'[t].place = p /\ call'[t].at = l /\ call'[t].fits = call[t].fits
        /\ call'[t].size = call[t].size /\ call'[t].request = call[t].request
        /\ \A u \in Threads \ {t} : call'[u] = call[u]
        /\ call' \in [Threads -> [place : Places, request : Requests \cup {0}, size : Nat,
                                 at : Nat, fits : SUBSET DOMAIN block]]
    BY <2>1, <2>3, CallMoves
  <2> QED BY <2>2, <2>4, Zenon
<1>4. HTypeOK'
  BY <1>1, <1>3 DEF HTypeOK
<1>5. Tiled' /\ Ends' /\ Covered'
  BY <1>1 DEF Tiled, Ends, Covered
<1>6. Room'
  <2>1. \A u \in Threads : Pending(u)' => Pending(u) /\ call'[u].size = call[u].size
    BY <1>2, <1>3 DEF Pending, At
  <2> QED BY <1>1, <2>1, RoomKept
<1>7. OwnHeader' /\ NoFitMissed'
  <2>1. \A u \in Threads : At(u, "header")' => call'[u] = call[u]
    BY <1>2, <1>3 DEF At
  <2>2. \A u \in Threads : At(u, "panic")' => call'[u].fits = {}
    BY <1>1, <1>3 DEF NoFitMissed, At
  <2> QED BY <1>1, <2>1, <2>2 DEF OwnHeader, NoFitMissed, At
<1>8. Known'
  <2> SUFFICES ASSUME NEW u \in Threads PROVE KnownOf(u)'
    BY DEF Known
  <2>1. CASE u # t
    BY <1>1, <1>3, <2>1 DEF Known, KnownOf, At
  <2>2. CASE u = t
    BY <1>1, <1>2, <1>3, <2>2 DEF Known, KnownOf, At
  <2> QED BY <2>1, <2>2
<1> QED BY <1>1, <1>4, <1>5, <1>6, <1>7, <1>8 DEF HInv

LEMMA ExtendKeeps ==
  ASSUME HInv, ~clashed, NEW t \in Threads, Extend(t)
  PROVE  HInv'
<1>1. /\ HTypeOK /\ NoFitMissed /\ Tiled /\ Ends /\ Room /\ Known /\ OwnHeader /\ Covered
      /\ UNCHANGED <<initialized, current, last, block, live, clashed>>
      /\ At(t, "attach") /\ initialized
      /\ call' = [call EXCEPT ![t].place = "extend", ![t].at = last]
  BY DEF HInv, Ends, Extend, At
<1>2. /\ call'[t].place = "extend" /\ call'[t].at = last /\ call'[t].fits = {}
      /\ call'[t].size = call[t].size /\ call'[t].request = call[t].request
      /\ \A u \in Threads \ {t} : call'[u] = call[u]
      /\ call' \in [Threads -> [place : Places, request : Requests \cup {0}, size : Nat,
                               at : Nat, fits : SUBSET DOMAIN block]]
  <2>1. "extend" \in Places /\ last \in Nat
    BY <1>1 DEF Places, HTypeOK
  <2>2. call[t].fits = {}
    BY <1>1 DEF Known, KnownOf, At
  <2>3. HTypeOK /\ call' = [call EXCEPT ![t].place = "extend", ![t].at = last]
    BY <1>1, Zenon
  <2>4. /\ call'[t].place = "extend" /\ call'[t].at = last /\ call'[t].fits = call[t].fits
        /\ call'[t].size = call[t].size /\ call'[t].request = call[t].request
        /\ \A u \in Threads \ {t} : call'[u] = call[u]
        /\ call' \in [Threads -> [place : Places, request : Requests \cup {0}, size : Nat,
                                 at : Nat, fits : SUBSET DOMAIN block]]
    BY <2>1, <2>3, CallMoves
  <2> QED BY <2>2, <2>4, Zenon
<1>3. HTypeOK'
  BY <1>1, <1>2 DEF HTypeOK
<1>4. Tiled' /\ Ends' /\ Covered'
  BY <1>1 DEF Tiled, Ends, Covered
<1>5. Room'
  <2>1. \A u \in Threads : Pending(u)' => Pending(u) /\ call'[u].size = call[u].size
    BY <1>1, <1>2 DEF Pending, At
  <2> QED BY <1>1, <2>1, RoomKept
<1>6. OwnHeader' /\ NoFitMissed'
  <2>1. \A u \in Threads : At(u, "header")' \/ At(u, "panic")' => call'[u] = call[u]
    BY <1>2 DEF At
  <2>2. OwnHeader /\ NoFitMissed /\ UNCHANGED <<last, block, live, clashed>>
    BY <1>1, Zenon
  <2>3. OwnHeader'
    BY <2>1, <2>2 DEF OwnHeader, At
  <2>4. NoFitMissed'
    BY <2>1, <2>2 DEF NoFitMissed, At
  <2> QED BY <2>3, <2>4
<1>7. Known'
  <2> SUFFICES ASSUME NEW u \in Threads PROVE KnownOf(u)'
    BY DEF Known
  <2>1. CASE u # t
    BY <1>1, <1>2, <2>1 DEF Known, KnownOf, At
  <2>2. CASE u = t
    BY <1>1, <1>2, <2>2 DEF Known, KnownOf, At, Ends
  <2> QED BY <2>1, <2>2
<1> QED BY <1>1, <1>3, <1>4, <1>5, <1>6, <1>7 DEF HInv

\* The memory that the break moves past is the slot of the call.
LEMMA MoveBreakKeeps ==
  ASSUME HInv, Running, NEW t \in Threads, MoveBreak(t)
  PROVE  HInv'
<1>1. /\ HTypeOK /\ NoFitMissed /\ Tiled /\ Ends /\ Room /\ Known /\ OwnHeader /\ Covered
      /\ ~clashed /\ \A u \in Threads : ~At(u, "panic")
      /\ UNCHANGED <<initialized, last, block, live>>
      /\ At(t, "move") /\ initialized
      /\ call' = [call EXCEPT ![t].place = "attach"]
  BY DEF HInv, Ends, MoveBreak, At, Running
<1>2. PICK read \in {call[t].at, current} :
        /\ current' = read + call[t].size
        /\ clashed' = (read # current \/ current' > HeapEnd)
  BY DEF MoveBreak
<1>3. /\ call'[t].place = "attach" /\ call'[t].at = call[t].at /\ call'[t].fits = {}
      /\ call'[t].size = call[t].size /\ call'[t].request = call[t].request
      /\ \A u \in Threads \ {t} : call'[u] = call[u]
  BY <1>1 DEF HTypeOK, Known, KnownOf, At
<1>4. /\ current \in Nat /\ last \in Nat /\ call[t].size \in Nat /\ call[t].at \in Nat
      /\ current' \in Nat /\ clashed' \in BOOLEAN
  BY <1>1, <1>2 DEF HTypeOK
<1>5. HTypeOK'
  <2>1. call' \in [Threads -> [place : Places, request : Requests \cup {0}, size : Nat,
                              at : Nat, fits : SUBSET DOMAIN block]]
    BY <1>1 DEF HTypeOK, Places
  <2> QED BY <1>1, <1>4, <2>1 DEF HTypeOK
<1>6. NoFitMissed'
  BY <1>1, <1>3 DEF NoFitMissed, At
<1>7. ASSUME ~clashed'
      PROVE  current' = current + call[t].size /\ current' <= HeapEnd
  <2>1. read = current /\ ~(current' > HeapEnd)
    BY <1>2, <1>7, Zenon
  <2> QED BY <1>2, <1>4, <2>1, HeapAssumption
<1>8. ASSUME ~clashed' PROVE Tiled' /\ Ends' /\ Covered'
  BY <1>1, <1>4, <1>7, <1>8 DEF Tiled, Ends, Covered
<1>9. ASSUME ~clashed' PROVE Room'
  <2>1. PICK slot \in [Threads -> Nat] : Fits(slot)
    BY <1>1 DEF Room
  <2> DEFINE new == [slot EXCEPT ![t] = current]
  <2>2. /\ new \in [Threads -> Nat] /\ new[t] = current
        /\ \A u \in Threads \ {t} : new[u] = slot[u]
    BY <1>4
  <2> HIDE DEF new
  <2>3. ASSUME NEW u \in Threads \ {t}, Pending(u)'
        PROVE  /\ Pending(u) /\ call'[u].size = call[u].size /\ call[u].size \in Nat
               /\ slot[u] \in Nat /\ last <= slot[u] /\ slot[u] + call[u].size <= current
    <3>1. call'[u] = call[u] /\ Pending(u)
      BY <1>3, <2>3 DEF Pending, At
    <3> QED BY <1>1, <2>1, <3>1 DEF HTypeOK, Fits
  <2>4. ASSUME NEW u \in Threads, Pending(u)'
        PROVE  last' <= new[u] /\ new[u] + call'[u].size <= current'
    <3>1. CASE u = t
      BY <1>1, <1>3, <1>4, <1>7, <1>9, <2>2, <3>1 DEF Tiled
    <3>2. CASE u # t
      BY <1>1, <1>4, <1>7, <1>9, <2>2, <2>3, <2>4, <3>2
    <3> QED BY <3>1, <3>2
  <2>5. ASSUME NEW u \in Threads, NEW v \in Threads, Pending(u)', Pending(v)', u # v
        PROVE  \/ new[u] + call'[u].size <= new[v]
               \/ new[v] + call'[v].size <= new[u]
    <3>1. CASE u = t
      BY <2>2, <2>3, <2>5, <3>1
    <3>2. CASE v = t
      BY <2>2, <2>3, <2>5, <3>2
    <3>3. CASE u # t /\ v # t
      BY <2>1, <2>2, <2>3, <2>5, <3>3 DEF Fits
    <3> QED BY <3>1, <3>2, <3>3
  <2> QED BY <2>2, <2>4, <2>5 DEF Room, Fits
<1>10. OwnHeader'
  <2>1. \A u \in Threads : At(u, "header")' => call'[u] = call[u]
    BY <1>3 DEF At
  <2> QED BY <1>1, <2>1 DEF OwnHeader, At
<1>11. Known'
  <2> SUFFICES ASSUME NEW u \in Threads PROVE KnownOf(u)'
    BY DEF Known
  <2>1. CASE u # t
    BY <1>1, <1>3, <2>1 DEF Known, KnownOf, At
  <2>2. CASE u = t
    BY <1>1, <1>3, <2>2 DEF Known, KnownOf, At
  <2> QED BY <2>1, <2>2
<1> QED BY <1>5, <1>6, <1>8, <1>9, <1>10, <1>11 DEF HInv

\* The chain grows by a block; the slots of calls below the one that is used up
\* move up by its size.
LEMMA MoveLastKeeps ==
  ASSUME HInv, Running, NEW t \in Threads, MoveLast(t)
  PROVE  HInv'
<1> DEFINE s == call[t].size
           c == call[t].at
<1>1. /\ HTypeOK /\ NoFitMissed /\ Tiled /\ Ends /\ Room /\ Known /\ OwnHeader /\ Covered
      /\ ~clashed /\ \A u \in Threads : ~At(u, "panic")
      /\ UNCHANGED <<initialized, current, live>>
      /\ At(t, "extend") /\ initialized
      /\ call' = [call EXCEPT ![t].place = "header"]
      /\ block' = WithBlock(c, s) /\ clashed' = (c # last)
  BY DEF HInv, Ends, MoveLast, At, Running
<1>2. PICK read \in {c, last} : last' = read + s
  BY DEF MoveLast
<1>3. /\ call'[t].place = "header" /\ call'[t].at = c /\ call'[t].fits = {}
      /\ call'[t].size = s /\ call'[t].request = call[t].request
      /\ \A u \in Threads \ {t} : call'[u] = call[u]
  BY <1>1 DEF HTypeOK, Known, KnownOf, At
<1>4. /\ last \in Nat /\ current \in Nat /\ c \in Nat /\ HeapStart \in Nat
      /\ s \in Nat \ {0} /\ s % 16 = 0 /\ (c - HeapStart) % 16 = 0
  <2>1. call[t].request \in Nat /\ s = WholeBlock(call[t].request)
    BY <1>1, HeapAssumption DEF Known, KnownOf, At
  <2> QED BY <1>1, <2>1, WholeBlockFits, HeapAssumption DEF HTypeOK, Known, KnownOf
<1>5. /\ DOMAIN block' = DOMAIN block \cup {c}
      /\ block'[c] = [is_available |-> FALSE, size |-> s]
      /\ \A a \in DOMAIN block \ {c} : block'[a] = block[a]
  BY <1>1 DEF WithBlock
<1> HIDE DEF s, c
<1>6. HTypeOK'
  <2>1. call' \in [Threads -> [place : Places, request : Requests \cup {0}, size : Nat,
                              at : Nat, fits : SUBSET DOMAIN block']]
    <3>1. call \in [Threads -> [place : Places, request : Requests \cup {0}, size : Nat,
                               at : Nat, fits : SUBSET DOMAIN block']]
      BY <1>1, <1>5 DEF HTypeOK
    <3> QED BY <1>1, <3>1 DEF Places
  <2>2. block' \in Blocks(DOMAIN block')
    BY <1>1, <1>4, <1>5 DEF HTypeOK, Blocks, WithBlock
  <2>3. last' \in Nat /\ clashed' \in BOOLEAN
    BY <1>1, <1>2, <1>4
  <2> QED BY <1>1, <1>4, <1>5, <2>1, <2>2, <2>3 DEF HTypeOK
<1>7. NoFitMissed'
  BY <1>1, <1>3 DEF NoFitMissed, At
<1> SUFFICES ASSUME ~clashed'
             PROVE  Tiled' /\ Ends' /\ Room' /\ Known' /\ OwnHeader' /\ Covered'
  BY <1>6, <1>7 DEF HInv
<1>8. c = last /\ last' = last + s
  BY <1>1, <1>2
<1>9. \A a \in DOMAIN block :
        /\ a \in Nat /\ block[a].size \in Nat \ {0}
        /\ HeapStart <= a /\ a < last /\ a + block[a].size <= last /\ block'[a] = block[a]
  <2> SUFFICES ASSUME NEW a \in DOMAIN block
               PROVE  /\ a \in Nat /\ block[a].size \in Nat \ {0}
                      /\ HeapStart <= a /\ a < last /\ a + block[a].size <= last
                      /\ block'[a] = block[a]
    OBVIOUS
  <2>1. a \in Nat /\ block[a].size \in Nat \ {0}
    BY <1>1 DEF HTypeOK, Blocks
  <2>2. HeapStart <= a /\ a + block[a].size <= last
    BY <1>1 DEF Ends
  <2> QED BY <1>4, <1>5, <1>8, <2>1, <2>2
<1>10. PICK slot \in [Threads -> Nat] : Fits(slot)
  BY <1>1 DEF Room
<1>11. last <= slot[t] /\ slot[t] + s <= current /\ slot[t] \in Nat
  BY <1>1, <1>10 DEF Fits, Pending, s
<1>12. Ends'
  <2>1. HeapStart <= last' /\ (last' - HeapStart) % 16 = 0
    <3>1. HeapStart <= last /\ (last - HeapStart) % 16 = 0
      BY <1>1 DEF Ends
    <3> QED BY <1>4, <1>8, <3>1
  <2>2. \A a \in DOMAIN block' : HeapStart <= a /\ a + block'[a].size <= last'
    <3> SUFFICES ASSUME NEW a \in DOMAIN block'
                 PROVE  HeapStart <= a /\ a + block'[a].size <= last'
      OBVIOUS
    <3>1. CASE a = c
      BY <1>4, <1>5, <1>8, <2>1, <3>1, <1>1 DEF Ends
    <3>2. CASE a # c
      BY <1>4, <1>5, <1>8, <1>9, <3>2
    <3> QED BY <3>1, <3>2
  <2> QED BY <1>1, <2>1, <2>2 DEF Ends
<1>13. Tiled'
  <2>1. HeapStart \in DOMAIN block' \cup {last'}
    BY <1>1, <1>5, <1>8 DEF Tiled
  <2>2. \A a \in DOMAIN block' : a + block'[a].size \in DOMAIN block' \cup {last'}
    BY <1>1, <1>5, <1>8, <1>9 DEF Tiled
  <2>3. \A a, b \in DOMAIN block' : a < b => a + block'[a].size <= b
    BY <1>1, <1>4, <1>5, <1>8, <1>9 DEF Tiled
  <2>4. last' <= current' /\ current' <= HeapEnd
    BY <1>1, <1>4, <1>8, <1>11 DEF Tiled
  <2> QED BY <2>1, <2>2, <2>3, <2>4 DEF Tiled
<1>14. Room'
  <2> DEFINE new == [u \in Threads |-> IF slot[u] < slot[t] THEN slot[u] + s ELSE slot[u]]
  <2>1. /\ new \in [Threads -> Nat]
        /\ \A u \in Threads : new[u] = IF slot[u] < slot[t] THEN slot[u] + s ELSE slot[u]
    BY <1>4
  <2> HIDE DEF new
  <2>2. ASSUME NEW u \in Threads, Pending(u)'
        PROVE  /\ u # t /\ Pending(u) /\ call'[u].size = call[u].size
               /\ call[u].size \in Nat \ {0} /\ slot[u] \in Nat
               /\ last <= slot[u] /\ slot[u] + call[u].size <= current
               /\ slot[u] + call[u].size <= slot[t] \/ slot[t] + s <= slot[u]
    <3>1. u # t /\ call'[u] = call[u] /\ Pending(u)
      BY <1>3, <2>2 DEF Pending, At
    <3>2. Pending(t)
      BY <1>1 DEF Pending
    <3>3. call[u].size \in Nat \ {0}
      <4>1. call[u].request \in Nat /\ call[u].size = WholeBlock(call[u].request)
        BY <1>1, <3>1, HeapAssumption DEF Known, KnownOf, Pending, At
      <4> QED BY <4>1, WholeBlockFits
    <3> QED BY <1>1, <1>10, <3>1, <3>2, <3>3 DEF Fits, s
  <2>3. ASSUME NEW u \in Threads, Pending(u)'
        PROVE  last' <= new[u] /\ new[u] + call'[u].size <= current'
    <3>1. new[u] = IF slot[u] < slot[t] THEN slot[u] + s ELSE slot[u]
      BY <2>1
    <3>2. /\ call'[u].size = call[u].size /\ call[u].size \in Nat \ {0} /\ slot[u] \in Nat
          /\ last <= slot[u] /\ slot[u] + call[u].size <= current
          /\ slot[u] + call[u].size <= slot[t] \/ slot[t] + s <= slot[u]
      BY <2>2, <2>3
    <3>3. current' = current
      BY <1>1
    <3>4. CASE slot[u] < slot[t]
      BY <1>4, <1>8, <1>11, <3>1, <3>2, <3>3, <3>4
    <3>5. CASE ~(slot[u] < slot[t])
      BY <1>4, <1>8, <1>11, <3>1, <3>2, <3>3, <3>5
    <3> QED BY <3>4, <3>5
  <2>4. ASSUME NEW u \in Threads, NEW v \in Threads, Pending(u)', Pending(v)', u # v
        PROVE  \/ new[u] + call'[u].size <= new[v]
               \/ new[v] + call'[v].size <= new[u]
    <3>1. /\ new[u] = IF slot[u] < slot[t] THEN slot[u] + s ELSE slot[u]
          /\ new[v] = IF slot[v] < slot[t] THEN slot[v] + s ELSE slot[v]
      BY <2>1
    <3>2. slot[u] + call[u].size <= slot[v] \/ slot[v] + call[v].size <= slot[u]
      BY <1>10, <2>2, <2>4 DEF Fits
    <3>3. /\ call'[u].size = call[u].size /\ call[u].size \in Nat \ {0} /\ slot[u] \in Nat
          /\ slot[u] + call[u].size <= slot[t] \/ slot[t] + s <= slot[u]
      BY <2>2, <2>4
    <3>4. /\ call'[v].size = call[v].size /\ call[v].size \in Nat \ {0} /\ slot[v] \in Nat
          /\ slot[v] + call[v].size <= slot[t] \/ slot[t] + s <= slot[v]
      BY <2>2, <2>4
    <3>5. CASE slot[u] < slot[t] /\ slot[v] < slot[t]
      BY <1>4, <1>11, <3>1, <3>2, <3>3, <3>4, <3>5
    <3>6. CASE slot[u] < slot[t] /\ ~(slot[v] < slot[t])
      BY <1>4, <1>11, <3>1, <3>3, <3>4, <3>6
    <3>7. CASE ~(slot[u] < slot[t]) /\ slot[v] < slot[t]
      BY <1>4, <1>11, <3>1, <3>3, <3>4, <3>7
    <3>8. CASE ~(slot[u] < slot[t]) /\ ~(slot[v] < slot[t])
      BY <3>1, <3>2, <3>3, <3>4, <3>8
    <3> QED BY <3>5, <3>6, <3>7, <3>8
  <2> QED BY <2>1, <2>3, <2>4 DEF Room, Fits
<1>15. Payload(c) \notin DOMAIN live
  <2> SUFFICES ASSUME Payload(c) \in DOMAIN live PROVE FALSE
    OBVIOUS
  <2>1. Payload(c) - mcbSize = c
    BY <1>4 DEF Payload, mcbSize
  <2>2. c \in DOMAIN block
    BY <1>1, <2>1 DEF Covered
  <2> QED BY <1>4, <1>8, <1>9, <2>2
<1>16. Known'
  <2> SUFFICES ASSUME NEW u \in Threads PROVE KnownOf(u)'
    BY DEF Known
  <2>1. CASE u # t
    <3>1. KnownOf(u) /\ call'[u] = call[u] /\ call[u].fits \subseteq DOMAIN block
      BY <1>1, <1>3, <2>1 DEF Known, HTypeOK
    <3>2. DOMAIN block \cup {last} \subseteq DOMAIN block'
      BY <1>5, <1>8
    <3> QED BY <1>1, <1>9, <3>1, <3>2 DEF KnownOf, At, Suitable
  <2>2. CASE u = t
    <3>1. call[t].request \in Requests \ {0} /\ s = WholeBlock(call[t].request)
      BY <1>1 DEF Known, KnownOf, At, s
    <3> QED BY <1>1, <1>3, <1>5, <1>15, <2>2, <3>1 DEF KnownOf, At
  <2> QED BY <2>1, <2>2
<1>17. OwnHeader'
  <2>1. \A u \in Threads \ {t} : At(u, "header")' =>
          At(u, "header") /\ call'[u].at = call[u].at /\ call[u].at # c
    <3> SUFFICES ASSUME NEW u \in Threads \ {t}, At(u, "header")'
                 PROVE  At(u, "header") /\ call'[u].at = call[u].at /\ call[u].at # c
      OBVIOUS
    <3>1. At(u, "header") /\ call'[u].at = call[u].at
      BY <1>3 DEF At
    <3>2. call[u].at \in DOMAIN block
      BY <1>1, <3>1 DEF Known, KnownOf
    <3> QED BY <1>4, <1>8, <1>9, <3>1, <3>2
  <2> QED BY <1>1, <1>3, <2>1 DEF OwnHeader
<1>18. Covered'
  <2> SUFFICES ASSUME NEW p \in DOMAIN live
               PROVE  /\ p - mcbSize \in DOMAIN block'
                      /\ ~block'[p - mcbSize].is_available
                      /\ WholeBlock(live[p]) <= block'[p - mcbSize].size
    BY <1>1 DEF Covered
  <2>1. p - mcbSize \in DOMAIN block /\ block'[p - mcbSize] = block[p - mcbSize]
    BY <1>1, <1>9 DEF Covered
  <2> QED BY <1>1, <1>5, <2>1 DEF Covered
<1> QED BY <1>12, <1>13, <1>14, <1>16, <1>17, <1>18

LEMMA HeaderKeeps ==
  ASSUME HInv, Running, NEW t \in Threads, Header(t)
  PROVE  HInv'
<1> DEFINE c == call[t].at
           n == call[t].request
<1>1. /\ HTypeOK /\ NoFitMissed /\ Tiled /\ Ends /\ Room /\ Known /\ OwnHeader /\ Covered
      /\ ~clashed /\ \A u \in Threads : ~At(u, "panic")
      /\ UNCHANGED <<initialized, current, last, block, clashed>>
      /\ At(t, "header") /\ Return(t, c)
  BY DEF HInv, Header, Running
<1>2. /\ n \in Requests \ {0} /\ c \in DOMAIN block /\ c \in Nat
      /\ ~block[c].is_available /\ block[c].size = WholeBlock(n)
      /\ block[c].size \in Nat
  BY <1>1 DEF Known, KnownOf, At, HTypeOK, Blocks
<1>3. /\ call'[t] = Idle
      /\ \A u \in Threads \ {t} :
           /\ call'[u].place = call[u].place /\ call'[u].request = call[u].request
           /\ call'[u].size = call[u].size /\ call'[u].at = call[u].at
           /\ call'[u].fits = call[u].fits \ {c}
      /\ call' \in [Threads -> [place : Places, request : Requests \cup {0}, size : Nat,
                               at : Nat, fits : SUBSET DOMAIN block]]
      /\ DOMAIN live' = DOMAIN live \cup {Payload(c)}
      /\ live'[Payload(c)] = n
      /\ \A p \in DOMAIN live \ {Payload(c)} : live'[p] = live[p]
      /\ DOMAIN live' \subseteq Nat /\ live' \in [DOMAIN live' -> Requests \ {0}]
  BY <1>1, <1>2, ReturnFacts
<1> HIDE DEF c, n
<1>4. HTypeOK'
  BY <1>1, <1>3 DEF HTypeOK
<1>5. NoFitMissed' /\ OwnHeader'
  BY <1>1, <1>3 DEF NoFitMissed, OwnHeader, At, Idle
<1>6. Tiled' /\ Ends'
  BY <1>1, <1>2, <1>3 DEF Tiled, Ends, At
<1>7. Room'
  <2>1. \A u \in Threads : Pending(u)' => Pending(u) /\ call'[u].size = call[u].size
    BY <1>3 DEF Pending, At, Idle
  <2> QED BY <1>1, <2>1, RoomKept
<1>8. Covered'
  <2> SUFFICES ASSUME NEW p \in DOMAIN live'
               PROVE  /\ p - mcbSize \in DOMAIN block
                      /\ ~block[p - mcbSize].is_available
                      /\ WholeBlock(live'[p]) <= block[p - mcbSize].size
    BY <1>1 DEF Covered
  <2>1. CASE p = Payload(c)
    <3>1. p - mcbSize = c /\ live'[p] = n
      BY <1>2, <1>3, <2>1 DEF Payload, mcbSize
    <3> QED BY <1>2, <3>1
  <2>2. CASE p # Payload(c)
    <3>1. p \in DOMAIN live /\ live'[p] = live[p]
      BY <1>3, <2>2
    <3> QED BY <1>1, <3>1 DEF Covered
  <2> QED BY <2>1, <2>2
<1>9. Known'
  <2> SUFFICES ASSUME NEW u \in Threads PROVE KnownOf(u)'
    BY DEF Known
  <2>1. CASE u = t
    BY <1>3, <2>1 DEF KnownOf, At, Idle
  <2>2. CASE u # t
    <3>1. KnownOf(u) /\ call[u].at \in Nat
      BY <1>1 DEF Known, HTypeOK
    <3>2. At(u, "header") => call[u].at # c
      BY <1>1, <2>2 DEF OwnHeader, c
    <3>3. At(u, "header") => Payload(call[u].at) # Payload(c)
      BY <1>2, <3>1, <3>2 DEF Payload, mcbSize
    <3> QED BY <1>1, <1>3, <2>2, <3>1, <3>3 DEF KnownOf, At, Suitable
  <2> QED BY <2>1, <2>2
<1> QED BY <1>4, <1>5, <1>6, <1>7, <1>8, <1>9 DEF HInv

\* kfree may come at any point of a call of kmalloc.
LEMMA KfreeKeeps ==
  ASSUME HInv, ~clashed, NEW p \in DOMAIN live, Kfree(p)
  PROVE  HInv'
<1> DEFINE c == p - mcbSize
<1>1. /\ HTypeOK /\ NoFitMissed /\ Tiled /\ Ends /\ Room /\ Known /\ OwnHeader /\ Covered
      /\ c \in DOMAIN block /\ ~block[c].is_available
      /\ p \in Nat /\ Payload(c) = p
  BY DEF HInv, HTypeOK, Covered, Payload, mcbSize
<1>2. /\ block' = [block EXCEPT ![c].is_available = TRUE]
      /\ live' = [a \in DOMAIN live \ {p} |-> live[a]]
      /\ UNCHANGED <<initialized, current, last, call, clashed>>
  BY DEF Kfree
<1>3. /\ DOMAIN block' = DOMAIN block
      /\ \A a \in DOMAIN block : /\ block'[a].size = block[a].size
                                 /\ a # c => block'[a] = block[a]
      /\ block'[c].is_available
      /\ block' \in Blocks(DOMAIN block)
  <2>1. block' = [block EXCEPT ![c].is_available = TRUE] /\ c \in DOMAIN block
    BY <1>1, <1>2
  <2>2. block \in [DOMAIN block -> [is_available : BOOLEAN, size : Nat \ {0}]]
    BY <1>1 DEF HTypeOK, Blocks
  <2> HIDE DEF c
  <2> QED BY ONLY <2>1, <2>2 DEF Blocks
<1> HIDE DEF c
<1>4. HTypeOK'
  <2>1. DOMAIN live' \subseteq Nat /\ live' \in [DOMAIN live' -> Requests \ {0}]
    BY <1>1, <1>2 DEF HTypeOK
  <2> QED BY <1>1, <1>2, <1>3, <2>1 DEF HTypeOK
<1>5. Tiled' /\ Ends' /\ NoFitMissed' /\ OwnHeader'
  BY <1>1, <1>2, <1>3 DEF Tiled, Ends, NoFitMissed, OwnHeader, At
<1>6. Room'
  <2>1. \A u \in Threads : Pending(u)' => Pending(u) /\ call'[u].size = call[u].size
    BY <1>2 DEF Pending, At
  <2> QED BY <1>1, <1>2, <2>1, RoomKept
<1>7. Known'
  <2> SUFFICES ASSUME NEW u \in Threads PROVE KnownOf(u)'
    BY DEF Known
  <2>1. KnownOf(u) /\ call[u].fits \subseteq DOMAIN block /\ call' = call /\ last' = last
    BY <1>1, <1>2 DEF Known, HTypeOK
  <2>2. \A a \in DOMAIN block : \A k : Suitable(block[a], k) => Suitable(block'[a], k)
    BY <1>1, <1>3 DEF Suitable
  <2>3. At(u, "header") => call[u].at # c
    BY <1>1, <2>1 DEF KnownOf
  <2>4. At(u, "header") => Payload(call[u].at) \notin DOMAIN live'
    BY <1>2, <2>1 DEF KnownOf
  <2> QED BY <1>3, <2>1, <2>2, <2>3, <2>4 DEF KnownOf, At
<1>8. Covered'
  <2> SUFFICES ASSUME NEW q \in DOMAIN live'
               PROVE  /\ q - mcbSize \in DOMAIN block
                      /\ ~block'[q - mcbSize].is_available
                      /\ WholeBlock(live'[q]) <= block[q - mcbSize].size
    BY <1>3 DEF Covered
  <2>1. q \in DOMAIN live /\ live'[q] = live[q] /\ q # p /\ q \in Nat /\ p \in Nat
    BY <1>1, <1>2 DEF HTypeOK
  <2>2. q - mcbSize # c
    BY <2>1 DEF mcbSize, c
  <2> QED BY <1>1, <1>3, <2>1, <2>2 DEF Covered
<1> QED BY <1>4, <1>5, <1>6, <1>7, <1>8 DEF HInv

LEMMA StepKeeps ==
  ASSUME HInv, [Next]_vars
  PROVE  HInv'
<1>1. ASSUME Running, NEW t \in Threads, Kmalloc(t) PROVE HInv'
  <2>1. ~clashed
    BY <1>1 DEF Running
  <2> QED BY <1>1, <2>1, SearchKeeps, StrayKeeps, TakeKeeps, TestBreakKeeps, MoveBreakKeeps,
             ExtendKeeps, MoveLastKeeps, HeaderKeeps DEF Kmalloc
<1>2. ASSUME Running, NEW t \in Threads, NEW n \in Requests, Enter(t, n) PROVE HInv'
  BY <1>2, EnterKeeps DEF Running
<1>3. ASSUME Running, NEW p \in DOMAIN live, Kfree(p) PROVE HInv'
  BY <1>3, KfreeKeeps DEF Running
<1>4. CASE UNCHANGED vars
  <2>1. HTypeOK' /\ NoFitMissed'
    BY <1>4 DEF vars, HInv, HTypeOK, NoFitMissed, At
  <2>2. ~clashed => Tiled' /\ Ends' /\ Covered' /\ OwnHeader'
    BY <1>4 DEF vars, HInv, Tiled, Ends, Covered, OwnHeader, At
  <2>3. ~clashed => Known'
    BY <1>4 DEF vars, HInv, Known, KnownOf, At
  <2>4. ~clashed => Room'
    <3>1. \A u \in Threads : Pending(u)' => Pending(u) /\ call'[u].size = call[u].size
      BY <1>4 DEF vars, Pending, At
    <3> QED BY <1>4, <3>1, RoomKept DEF vars, HInv
  <2> QED BY <1>4, <2>1, <2>2, <2>3, <2>4 DEF HInv, vars
<1> QED BY <1>1, <1>2, <1>3, <1>4 DEF Next

\* The inductive invariant of the heap.
THEOREM HeapInvariance == Spec => []HInv
<1>1. HInv /\ [Next]_vars => HInv'
  BY StepKeeps
<1> QED BY <1>1, InitHolds, PTL DEF Spec

\* The variables have their types and every block is a multiple of 16 bytes at
\* a multiple of 16 from the start of the heap.
THEOREM HeapTypeCorrect == Spec => []HTypeOK
<1>1. HInv => HTypeOK
  BY DEF HInv
<1> QED BY <1>1, HeapInvariance, PTL

\* Until two calls clash, the blocks tile the managed memory, so the search
\* always meets a control block or the end, and the chain stays below the break.
THEOREM HeapTiled == Spec => []Tiled
<1>1. HInv => Tiled
  BY DEF HInv, Tiled
<1> QED BY <1>1, HeapInvariance, PTL

\* kmalloc panics only if every block that was free and large enough when the
\* call came in has been taken by another call since.
THEOREM FirstFitFindsFit == Spec => []NoFitMissed
<1>1. HInv => NoFitMissed
  BY DEF HInv
<1> QED BY <1>1, HeapInvariance, PTL

\* A block in use lies inside its chain block.
LEMMA LiveInside ==
  ASSUME HInv, ~clashed, NEW p \in DOMAIN live
  PROVE  /\ p - mcbSize \in DOMAIN block
         /\ p - mcbSize \in Nat /\ p \in Nat /\ live[p] \in Nat \ {0}
         /\ ~block[p - mcbSize].is_available
         /\ p + live[p] <= (p - mcbSize) + block[p - mcbSize].size
         /\ HeapStart <= p /\ p + live[p] <= HeapEnd
<1>1. p \in Nat /\ live[p] \in Requests \ {0} /\ live[p] \in Nat
  BY HeapAssumption DEF HInv, HTypeOK
<1>2. /\ p - mcbSize \in DOMAIN block /\ ~block[p - mcbSize].is_available
      /\ WholeBlock(live[p]) <= block[p - mcbSize].size
  BY DEF HInv, Covered
<1>3. /\ p - mcbSize \in Nat /\ block[p - mcbSize].size \in Nat
      /\ last \in Nat /\ current \in Nat
  BY <1>2 DEF HInv, HTypeOK, Blocks
<1>4. /\ HeapStart <= p - mcbSize /\ (p - mcbSize) + block[p - mcbSize].size <= last
      /\ last <= current /\ current <= HeapEnd
  BY <1>2 DEF HInv, Ends, Tiled
<1> HIDE DEF HInv
<1>5. live[p] + mcbSize <= WholeBlock(live[p]) /\ WholeBlock(live[p]) \in Nat
  BY <1>1, WholeBlockFits
<1> QED BY <1>1, <1>2, <1>3, <1>4, <1>5, HeapAssumption DEF mcbSize

\* A return of kmalloc whose chain block, at c with s bytes, is no block in use
\* is a step of Allocator: the chain's blocks do not overlap.
LEMMA ReturnIsAlloc ==
  ASSUME HInv, ~clashed, NEW t \in Threads, NEW c \in DOMAIN block, Return(t, c),
         call[t].request \in Requests \ {0},
         WholeBlock(call[t].request) <= block[c].size,
         Payload(c) \notin DOMAIN live
  PROVE  A!ANext
<1> DEFINE a == Payload(c)
           n == call[t].request
           s == block[c].size
<1>1. /\ c \in Nat /\ s \in Nat /\ HeapStart <= c /\ c + s <= last
      /\ last \in Nat /\ current \in Nat /\ last <= current /\ current <= HeapEnd
  BY DEF HInv, HTypeOK, Blocks, Ends, Tiled
<1>2. /\ n \in Nat \ {0} /\ n + mcbSize <= WholeBlock(n) /\ WholeBlock(n) \in Nat
      /\ WholeBlock(n) <= s /\ n \in Requests
  BY HeapAssumption, WholeBlockFits
<1>3. ASSUME NEW p \in DOMAIN live
      PROVE  p \in Nat /\ live[p] \in Nat /\ (p + live[p] <= c \/ c + s <= p)
  <2> DEFINE q == p - mcbSize
  <2>1. /\ q \in DOMAIN block /\ q \in Nat /\ p \in Nat /\ live[p] \in Nat
        /\ p + live[p] <= q + block[q].size /\ q <= p
    BY <1>3, LiveInside DEF mcbSize
  <2>2. q # c
    BY <2>1 DEF Payload, mcbSize
  <2>3. block[q].size \in Nat
    BY <2>1 DEF HInv, HTypeOK, Blocks
  <2>4. q < c => q + block[q].size <= c
    BY <2>1 DEF HInv, Tiled
  <2>5. c < q => c + s <= q
    BY <2>1 DEF HInv, Tiled
  <2> HIDE DEF q, s
  <2> QED BY <1>1, <2>1, <2>2, <2>3, <2>4, <2>5
<1>4. live' = [b \in DOMAIN live \cup {a} |-> IF b = a THEN n ELSE live[b]]
  BY DEF Return
<1> HIDE DEF n, s
<1>5. a \in Nat /\ c <= a /\ HeapStart <= a /\ a + n <= c + s /\ a + n <= HeapEnd
  BY <1>1, <1>2, HeapAssumption DEF Payload, mcbSize
<1> HIDE DEF a
<1>6. a \in HeapStart .. HeapEnd - 1
  BY <1>2, <1>5, HeapAssumption
<1>7. A!Bytes(a, n) \subseteq HeapStart .. HeapEnd - 1
  BY <1>2, <1>5, HeapAssumption DEF A!Bytes
<1>8. ASSUME NEW p \in DOMAIN live PROVE A!Bytes(a, n) \cap A!Bytes(p, live[p]) = {}
  BY <1>1, <1>2, <1>3, <1>5 DEF A!Bytes
<1>9. A!Alloc(a, n)
  BY <1>4, <1>7, <1>8 DEF A!Alloc
<1> QED BY <1>2, <1>6, <1>9 DEF A!ANext

\* Every step of the heap is a step of Allocator, changes no block in use or is
\* the clash of two calls.
LEMMA StepRefines ==
  ASSUME HInv, [Next]_vars
  PROVE  [A!ANext \/ clashed']_live
<1>1. ASSUME Running, NEW t \in Threads, Take(t) PROVE A!ANext \/ clashed'
  <2> SUFFICES ASSUME ~clashed' PROVE A!ANext
    OBVIOUS
  <2> DEFINE c == call[t].at
  <2>1. /\ c \in DOMAIN block /\ c \in Nat /\ ~clashed /\ Return(t, c)
        /\ call[t].request \in Requests \ {0}
        /\ WholeBlock(call[t].request) <= block[c].size
    BY <1>1 DEF HInv, HTypeOK, Known, KnownOf, Take, At, Running
  <2>2. block[c].is_available
    BY <1>1, <2>1 DEF Take, HInv, HTypeOK, Blocks
  <2>3. Payload(c) \notin DOMAIN live
    <3>1. Payload(c) - mcbSize = c
      BY <2>1 DEF Payload, mcbSize
    <3> QED BY <2>1, <2>2, <3>1 DEF HInv, Covered
  <2> QED BY <2>1, <2>3, ReturnIsAlloc
<1>2. ASSUME Running, NEW t \in Threads, Header(t) PROVE A!ANext
  <2> DEFINE c == call[t].at
  <2>1. ~clashed /\ At(t, "header") /\ Return(t, c)
    BY <1>2 DEF Header, Running
  <2>2. /\ c \in DOMAIN block /\ call[t].request \in Requests \ {0}
        /\ block[c].size = WholeBlock(call[t].request)
        /\ block[c].size \in Nat /\ Payload(c) \notin DOMAIN live
    BY <2>1 DEF HInv, HTypeOK, Known, KnownOf, At, Blocks
  <2>3. WholeBlock(call[t].request) <= block[c].size
    BY <2>2
  <2> QED BY <2>1, <2>2, <2>3, ReturnIsAlloc
<1>3. ASSUME Running, NEW p \in DOMAIN live, Kfree(p) PROVE A!ANext
  <2>1. p \in HeapStart .. HeapEnd - 1
    <3>1. ~clashed
      BY <1>3 DEF Running
    <3>2. /\ p \in Nat /\ live[p] \in Nat \ {0}
          /\ HeapStart <= p /\ p + live[p] <= HeapEnd
      BY <1>3, <3>1, LiveInside
    <3> QED BY <3>2, HeapAssumption
  <2> QED BY <1>3, <2>1 DEF Kfree, A!ANext, A!Free
<1>4. ASSUME NEW t \in Threads,
             \/ Find(t) \/ Skip(t) \/ Stray(t) \/ GiveUp(t) \/ TestBreak(t)
             \/ MoveBreak(t) \/ Extend(t) \/ MoveLast(t)
      PROVE  UNCHANGED live
  BY <1>4 DEF Find, Skip, Stray, GiveUp, TestBreak, MoveBreak, Extend, MoveLast
<1>5. ASSUME NEW t \in Threads, NEW n \in Requests, Enter(t, n) PROVE UNCHANGED live
  BY <1>5 DEF Enter
<1> QED BY <1>1, <1>2, <1>3, <1>4, <1>5 DEF Next, Kmalloc, vars

\* Until two calls clash, kmalloc and kfree implement Allocator: memory in use
\* is never given out again and blocks in use never overlap, for any number of
\* threads in kmalloc.
THEOREM HeapImplementsAllocator == Spec => ImplementsAllocator
<1>1. Init => A!AInit
  BY DEF Init, A!AInit
<1>2. HInv /\ [Next]_vars => [A!ANext \/ clashed']_live
  BY StepRefines
<1> QED BY <1>1, <1>2, HeapInvariance, PTL DEF Spec, ImplementsAllocator
==============================================================================
