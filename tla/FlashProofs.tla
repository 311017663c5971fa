---------------------------- MODULE FlashProofs ----------------------------
(***************************************************************************)
(* Facts about the flash driver that the proofs of its callers rest on:    *)
(* where pages lie, what one step of a call may change, and that the       *)
(* driver's variables keep their types.                                    *)
(***************************************************************************)
EXTENDS Flash, TLAPS

----------------------------------------------------------------------------
\* Arithmetic of the page mask.

\* Quotient and remainder by the page size.
LEMMA Division ==
  ASSUME NEW a \in Int, NEW p \in Nat \ {0}
  PROVE  /\ a \div p \in Int
         /\ a % p \in 0 .. p - 1
         /\ a = p * (a \div p) + (a % p)
BY SMT

\* Multiples of p are ordered as their quotients.
LEMMA MultipleOrder ==
  ASSUME NEW j \in Int, NEW q \in Int, NEW p \in Nat \ {0}, q < j
  PROVE  p * q + p <= p * j
<1>1. PICK d \in Nat : j = q + 1 + d
  <2>1. j - q - 1 \in Nat /\ j = q + 1 + (j - q - 1)  OBVIOUS
  <2> QED BY <2>1
<1>2. p * j = p * q + p + p * d  BY <1>1, SMT
<1>3. p * d >= 0  BY SMT
<1>4. p * q \in Int /\ p * d \in Int  OBVIOUS
<1> QED BY <1>2, <1>3, <1>4

\* An address at or after a page boundary has its page at or after it.
LEMMA PageAbove ==
  ASSUME NEW a \in Int, NEW s \in Int, NEW p \in Nat \ {0}, s % p = 0, s <= a
  PROVE  s <= a - (a % p)
<1> DEFINE q == a \div p
           j == s \div p
<1>1. /\ q \in Int /\ j \in Int /\ a % p \in 0 .. p - 1
      /\ a = p * q + (a % p) /\ s = p * j
  BY Division
<1> HIDE DEF q, j
<1>2. CASE q < j
  <2>1. p * q + p <= p * j  BY <1>1, <1>2, MultipleOrder
  <2>2. p * q \in Int  BY <1>1
  <2> QED BY <1>1, <2>1, <2>2
<1>3. CASE q = j  BY <1>1, <1>3
<1>4. CASE j < q
  <2>1. p * j + p <= p * q  BY <1>1, <1>4, MultipleOrder
  <2>2. p * j \in Int /\ p * q \in Int  BY <1>1
  <2> QED BY <1>1, <2>1, <2>2
<1> QED BY <1>1, <1>2, <1>3, <1>4

\* An address before a page boundary has its whole page before it.
LEMMA PageBelow ==
  ASSUME NEW a \in Int, NEW e \in Int, NEW p \in Nat \ {0}, e % p = 0, a < e
  PROVE  a - (a % p) + p <= e
<1> DEFINE q == a \div p
           k == e \div p
<1>1. /\ q \in Int /\ k \in Int /\ a % p \in 0 .. p - 1
      /\ a = p * q + (a % p) /\ e = p * k
  BY Division
<1> HIDE DEF q, k
<1>2. CASE q < k
  <2>1. p * q + p <= p * k  BY <1>1, <1>2, MultipleOrder
  <2>2. p * q \in Int  BY <1>1
  <2> QED BY <1>1, <2>1, <2>2
<1>3. CASE q = k  BY <1>1, <1>3
<1>4. CASE k < q
  <2>1. p * k + p <= p * q  BY <1>1, <1>4, MultipleOrder
  <2>2. p * k \in Int /\ p * q \in Int  BY <1>1
  <2> QED BY <1>1, <2>1, <2>2
<1> QED BY <1>1, <1>2, <1>3, <1>4

LEMMA Product ==
  ASSUME NEW k \in Int, NEW p \in Nat \ {0}
  PROVE  (p * k) % p = 0
<1> DEFINE e == p * k
           q == e \div p
<1>1. q \in Int /\ e % p \in 0 .. p - 1 /\ e = p * q + (e % p)
  <2>1. e \in Int  OBVIOUS
  <2> HIDE DEF e
  <2> QED BY <2>1, Division
<1> HIDE DEF q
<1>2. e = p * k /\ e \in Int  OBVIOUS
<1> HIDE DEF e
<1>3. SUFFICES e % p = 0  BY DEF e
<1>4. CASE q < k
  <2>1. p * q + p <= p * k  BY <1>1, <1>4, MultipleOrder
  <2>2. p * q \in Int  BY <1>1
  <2> QED BY <1>1, <1>2, <2>1, <2>2
<1>5. CASE k < q
  <2>1. p * k + p <= p * q  BY <1>1, <1>5, MultipleOrder
  <2>2. p * q \in Int  BY <1>1
  <2> QED BY <1>1, <1>2, <2>1, <2>2
<1>6. CASE q = k
  <2>1. e = p * q  BY <1>2, <1>6
  <2>2. p * q \in Int /\ e % p \in Int  BY <1>1
  <2> DEFINE m == p * q
             r == e % p
  <2>3. m \in Int /\ r \in Int /\ m = m + r  BY <1>1, <2>1, <2>2
  <2> HIDE DEF m, r
  <2>4. r = 0  BY <2>3
  <2> QED BY <2>4 DEF r
<1> QED BY <1>1, <1>4, <1>5, <1>6

\* The sum of two multiples of the page size is one, and so is the start of a
\* page.
LEMMA MultipleSum ==
  ASSUME NEW a \in Int, NEW b \in Int, NEW p \in Nat \ {0}, a % p = 0, b % p = 0
  PROVE  (a + b) % p = 0
<1> DEFINE i == a \div p
           j == b \div p
<1>1. i \in Int /\ a = p * i
  <2>1. a = p * i + (a % p) /\ i \in Int  BY Division
  <2> QED BY <2>1
<1>2. j \in Int /\ b = p * j
  <2>1. b = p * j + (b % p) /\ j \in Int  BY Division
  <2> QED BY <2>1
<1> HIDE DEF i, j
<1>3. a + b = p * (i + j) /\ i + j \in Int  BY <1>1, <1>2, SMT
<1>4. (p * (i + j)) % p = 0  BY <1>3, Product
<1> QED BY <1>3, <1>4

LEMMA PageStartMultiple ==
  ASSUME NEW a \in Int, NEW p \in Nat \ {0}
  PROVE  (a - (a % p)) % p = 0
<1>1. a \div p \in Int /\ a % p \in 0 .. p - 1 /\ a = p * (a \div p) + (a % p)  BY Division
<1>2. a - (a % p) = p * (a \div p)
  <2> DEFINE m == p * (a \div p)
             r == a % p
  <2>1. m \in Int /\ r \in Int /\ a = m + r  BY <1>1
  <2> HIDE DEF m, r
  <2>2. a - r = m  BY <2>1
  <2> QED BY <2>2 DEF m, r
<1>3. (p * (a \div p)) % p = 0  BY <1>1, Product
<1> QED BY <1>2, <1>3

----------------------------------------------------------------------------
\* Pages.

\* The page of an address between two page boundaries lies between them.
LEMMA PageInside ==
  ASSUME NEW s \in Nat, s % FLASH_PAGE_SIZE = 0,
         NEW e \in Nat, e % FLASH_PAGE_SIZE = 0,
         NEW a \in Nat, s <= a, a < e
  PROVE  \A w \in PageWords(a) : s <= w /\ w < e
<1>1. FLASH_PAGE_SIZE \in Nat \ {0}  BY LayoutAssumption
<1>2. s <= PAGE_START_ADDR(a)  BY <1>1, PageAbove DEF PAGE_START_ADDR
<1>3. PAGE_START_ADDR(a) + FLASH_PAGE_SIZE <= e
  <2>1. a \in Int /\ e \in Int  OBVIOUS
  <2>2. (a - (a % FLASH_PAGE_SIZE)) + FLASH_PAGE_SIZE <= e  BY <1>1, <2>1, PageBelow
  <2> QED BY <2>2 DEF PAGE_START_ADDR
<1>4. PAGE_START_ADDR(a) \in Int  BY <1>1, Division DEF PAGE_START_ADDR
<1>5. TAKE w \in PageWords(a)
<1>6. w \in Int /\ PAGE_START_ADDR(a) <= w /\ w < PAGE_START_ADDR(a) + FLASH_PAGE_SIZE
  BY LayoutAssumption DEF PageWords, Words
<1> QED BY <1>1, <1>2, <1>3, <1>4, <1>6

----------------------------------------------------------------------------
\* One step of a call.

\* Every word an erase or a write leaves has a value a word may have.
LEMMA FillType ==
  ASSUME NEW mem \in Memory, NEW S, NEW v \in WordValues
  PROVE  Fill(mem, S, v) \in Memory
BY DEF Fill, Memory

LEMMA ProgramType ==
  ASSUME NEW mem \in Memory, NEW S, NEW data \in Data
  PROVE  Program(mem, S, data) \in Memory
BY DEF Program, Burn, Memory, WordValues

\* Every call a caller can make is well typed.
LEMMA CallTypes ==
  /\ NoCall \in CallType
  /\ \A address \in Nat : Flash_ErasePage(address) \in CallType
  /\ \A address \in Nat, data \in Data, length \in Nat :
       Flash_ProgramPage(address, data, length) \in CallType
<1>1. NoCall \in CallType
  BY FlashAssumption DEF NoCall, CallType, Data, flash_status_t
<1>2. ASSUME NEW address \in Nat PROVE Flash_ErasePage(address) \in CallType
  BY <1>1 DEF Flash_ErasePage, CallType, flash_status_t
<1>3. ASSUME NEW address \in Nat, NEW data \in Data, NEW length \in Nat
      PROVE  Flash_ProgramPage(address, data, length) \in CallType
  <2> DEFINE accepted == Flash_IsAddressValid(address) /\ length <= FLASH_PAGE_SIZE
  <2>1. Flash_ProgramPage(address, data, length) =
          [NoCall EXCEPT
             !.op = "program", !.address = address, !.data = data, !.length = length,
             !.step = IF accepted THEN "erase" ELSE "done",
             !.status = IF accepted THEN "FLASH_SUCCESS" ELSE "FLASH_ERROR_INVALID_ADDRESS"]
    BY DEF Flash_ProgramPage
  <2> HIDE DEF accepted
  <2> QED BY <1>1, <2>1 DEF CallType, flash_status_t
<1> QED BY <1>1, <1>2, <1>3

\* A failed erase spoils or clears words of its page and leaves the others.
LEMMA DamageOfPage ==
  ASSUME FlashTypeOK, NEW page, NEW mem \in Damaged(page)
  PROVE  /\ mem \in Memory
         /\ \A w \in Words : /\ mem[w] \in {flash[w], Erased, Garbled}
                             /\ w \notin page => mem[w] = flash[w]
<1>1. flash \in Memory /\ Erased \in WordValues /\ Garbled \in WordValues
  BY DEF FlashTypeOK, WordValues
<1>2. CASE mem = flash  BY <1>1, <1>2
<1>3. CASE mem = Fill(flash, page, Garbled)
  BY <1>1, <1>3 DEF Fill, Memory
<1>4. CASE \E cleared, spoilt \in SUBSET page :
             mem = Fill(Fill(flash, cleared, Erased), spoilt, Garbled)
  <2>1. PICK cleared \in SUBSET page, spoilt \in SUBSET page :
          mem = Fill(Fill(flash, cleared, Erased), spoilt, Garbled)
    BY <1>4
  <2> DEFINE partly == Fill(flash, cleared, Erased)
  <2>2. partly = [w \in Words |-> IF w \in cleared THEN Erased ELSE flash[w]]
    BY DEF Fill
  <2>3. mem = [w \in Words |-> IF w \in spoilt THEN Garbled ELSE partly[w]]
    BY <2>1 DEF Fill
  <2> HIDE DEF partly
  <2>4. \A w \in Words : mem[w] = IF w \in spoilt THEN Garbled
                                  ELSE IF w \in cleared THEN Erased ELSE flash[w]
    BY <2>2, <2>3
  <2>5. mem \in Memory  BY <1>1, <2>3, <2>4 DEF Memory
  <2> QED BY <2>4, <2>5
<1> QED BY <1>2, <1>3, <1>4 DEF Damaged

\* The driver keeps the types of its variables; attempt stays within
\* MAX_RETRY_COUNT because the loop gives up at it.
LEMMA FlashStepType ==
  ASSUME FlashTypeOK, FlashStep
  PROVE  FlashTypeOK'
<1>1. CASE PageErase
  <2>1. flash' \in Memory
    BY <1>1, FillType, DamageOfPage DEF PageErase, FlashTypeOK, CallType, WordValues
  <2>2. call' \in {[call EXCEPT !.step = "write", !.attempt = 1],
                   [call EXCEPT !.step = "done"],
                   [call EXCEPT !.step = "done", !.status = "FLASH_ERROR_ERASE"]}
    BY <1>1 DEF PageErase
  <2>3. 1 \in 0 .. MAX_RETRY_COUNT  BY FlashAssumption
  <2> QED BY <2>1, <2>2, <2>3 DEF FlashTypeOK, CallType, flash_status_t
<1>2. CASE WriteAttempt
  <2>1. PICK n \in 0 .. call.length, ok \in BOOLEAN :
          LET mem == Program(flash, BlockWords(call.address, n), call.data)
          IN flash' = mem /\ call' = AfterWrite(WriteOutcome(mem, ok))
    BY <1>2 DEF WriteAttempt
  <2> DEFINE outcome == WriteOutcome(Program(flash, BlockWords(call.address, n), call.data), ok)
  <2>2. flash' \in Memory  BY <2>1, ProgramType DEF FlashTypeOK, CallType
  <2>3. outcome \in {"stored", "exhausted", "retry"}
        /\ (outcome = "retry" => call.attempt # MAX_RETRY_COUNT)
    BY DEF WriteOutcome
  <2>4. call' = AfterWrite(outcome)  BY <2>1
  <2> HIDE DEF outcome
  <2>5. outcome = "retry" => call.attempt + 1 \in 0 .. MAX_RETRY_COUNT
    BY <2>3, FlashAssumption DEF FlashTypeOK, CallType
  <2>6. call' \in {[call EXCEPT !.step = "done"],
                   [call EXCEPT !.step = "done", !.status = "FLASH_ERROR_WRITE"]}
        \/ (outcome = "retry" /\ call' = [call EXCEPT !.attempt = call.attempt + 1])
    BY <2>3, <2>4 DEF AfterWrite, NextAttempt
  <2> QED BY <2>2, <2>5, <2>6 DEF FlashTypeOK, CallType, flash_status_t
<1> QED BY <1>1, <1>2 DEF FlashStep

\* What a step leaves of the call: it goes on with the same request, to the
\* write or to the end, and an erase never gets to a write.
LEMMA FlashStepCall ==
  ASSUME FlashTypeOK, FlashStep
  PROVE  /\ call.step \in {"erase", "write"}
         /\ call'.op = call.op /\ call'.address = call.address
         /\ call'.data = call.data /\ call'.length = call.length
         /\ call'.step \in {"write", "done"}
         /\ call'.step # "done" => call'.status = call.status
         /\ call.op # "program" /\ call.step = "erase" => call'.step = "done"
<1>1. CASE PageErase
  BY <1>1 DEF PageErase, FlashTypeOK, CallType
<1>2. CASE WriteAttempt
  <2>1. call.step = "write" /\ \E outcome \in {"stored", "exhausted", "retry"} :
          call' = AfterWrite(outcome)
    BY <1>2 DEF WriteAttempt, WriteOutcome
  <2> QED BY <2>1 DEF AfterWrite, FlashTypeOK, CallType
<1> QED BY <1>1, <1>2 DEF FlashStep

\* What a step leaves in the flash: only the block may take the data, only
\* the page and the block may change at all, and what changes otherwise is
\* erased or spoilt.
LEMMA FlashStepFrame ==
  ASSUME FlashTypeOK, FlashStep, NEW w \in Words
  PROVE  /\ flash'[w] \in {flash[w], Erased, Garbled, call.data}
         /\ w \notin BlockWords(call.address, call.length) =>
              flash'[w] \in {flash[w], Erased, Garbled}
         /\ w \notin Footprint(call.address, call.length) => flash'[w] = flash[w]
<1>1. CASE PageErase
  <2>1. CASE flash' = Fill(flash, PageWords(call.address), Erased)
    BY <2>1 DEF Fill, Footprint
  <2>2. CASE flash' \in Damaged(PageWords(call.address))
    <3>1. /\ flash'[w] \in {flash[w], Erased, Garbled}
          /\ w \notin PageWords(call.address) => flash'[w] = flash[w]
      BY <2>2, DamageOfPage
    <3> QED BY <3>1 DEF Footprint
  <2> QED BY <1>1, <2>1, <2>2 DEF PageErase
<1>2. CASE WriteAttempt
  <2>1. PICK n \in 0 .. call.length :
          flash' = Program(flash, BlockWords(call.address, n), call.data)
    BY <1>2 DEF WriteAttempt
  <2>2. w \in BlockWords(call.address, n) => w \in BlockWords(call.address, call.length)
    BY LayoutAssumption DEF BlockWords, FlashTypeOK, CallType, Words
  <2>3. flash'[w] = IF w \in BlockWords(call.address, n)
                    THEN Burn(flash[w], call.data) ELSE flash[w]
    BY <2>1 DEF Program
  <2> QED BY <2>2, <2>3 DEF Burn, Footprint
<1> QED BY <1>1, <1>2 DEF FlashStep

\* A program call that returns FLASH_SUCCESS has just found its block in the
\* flash.
LEMMA FlashStepStored ==
  ASSUME FlashTypeOK, FlashStep, call.op = "program",
         call.status = "FLASH_SUCCESS",
         call'.step = "done", call'.status = "FLASH_SUCCESS"
  PROVE  Holds(flash', BlockWords(call.address, call.length), call.data)
<1>1. ~PageErase
  BY DEF PageErase, FlashTypeOK, CallType
<1>2. PICK ok \in BOOLEAN : call' = AfterWrite(WriteOutcome(flash', ok))
  BY <1>1 DEF FlashStep, WriteAttempt
<1>3. call.step = "write"  BY <1>1 DEF FlashStep, WriteAttempt
<1>4. WriteOutcome(flash', ok) \in {"stored", "exhausted", "retry"}  BY DEF WriteOutcome
<1>5. WriteOutcome(flash', ok) = "stored"
  BY <1>2, <1>3, <1>4 DEF AfterWrite, FlashTypeOK, CallType
<1> QED BY <1>5 DEF WriteOutcome

\* What a call in progress has still to do at most: the erase and one write for
\* every attempt the loop of Flash_ProgramPage has left.
CallWork ==
  CASE call.step = "erase" -> MAX_RETRY_COUNT + 1
    [] call.step = "write" -> MAX_RETRY_COUNT + 1 - call.attempt
    [] OTHER               -> 0

LEMMA CallWorkRange == FlashTypeOK => CallWork \in 0 .. MAX_RETRY_COUNT + 1
BY FlashAssumption DEF FlashTypeOK, CallType, CallWork

\* Each step of a call leaves it less to do.
LEMMA FlashStepWork ==
  ASSUME FlashTypeOK, FlashStep
  PROVE  CallWork' < CallWork
<1> USE FlashAssumption DEF CallWork
<1>1. call \in CallType  BY DEF FlashTypeOK
<1>2. CASE PageErase
  <2>1. call.step = "erase"  BY <1>2 DEF PageErase
  <2>2. (call'.step = "write" /\ call'.attempt = 1) \/ call'.step = "done"
    BY <1>1, <1>2 DEF PageErase, CallType
  <2>3. CallWork = MAX_RETRY_COUNT + 1  BY <2>1
  <2>4. CallWork' \in {MAX_RETRY_COUNT, 0}  BY <2>2
  <2> QED BY <2>3, <2>4
<1>3. CASE WriteAttempt
  <2>1. call.step = "write" /\ call.attempt \in 0 .. MAX_RETRY_COUNT
    BY <1>1, <1>3 DEF WriteAttempt, CallType
  <2>2. PICK outcome \in {"stored", "exhausted", "retry"} :
          /\ call' = AfterWrite(outcome)
          /\ outcome \in {"exhausted", "retry"} =>
               (outcome = "exhausted" <=> call.attempt = MAX_RETRY_COUNT)
    BY <1>3 DEF WriteAttempt, WriteOutcome
  <2>3. CASE outcome = "retry"
    <3>1. call.attempt + 1 <= MAX_RETRY_COUNT  BY <2>1, <2>2, <2>3
    <3>2. call'.step = "write" /\ call'.attempt = call.attempt + 1
      BY <1>1, <2>1, <2>2, <2>3 DEF AfterWrite, NextAttempt, CallType
    <3> QED BY <2>1, <3>1, <3>2
  <2>4. CASE outcome # "retry"
    <3>1. call'.step = "done"
      BY <1>1, <2>2, <2>4 DEF AfterWrite, CallType
    <3>2. CallWork' = 0  BY <3>1
    <3>3. call.attempt <= MAX_RETRY_COUNT /\ CallWork = MAX_RETRY_COUNT + 1 - call.attempt
      BY <2>1
    <3> QED BY <2>1, <3>2, <3>3
  <2> QED BY <2>3, <2>4
<1> QED BY <1>2, <1>3 DEF FlashStep
=============================================================================
