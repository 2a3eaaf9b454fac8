---------------------- MODULE DomainEntityServiceProofs ----------------------
(***************************************************************************)
(* Proofs about DomainEntityService for any number of callers, keys,       *)
(* values and calls, any faults, and any requests that reach the services  *)
(* in the order a cache needs.                                             *)
(***************************************************************************)
EXTENDS DomainEntityService, TLAPS

\* A request names one service or two.
LEMMA RequestServices ==
  ASSUME NEW r \in Requests
  PROVE  /\ r \in AllRequests
         /\ Len(r.dataServices) \in {1, 2}
         /\ r.dataServices[1] \in Services
         /\ Len(r.dataServices) > 1 => r.dataServices[2] \in Services
<1>1. r \in AllRequests
  BY ConstantsAssumption
<1>2. PICK n \in 1 .. 2 : r.dataServices \in [1 .. n -> Services]
  BY <1>1 DEF AllRequests, Orders
<1>3. r.dataServices \in Seq(Services) /\ Len(r.dataServices) = n
  BY <1>2
<1>. QED
  BY <1>1, <1>2, <1>3

\* The state of a call: the request is there while it runs.
Serving == \A c \in Callers : Running(c) => request[c] \in Requests

Typed == TypeOK /\ Serving

LEMMA AfterType ==
  ASSUME NEW r \in AllRequests, NEW old \in Found, r.op \in {"create", "update"} => r.value # None
  PROVE  After(r, old) \in Found /\ Returned(r, old) \in Found
  BY DEF AllRequests, After, Returned, Found

LEMMA ToSaveType ==
  ASSUME Typed, NEW c \in Callers, Running(c)
  PROVE  ToSave(c) \in Found /\ Result(c) \in Found
<1>1. request[c] \in AllRequests
  BY RequestServices DEF Typed, Serving
<1>. QED
  BY <1>1 DEF Typed, TypeOK, ToSave, Result, AllRequests, Found

LEMMA PutType ==
  ASSUME TypeOK, NEW s \in Services, NEW k \in Keys, NEW new \in Found, Put(s, k, new)
  PROVE  /\ data' \in [Services -> [Keys -> Found]]
         /\ seen' \in [Callers -> SUBSET Found]
  BY DEF TypeOK, Put

LEMMA EndType ==
  ASSUME Typed, NEW c \in Callers, NEW how \in Found \cup {"threw"}, End(c, how)
  PROVE  /\ request' \in [Callers -> Requests \cup {NoRequest}]
         /\ position' \in [Callers -> 0 .. 3]
         /\ firstResult' \in [Callers -> Found]
         /\ results' \in [Callers -> [Services -> Found]]
         /\ outcome' \in [Callers -> Found \cup {"none", "threw"}]
         /\ Serving'
  BY DEF Typed, TypeOK, Serving, Running, End, Nowhere, Found

LEMMA InitTyped == Init => Typed
  BY ConstantsAssumption
     DEF Init, Typed, TypeOK, Serving, Running, Found, Nowhere

LEMMA CallTyped ==
  ASSUME Typed, NEW c \in Callers, NEW r \in Requests, Call(c, r)
  PROVE  Typed'
<1>1. r \in AllRequests /\ r.key \in Keys
  BY RequestServices DEF AllRequests
<1>2. data[Main][r.key] \in Found
  BY <1>1, ConstantsAssumption DEF Typed, TypeOK
<1>3. Nowhere \in [Services -> Found] /\ None \in Found
  BY DEF Nowhere, Found
<1>4. calls' \in 0 .. MaxCalls
  BY ConstantsAssumption DEF Call, Typed, TypeOK
<1>5. writing' \in [Callers -> BOOLEAN]
  BY DEF Call, Typed, TypeOK, WritesKey, Running
<1>6. Serving'
  BY DEF Call, Typed, TypeOK, Serving, Running
<1>7. seen' \in [Callers -> SUBSET Found]
  BY <1>2 DEF Call, Typed, TypeOK
<1>8. unsettled' \in SUBSET Keys
  BY <1>1 DEF Call, Typed, TypeOK
<1>9. /\ data' \in [Services -> [Keys -> Found]]
      /\ request' \in [Callers -> Requests \cup {NoRequest}]
      /\ position' \in [Callers -> 0 .. 3]
      /\ firstResult' \in [Callers -> Found]
      /\ results' \in [Callers -> [Services -> Found]]
      /\ outcome' \in [Callers -> Found \cup {"none", "threw"}]
  BY <1>3 DEF Call, Typed, TypeOK
<1>. QED
  BY <1>4, <1>5, <1>6, <1>7, <1>8, <1>9 DEF Call, Typed, TypeOK

\* a caller's step that runs its method in service s
LEMMA MethodTyped ==
  ASSUME Typed, NEW c \in Callers, Running(c), NEW s \in Services,
         Put(s, request[c].key, After(request[c], data[s][request[c].key])),
         Written(c, s, After(request[c], data[s][request[c].key]))
  PROVE  /\ data' \in [Services -> [Keys -> Found]]
         /\ seen' \in [Callers -> SUBSET Found]
         /\ lastWrite' \in [Keys -> Found]
         /\ Returned(request[c], data[s][request[c].key]) \in Found
<1>1. /\ request[c] \in AllRequests
      /\ request[c].key \in Keys
      /\ request[c].op \in {"create", "update"} => request[c].value # None
  BY RequestServices, ConstantsAssumption DEF Typed, Serving, AllRequests
<1>2. data[s][request[c].key] \in Found
  BY <1>1 DEF Typed, TypeOK
<1>3. /\ After(request[c], data[s][request[c].key]) \in Found
      /\ Returned(request[c], data[s][request[c].key]) \in Found
  BY <1>1, <1>2, AfterType
<1>4. lastWrite' \in [Keys -> Found]
  BY <1>1, <1>3 DEF Typed, TypeOK, Written
<1>. QED
  BY <1>1, <1>3, <1>4, PutType DEF Typed

LEMMA ThrowTyped ==
  ASSUME Typed, NEW c \in Callers, Running(c), EndByThrow(c)
  PROVE  /\ request' \in [Callers -> Requests \cup {NoRequest}]
         /\ position' \in [Callers -> 0 .. 3]
         /\ firstResult' \in [Callers -> Found]
         /\ results' \in [Callers -> [Services -> Found]]
         /\ outcome' \in [Callers -> Found \cup {"none", "threw"}]
         /\ unsettled' \in SUBSET Keys
         /\ Serving'
<1>1. request[c].key \in Keys
  BY RequestServices DEF Typed, Serving, AllRequests
<1>2. unsettled' \in SUBSET Keys
  BY <1>1 DEF EndByThrow, Typed, TypeOK
<1>. QED
  BY <1>2, EndType DEF EndByThrow

LEMMA RunFirstTyped ==
  ASSUME Typed, NEW c \in Callers, RunFirst(c)
  PROVE  Typed'
<1>1. Running(c)
  BY DEF RunFirst, Running
<1>2. request[c].dataServices[1] \in Services
  BY <1>1, RequestServices DEF Typed, Serving
<1>3. /\ data' \in [Services -> [Keys -> Found]]
      /\ seen' \in [Callers -> SUBSET Found]
      /\ lastWrite' \in [Keys -> Found]
      /\ Returned(request[c], data[request[c].dataServices[1]][request[c].key]) \in Found
  BY <1>1, <1>2, MethodTyped DEF RunFirst
<1>4. CASE EndByThrow(c)
  BY <1>1, <1>3, <1>4, ThrowTyped DEF RunFirst, Typed, TypeOK
<1>5. CASE /\ firstResult' = [firstResult EXCEPT ![c] =
                Returned(request[c], data[request[c].dataServices[1]][request[c].key])]
           /\ position' = [position EXCEPT ![c] = 2]
           /\ UNCHANGED <<request, results, outcome, unsettled>>
  <2>1. Serving'
    BY <1>1, <1>5 DEF Typed, TypeOK, Serving, Running
  <2>2. firstResult' \in [Callers -> Found] /\ position' \in [Callers -> 0 .. 3]
    BY <1>3, <1>5 DEF Typed, TypeOK
  <2>3. UNCHANGED <<request, results, outcome, unsettled, calls, writing, overwritten>>
    BY <1>5 DEF RunFirst
  <2>. QED
    BY <1>3, <2>1, <2>2, <2>3 DEF Typed, TypeOK
<1>. QED
  BY <1>4, <1>5 DEF RunFirst

LEMMA RunAdditionalTyped ==
  ASSUME Typed, NEW c \in Callers, RunAdditional(c)
  PROVE  Typed'
<1>1. Running(c)
  BY DEF RunAdditional, Running
<1>2. request[c].dataServices[2] \in Services
  BY <1>1, RequestServices DEF Typed, Serving, RunAdditional, HasAdditional
<1>3. /\ data' \in [Services -> [Keys -> Found]]
      /\ seen' \in [Callers -> SUBSET Found]
      /\ lastWrite' \in [Keys -> Found]
      /\ Returned(request[c], data[request[c].dataServices[2]][request[c].key]) \in Found
  BY <1>1, <1>2, MethodTyped DEF RunAdditional
<1>4. CASE EndByThrow(c)
  BY <1>1, <1>3, <1>4, ThrowTyped DEF RunAdditional, Typed, TypeOK
<1>5. CASE /\ results' = [results EXCEPT ![c][request[c].dataServices[2]] =
                Returned(request[c], data[request[c].dataServices[2]][request[c].key])]
           /\ position' = [position EXCEPT ![c] = 3]
           /\ UNCHANGED <<request, firstResult, outcome, unsettled>>
  <2>1. Serving'
    BY <1>1, <1>5 DEF Typed, TypeOK, Serving, Running
  <2>2. results' \in [Callers -> [Services -> Found]]
    BY <1>2, <1>3, <1>5 DEF Typed, TypeOK
  <2>3. position' \in [Callers -> 0 .. 3]
    BY <1>5 DEF Typed, TypeOK
  <2>4. UNCHANGED <<request, firstResult, outcome, unsettled, calls, writing, overwritten>>
    BY <1>5 DEF RunAdditional
  <2>. QED
    BY <1>3, <2>1, <2>2, <2>3, <2>4 DEF Typed, TypeOK
<1>. QED
  BY <1>4, <1>5 DEF RunAdditional

LEMMA ReturnTyped ==
  ASSUME Typed, NEW c \in Callers, Return(c)
  PROVE  Typed'
<1>1. firstResult[c] \in Found \cup {"threw"}
  BY DEF Typed, TypeOK
<1>. QED
  BY <1>1, EndType DEF Return, Typed, TypeOK

LEMMA SaveAndReturnTyped ==
  ASSUME Typed, NEW c \in Callers, SaveAndReturn(c)
  PROVE  Typed'
<1>1. Running(c)
  BY DEF SaveAndReturn, AllRan, Running
<1>2. request[c].key \in Keys
  BY <1>1, RequestServices DEF Typed, Serving, AllRequests
<1>3. ToSave(c) \in Found /\ Result(c) \in Found
  BY <1>1, ToSaveType
<1>4. /\ data' \in [Services -> [Keys -> Found]]
      /\ seen' \in [Callers -> SUBSET Found]
  BY <1>2, <1>3, PutType, ConstantsAssumption DEF SaveAndReturn, Typed
<1>5. overwritten' \in SUBSET Keys
  BY <1>2 DEF SaveAndReturn, Typed, TypeOK
<1>6. PICK how \in Found \cup {"threw"} : End(c, how)
  BY <1>3 DEF SaveAndReturn
<1>. QED
  BY <1>4, <1>5, <1>6, EndType DEF SaveAndReturn, Typed, TypeOK

LEMMA StepTyped == Typed /\ [Next]_vars => Typed'
<1>. SUFFICES ASSUME Typed, [Next]_vars
              PROVE  Typed'
  OBVIOUS
<1>1. ASSUME NEW c \in Callers, NEW r \in Requests, Call(c, r)
      PROVE  Typed'
  BY <1>1, CallTyped
<1>2. ASSUME NEW c \in Callers, Step(c)
      PROVE  Typed'
  BY <1>2, RunFirstTyped, RunAdditionalTyped, ReturnTyped, SaveAndReturnTyped DEF Step
<1>3. ASSUME NEW c \in Callers, Throw(c)
      PROVE  Typed'
  BY <1>3, ThrowTyped DEF Throw, Typed, TypeOK
<1>4. ASSUME NEW s \in Services, NEW k \in Keys, Expire(s, k)
      PROVE  Typed'
  <2>1. /\ data' \in [Services -> [Keys -> Found]]
        /\ seen' \in [Callers -> SUBSET Found]
    BY <1>4, PutType DEF Expire, Typed, Found
  <2>. QED
    BY <1>4, <2>1 DEF Expire, calling, Typed, TypeOK, Serving, Running
<1>5. CASE UNCHANGED vars
  BY <1>5 DEF vars, calling, Typed, TypeOK, Serving, Running
<1>. QED
  BY <1>1, <1>2, <1>3, <1>4, <1>5 DEF Next

\* Services, callers and the history keep their types, whatever is asked of which services
\* and whatever throws where.
THEOREM TypeCorrect == Spec => []TypeOK
<1>1. Typed => TypeOK
  BY DEF Typed
<1>. QED
  BY <1>1, InitTyped, StepTyped, PTL DEF Spec

-----------------------------------------------------------------------------
(* Writes.                                                                 *)

\* The write of a caller's step: the request's, to service s.
Method(c, s) ==
  /\ Running(c) /\ s \in Services
  /\ Put(s, request[c].key, After(request[c], data[s][request[c].key]))
  /\ Written(c, s, After(request[c], data[s][request[c].key]))

LEMMA FirstMethod ==
  ASSUME Typed, NEW c \in Callers, RunFirst(c)
  PROVE  Method(c, request[c].dataServices[1])
<1>1. Running(c)
  BY DEF RunFirst, Running
<1>. QED
  BY <1>1, RequestServices DEF RunFirst, Method, Typed, Serving

LEMMA AdditionalMethod ==
  ASSUME Typed, NEW c \in Callers, RunAdditional(c)
  PROVE  Method(c, request[c].dataServices[2])
<1>1. Running(c)
  BY DEF RunAdditional, Running
<1>. QED
  BY <1>1, RequestServices DEF RunAdditional, HasAdditional, Method, Typed, Serving

LEMMA MethodStands ==
  ASSUME Typed, LastWriteStands, NEW c \in Callers, NEW s, Method(c, s), overwritten' = overwritten
  PROVE  LastWriteStands'
<1>1. request[c].key \in Keys
  BY RequestServices DEF Method, Typed, Serving, AllRequests
<1>2. CASE s = Main /\ request[c].op # "find"
  BY <1>1, <1>2, ConstantsAssumption DEF Method, Put, Written, LastWriteStands, Typed, TypeOK
<1>3. CASE s # Main
  BY <1>1, <1>3, ConstantsAssumption DEF Method, Put, Written, LastWriteStands, Typed, TypeOK
<1>4. CASE request[c].op = "find"
  <2>1. After(request[c], data[s][request[c].key]) = data[s][request[c].key]
    BY <1>4 DEF After
  <2>. QED
    BY <1>1, <1>4, <2>1, ConstantsAssumption
       DEF Method, Put, Written, LastWriteStands, Typed, TypeOK
<1>. QED
  BY <1>2, <1>3, <1>4

\* What a save in the main service does: nothing, or the key counts as overwritten.
LEMMA SaveChanges ==
  ASSUME Typed, NEW c \in Callers, SaveAndReturn(c)
  PROVE  /\ Running(c)
         /\ request[c].op = "find"
         /\ request[c].key \in Keys
         /\ overwritten \subseteq overwritten'
         /\ \A s \in Services, k \in Keys \ overwritten' : data'[s][k] = data[s][k]
<1>1. Running(c)
  BY DEF SaveAndReturn, AllRan, Running
<1>2. request[c].key \in Keys
  BY <1>1, RequestServices DEF Typed, Serving, AllRequests
<1>3. request[c].op = "find"
  BY DEF SaveAndReturn, ToSave
<1>4. \A s \in Services, k \in Keys \ overwritten' : data'[s][k] = data[s][k]
  BY <1>2, ConstantsAssumption DEF SaveAndReturn, Put, Typed, TypeOK
<1>. QED
  BY <1>1, <1>2, <1>3, <1>4 DEF SaveAndReturn

LEMMA StepStands ==
  ASSUME Main \notin Volatile, Typed, LastWriteStands, [Next]_vars
  PROVE  LastWriteStands'
<1>1. ASSUME NEW c \in Callers, NEW r \in Requests, Call(c, r)
      PROVE  LastWriteStands'
  BY <1>1 DEF Call, LastWriteStands
<1>2. ASSUME NEW c \in Callers, RunFirst(c)
      PROVE  LastWriteStands'
  BY <1>2, FirstMethod, MethodStands DEF RunFirst
<1>3. ASSUME NEW c \in Callers, RunAdditional(c)
      PROVE  LastWriteStands'
  BY <1>3, AdditionalMethod, MethodStands DEF RunAdditional
<1>4. ASSUME NEW c \in Callers, Return(c) \/ Throw(c)
      PROVE  LastWriteStands'
  BY <1>4 DEF Return, Throw, LastWriteStands
<1>5. ASSUME NEW c \in Callers, SaveAndReturn(c)
      PROVE  LastWriteStands'
  <2>1. lastWrite' = lastWrite
    BY <1>5 DEF SaveAndReturn
  <2>. QED
    BY <1>5, <2>1, SaveChanges, ConstantsAssumption DEF LastWriteStands
<1>6. ASSUME NEW s \in Services, NEW k \in Keys, Expire(s, k)
      PROVE  LastWriteStands'
  <2>1. s # Main
    BY <1>6 DEF Expire
  <2>. QED
    BY <1>6, <2>1, ConstantsAssumption DEF Expire, Put, LastWriteStands, Typed, TypeOK
<1>7. CASE UNCHANGED vars
  BY <1>7 DEF vars, LastWriteStands
<1>. QED
  BY <1>1, <1>2, <1>3, <1>4, <1>5, <1>6, <1>7 DEF Next, Step

\* The main service holds what was last written to it, whichever services the requests name
\* and in which order, as long as its own entries do not run out.
THEOREM WritesStand ==
  ASSUME Main \notin Volatile
  PROVE  Spec => []LastWriteStands
<1>1. Init => LastWriteStands
  BY ConstantsAssumption DEF Init, LastWriteStands
<1>2. Typed /\ LastWriteStands /\ [Next]_vars => LastWriteStands'
  BY StepStands
<1>. QED
  BY <1>1, <1>2, InitTyped, StepTyped, PTL DEF Spec

-----------------------------------------------------------------------------
(* Services in agreement.                                                  *)

\* Writes go to the main service and then, always, to the one other service.
WritesThrough ==
  \A r \in Requests : r.op # "find" =>
    /\ Len(r.dataServices) = 2 /\ r.dataServices[1] = Main
    /\ Services \ {Main} = {r.dataServices[2]}
    /\ ~r.runOnNoFirstServiceResultOnly
    /\ ~r.filterByFirstServiceResultFields

Settled == Keys \ (unsettled \cup overwritten)

Agrees(k) == \A s \in Services : data[s][k] \in {None, data[Main][k]}

\* One caller at a time writes a settled key.
OneWriter ==
  \A k \in Keys \ unsettled : \A c, d \in Callers : WritesKey(c, k) /\ WritesKey(d, k) => c = d

\* Between the two services of a write they agree on what it will make of them.
WriteUnderWay ==
  \A c \in Callers : \A k \in Settled :
    WritesKey(c, k) /\ position[c] = 2 =>
      \A s \in Services : After(request[c], data[s][k]) \in {None, data[Main][k]}

OthersAgree ==
  \A k \in Settled :
    (\A c \in Callers : ~(WritesKey(c, k) /\ position[c] = 2)) => Agrees(k)

InAgreement == OneWriter /\ WriteUnderWay /\ OthersAgree

LEMMA ImpliesAgree == InAgreement => ServicesAgree
  BY DEF InAgreement, OthersAgree, Settled, Agrees, ServicesAgree, WritesKey

\* A step that writes no settled key and leaves the callers between two services there.
LEMMA NothingWritten ==
  ASSUME InAgreement,
         Settled' \subseteq Settled,
         \A s \in Services, k \in Settled' : data'[s][k] = data[s][k],
         OneWriter',
         \A c \in Callers, k \in Settled' :
           /\ WritesKey(c, k)' /\ position'[c] = 2 =>
                /\ WritesKey(c, k) /\ position[c] = 2
                /\ request'[c] = request[c]
           /\ WritesKey(c, k) /\ position[c] = 2 => WritesKey(c, k)' /\ position'[c] = 2
  PROVE  InAgreement'
<1>0. Settled' \subseteq Keys \ unsettled'
  BY DEF Settled
<1>2. WriteUnderWay'
  <2>. SUFFICES ASSUME NEW c \in Callers, NEW k \in Settled', WritesKey(c, k)', position'[c] = 2,
                       NEW s \in Services
                PROVE  After(request'[c], data'[s][k]) \in {None, data'[Main][k]}
    BY DEF WriteUnderWay
  <2>1. /\ k \in Settled /\ WritesKey(c, k) /\ request'[c] = request[c] /\ position[c] = 2
    BY <1>0
  <2>2. data'[s][k] = data[s][k] /\ data'[Main][k] = data[Main][k]
    BY ConstantsAssumption
  <2>. QED
    BY <2>1, <2>2 DEF InAgreement, WriteUnderWay
<1>3. OthersAgree'
  <2>. SUFFICES ASSUME NEW k \in Settled',
                       \A c \in Callers : ~(WritesKey(c, k)' /\ position'[c] = 2)
                PROVE  Agrees(k)'
    BY DEF OthersAgree
  <2>1. \A c \in Callers : ~(WritesKey(c, k) /\ position[c] = 2)
    OBVIOUS
  <2>2. Agrees(k)
    BY <2>1 DEF InAgreement, OthersAgree
  <2>. QED
    BY <2>2, ConstantsAssumption DEF Agrees
<1>. QED
  BY <1>2, <1>3 DEF InAgreement

LEMMA FewerWriters ==
  ASSUME OneWriter, unsettled \subseteq unsettled',
         \A c \in Callers, k \in Keys \ unsettled' : WritesKey(c, k)' => WritesKey(c, k)
  PROVE  OneWriter'
  BY DEF OneWriter

\* A call that ends, or goes on in the next service.
Ends(c) ==
  /\ position' = [position EXCEPT ![c] = 0]
  /\ request' = [request EXCEPT ![c] = NoRequest]

GoesOn(c, at) == position' = [position EXCEPT ![c] = at] /\ request' = request

LEMMA OtherCallers ==
  ASSUME Typed, NEW c \in Callers, Ends(c) \/ (Running(c) /\ \E at \in {2, 3} : GoesOn(c, at))
  PROVE  /\ \A d \in Callers \ {c} : position'[d] = position[d] /\ request'[d] = request[d]
         /\ \A d \in Callers, k \in Keys : WritesKey(d, k)' => WritesKey(d, k)
         /\ \A d \in Callers \ {c}, k \in Keys : WritesKey(d, k) => WritesKey(d, k)'
         /\ Ends(c) => \A k \in Keys : ~WritesKey(c, k)'
  BY DEF Typed, TypeOK, Ends, GoesOn, WritesKey, Running

LEMMA CallAgrees ==
  ASSUME Typed, InAgreement, NEW c \in Callers, NEW r \in Requests, Call(c, r)
  PROVE  InAgreement'
<1>1. /\ ~Running(c)
      /\ position' = [position EXCEPT ![c] = 1]
      /\ request' = [request EXCEPT ![c] = r]
      /\ data' = data /\ overwritten' = overwritten
      /\ unsettled \subseteq unsettled'
      /\ r.op # "find" /\ (\E d \in Callers : WritesKey(d, r.key)) => r.key \in unsettled'
  BY DEF Call
<1>2. \A d \in Callers \ {c} : position'[d] = position[d] /\ request'[d] = request[d]
  BY <1>1 DEF Typed, TypeOK
<1>3. \A d \in Callers \ {c}, k \in Keys : WritesKey(d, k)' <=> WritesKey(d, k)
  BY <1>2 DEF WritesKey, Running
<1>4. position'[c] = 1 /\ request'[c] = r
  BY <1>1 DEF Typed, TypeOK
<1>5. \A k \in Keys : WritesKey(c, k)' => r.op # "find" /\ r.key = k
  BY <1>4 DEF WritesKey
<1>6. OneWriter'
  <2>. SUFFICES ASSUME NEW k \in Keys \ unsettled', NEW d \in Callers, NEW e \in Callers,
                       WritesKey(d, k)', WritesKey(e, k)'
                PROVE  d = e
    BY DEF OneWriter
  <2>. QED
    BY <1>1, <1>3, <1>5 DEF InAgreement, OneWriter
<1>7. \A k \in Keys : ~WritesKey(c, k)
  BY <1>1 DEF WritesKey
<1>8. Settled' \subseteq Settled /\ Settled' \subseteq Keys
  BY <1>1 DEF Settled
<1>. QED
  BY <1>1, <1>2, <1>3, <1>4, <1>6, <1>7, <1>8, NothingWritten

\* A call ends that is no write between two services, or whose key is unsettled now.
LEMMA EndAgrees ==
  ASSUME Typed, InAgreement, NEW c \in Callers, Ends(c),
         unsettled \subseteq unsettled', overwritten \subseteq overwritten',
         \A s \in Services, k \in Settled' : data'[s][k] = data[s][k],
         \A k \in Settled' : WritesKey(c, k) => position[c] # 2
  PROVE  InAgreement'
<1>1. Settled' \subseteq Settled /\ Settled' \subseteq Keys
  BY DEF Settled
<1>2. OneWriter'
  BY OtherCallers, FewerWriters DEF InAgreement
<1>. QED
  BY <1>1, <1>2, OtherCallers, NothingWritten

\* a find changes nothing in any service
LEMMA FindChangesNothing ==
  ASSUME Typed, NEW c \in Callers, NEW s, Method(c, s), request[c].op = "find"
  PROVE  data' = data
<1>1. request[c].key \in Keys
  BY RequestServices DEF Method, Typed, Serving, AllRequests
<1>2. After(request[c], data[s][request[c].key]) = data[s][request[c].key]
  BY DEF After
<1>. QED
  BY <1>1, <1>2 DEF Method, Put, Typed, TypeOK

LEMMA ThrownAgrees ==
  ASSUME Typed, InAgreement, NEW c \in Callers, NEW s, Method(c, s), EndByThrow(c),
         overwritten' = overwritten
  PROVE  InAgreement'
<1>1. Ends(c) /\ unsettled \subseteq unsettled'
  BY DEF EndByThrow, End, Ends
<1>2. \A k \in Settled' : ~WritesKey(c, k)
  BY DEF EndByThrow, WritesKey, Settled
<1>3. request[c].key \in Keys /\ request[c].op \in Operations
  BY RequestServices DEF Method, Typed, Serving, AllRequests
<1>4. \A t \in Services, k \in Settled' : data'[t][k] = data[t][k]
  <2>1. CASE request[c].op = "find"
    BY <2>1, FindChangesNothing
  <2>2. CASE request[c].op # "find"
    <3>1. request[c].key \notin Settled'
      BY <2>2 DEF EndByThrow, Settled
    <3>2. Settled' \subseteq Keys
      BY DEF Settled
    <3>. QED
      BY <1>3, <3>1, <3>2 DEF Method, Put, Typed, TypeOK
  <2>. QED
    BY <2>1, <2>2
<1>. QED
  BY <1>1, <1>2, <1>4, EndAgrees

\* a find goes on to its next service
LEMMA FindGoesOn ==
  ASSUME Typed, InAgreement, NEW c \in Callers, NEW s, Method(c, s), request[c].op = "find",
         NEW at \in {2, 3}, GoesOn(c, at), UNCHANGED <<unsettled, overwritten>>
  PROVE  InAgreement'
<1>1. data' = data /\ Running(c)
  BY FindChangesNothing DEF Method
<1>2. Settled' = Settled /\ Settled' \subseteq Keys
  BY DEF Settled
<1>3. \A k \in Keys : ~WritesKey(c, k)
  BY DEF WritesKey
<1>4. OneWriter'
  BY <1>1, OtherCallers, FewerWriters DEF InAgreement
<1>. QED
  BY <1>1, <1>2, <1>3, <1>4, OtherCallers, NothingWritten

\* Doing a method again changes nothing, and doing it where there was nothing or the same
\* as in the main service does not set the services apart.
LEMMA AfterAgain ==
  ASSUME NEW r \in AllRequests, NEW old, NEW other \in {None, old}
  PROVE  /\ After(r, After(r, old)) = After(r, old)
         /\ After(r, other) \in {None, After(r, old)}
  BY DEF After, AllRequests, Operations

\* a write goes on from the main service
LEMMA WriteGoesOn ==
  ASSUME Typed, InAgreement, NEW c \in Callers, Method(c, Main), request[c].op # "find",
         position[c] = 1, GoesOn(c, 2), UNCHANGED <<unsettled, overwritten>>
  PROVE  InAgreement'
<1>1. /\ request[c] \in AllRequests
      /\ request[c].key \in Keys
  BY RequestServices DEF Method, Typed, Serving, AllRequests
<1>2. /\ \A s \in Services \ {Main}, k \in Keys : data'[s][k] = data[s][k]
      /\ \A s \in Services, k \in Keys \ {request[c].key} : data'[s][k] = data[s][k]
      /\ data'[Main][request[c].key] = After(request[c], data[Main][request[c].key])
  BY <1>1, ConstantsAssumption DEF Method, Put, Typed, TypeOK
<1>3. Settled' = Settled /\ Settled \subseteq Keys
  BY DEF Settled
<1>4. OneWriter'
  BY OtherCallers, FewerWriters DEF InAgreement, Method
<1>5. /\ WritesKey(c, request[c].key) /\ WritesKey(c, request[c].key)'
      /\ \A k \in Keys \ {request[c].key} : ~WritesKey(c, k) /\ ~WritesKey(c, k)'
      /\ position'[c] = 2 /\ request'[c] = request[c]
  BY DEF Method, GoesOn, WritesKey, Running, Typed, TypeOK
<1>6. ASSUME NEW d \in Callers \ {c}
      PROVE  /\ position'[d] = position[d] /\ request'[d] = request[d]
             /\ \A k \in Keys : WritesKey(d, k)' <=> WritesKey(d, k)
             /\ request[c].key \in Settled => ~WritesKey(d, request[c].key)
  <2>1. request[c].key \in Settled => ~WritesKey(d, request[c].key)
    BY <1>1, <1>5 DEF InAgreement, OneWriter, Settled
  <2>. QED
    BY <2>1, OtherCallers DEF Method
<1>7. WriteUnderWay'
  <2>. SUFFICES ASSUME NEW d \in Callers, NEW k \in Settled, WritesKey(d, k)', position'[d] = 2,
                       NEW s \in Services
                PROVE  After(request'[d], data'[s][k]) \in {None, data'[Main][k]}
    BY <1>3 DEF WriteUnderWay
  <2>1. CASE k # request[c].key
    <3>1. d # c
      BY <1>3, <1>5, <2>1
    <3>2. WritesKey(d, k) /\ position[d] = 2 /\ request'[d] = request[d]
      BY <1>3, <1>6, <3>1
    <3>3. data'[s][k] = data[s][k] /\ data'[Main][k] = data[Main][k]
      BY <1>2, <1>3, <2>1, ConstantsAssumption
    <3>. QED
      BY <3>2, <3>3 DEF InAgreement, WriteUnderWay
  <2>2. CASE k = request[c].key
    <3>1. d = c
      BY <1>3, <1>6, <2>2
    <3>2. \A e \in Callers : ~(WritesKey(e, k) /\ position[e] = 2)
      BY <1>6, <2>2
    <3>3. data[s][k] \in {None, data[Main][k]}
      BY <3>2 DEF InAgreement, OthersAgree, Agrees
    <3>4. s # Main => data'[s][k] = data[s][k]
      BY <1>2, <2>2, <1>1
    <3>. QED
      BY <1>1, <1>2, <1>5, <2>2, <3>1, <3>3, <3>4, AfterAgain
  <2>. QED
    BY <2>1, <2>2
<1>8. OthersAgree'
  <2>. SUFFICES ASSUME NEW k \in Settled, \A d \in Callers : ~(WritesKey(d, k)' /\ position'[d] = 2)
                PROVE  Agrees(k)'
    BY <1>3 DEF OthersAgree
  <2>1. k # request[c].key
    BY <1>5
  <2>2. \A d \in Callers : ~(WritesKey(d, k) /\ position[d] = 2)
    BY <1>3, <1>5, <1>6, <2>1
  <2>3. Agrees(k)
    BY <2>2 DEF InAgreement, OthersAgree
  <2>. QED
    BY <1>2, <1>3, <2>1, <2>3, ConstantsAssumption DEF Agrees
<1>. QED
  BY <1>4, <1>7, <1>8 DEF InAgreement

\* a write has reached the other service too
LEMMA WriteArrives ==
  ASSUME Typed, InAgreement, NEW c \in Callers, NEW s, Method(c, s), request[c].op # "find",
         Services \ {Main} = {s},
         position[c] = 2, GoesOn(c, 3), UNCHANGED <<unsettled, overwritten>>
  PROVE  InAgreement'
<1>1. /\ request[c] \in AllRequests
      /\ request[c].key \in Keys
  BY RequestServices DEF Method, Typed, Serving, AllRequests
<1>2. /\ \A t \in Services, k \in Keys \ {request[c].key} : data'[t][k] = data[t][k]
      /\ data'[s][request[c].key] = After(request[c], data[s][request[c].key])
      /\ data'[Main] = data[Main]
  BY <1>1, ConstantsAssumption DEF Method, Put, Typed, TypeOK
<1>3. Settled' = Settled /\ Settled \subseteq Keys
  BY DEF Settled
<1>4. OneWriter'
  BY OtherCallers, FewerWriters DEF InAgreement, Method
<1>5. /\ WritesKey(c, request[c].key)
      /\ \A k \in Keys \ {request[c].key} : ~WritesKey(c, k)
      /\ position'[c] = 3
  BY DEF Method, GoesOn, WritesKey, Running, Typed, TypeOK
<1>6. ASSUME NEW d \in Callers \ {c}
      PROVE  /\ position'[d] = position[d] /\ request'[d] = request[d]
             /\ \A k \in Keys : WritesKey(d, k)' <=> WritesKey(d, k)
             /\ request[c].key \in Settled => ~WritesKey(d, request[c].key)
  <2>1. request[c].key \in Settled => ~WritesKey(d, request[c].key)
    BY <1>1, <1>5 DEF InAgreement, OneWriter, Settled
  <2>. QED
    BY <2>1, OtherCallers DEF Method
<1>7. WriteUnderWay'
  <2>. SUFFICES ASSUME NEW d \in Callers, NEW k \in Settled, WritesKey(d, k)', position'[d] = 2,
                       NEW t \in Services
                PROVE  After(request'[d], data'[t][k]) \in {None, data'[Main][k]}
    BY <1>3 DEF WriteUnderWay
  <2>1. d # c
    BY <1>5
  <2>2. /\ WritesKey(d, k) /\ position[d] = 2 /\ request'[d] = request[d]
        /\ k # request[c].key
    BY <1>3, <1>6, <2>1
  <2>3. data'[t][k] = data[t][k] /\ data'[Main][k] = data[Main][k]
    BY <1>2, <1>3, <2>2, ConstantsAssumption
  <2>. QED
    BY <2>2, <2>3 DEF InAgreement, WriteUnderWay
<1>8. OthersAgree'
  <2>. SUFFICES ASSUME NEW k \in Settled, \A d \in Callers : ~(WritesKey(d, k)' /\ position'[d] = 2)
                PROVE  Agrees(k)'
    BY <1>3 DEF OthersAgree
  <2>1. CASE k = request[c].key
    <3>1. data'[s][k] \in {None, data[Main][k]}
      BY <1>2, <1>5, <2>1 DEF InAgreement, WriteUnderWay, Method
    <3>. QED
      BY <1>2, <3>1 DEF Agrees
  <2>2. CASE k # request[c].key
    <3>1. \A d \in Callers : ~(WritesKey(d, k) /\ position[d] = 2)
      BY <1>3, <1>5, <1>6, <2>2
    <3>2. Agrees(k)
      BY <3>1 DEF InAgreement, OthersAgree
    <3>. QED
      BY <1>2, <1>3, <2>2, <3>2, ConstantsAssumption DEF Agrees
  <2>. QED
    BY <2>1, <2>2
<1>. QED
  BY <1>4, <1>7, <1>8 DEF InAgreement

LEMMA ExpireAgrees ==
  ASSUME Main \notin Volatile, Typed, InAgreement, NEW s \in Services, NEW k \in Keys, Expire(s, k)
  PROVE  InAgreement'
<1>1. /\ s # Main /\ UNCHANGED <<request, position, unsettled, overwritten>>
      /\ data' = [data EXCEPT ![s][k] = None]
  BY DEF Expire, Put, calling
<1>2. \A t \in Services, j \in Keys : data'[t][j] = data[t][j] \/ (t = s /\ data'[t][j] = None)
  BY <1>1 DEF Typed, TypeOK
<1>3. data'[Main] = data[Main]
  BY <1>1, ConstantsAssumption DEF Typed, TypeOK
<1>4. \A c \in Callers, j \in Keys : WritesKey(c, j)' <=> WritesKey(c, j)
  BY <1>1 DEF WritesKey, Running
<1>5. Settled' = Settled /\ Settled \subseteq Keys
  BY <1>1 DEF Settled
<1>6. OneWriter'
  BY <1>1, <1>4 DEF InAgreement, OneWriter
<1>7. WriteUnderWay'
  <2>. SUFFICES ASSUME NEW c \in Callers, NEW j \in Settled, WritesKey(c, j), position[c] = 2,
                       NEW t \in Services
                PROVE  After(request[c], data'[t][j]) \in {None, data[Main][j]}
    BY <1>1, <1>3, <1>4, <1>5 DEF WriteUnderWay
  <2>1. After(request[c], data[t][j]) \in {None, data[Main][j]}
    BY DEF InAgreement, WriteUnderWay
  <2>2. CASE data'[t][j] = data[t][j]
    BY <2>1, <2>2
  <2>3. CASE data'[t][j] = None
    BY <2>1, <2>3 DEF After
  <2>. QED
    BY <1>2, <1>5, <2>2, <2>3
<1>8. OthersAgree'
  <2>. SUFFICES ASSUME NEW j \in Settled, \A c \in Callers : ~(WritesKey(c, j) /\ position[c] = 2)
                PROVE  Agrees(j)'
    BY <1>1, <1>4, <1>5 DEF OthersAgree
  <2>. QED
    BY <1>2, <1>3, <1>5 DEF InAgreement, OthersAgree, Agrees
<1>. QED
  BY <1>6, <1>7, <1>8 DEF InAgreement

LEMMA StepAgrees ==
  ASSUME Main \notin Volatile, WritesThrough, Typed, InAgreement, [Next]_vars
  PROVE  InAgreement'
<1>1. ASSUME NEW c \in Callers, NEW r \in Requests, Call(c, r)
      PROVE  InAgreement'
  BY <1>1, CallAgrees
<1>2. ASSUME NEW c \in Callers, RunFirst(c)
      PROVE  InAgreement'
  <2>1. Method(c, request[c].dataServices[1]) /\ request[c] \in Requests
    BY <1>2, FirstMethod DEF Method, Typed, Serving
  <2>2. CASE EndByThrow(c)
    BY <1>2, <2>1, <2>2, ThrownAgrees DEF RunFirst
  <2>3. CASE GoesOn(c, 2) /\ unsettled' = unsettled
    <3>1. CASE request[c].op = "find"
      BY <1>2, <2>1, <2>3, <3>1, FindGoesOn DEF RunFirst
    <3>2. CASE request[c].op # "find"
      <4>1. request[c].dataServices[1] = Main
        BY <2>1, <3>2 DEF WritesThrough
      <4>. QED
        BY <1>2, <2>1, <2>3, <3>2, <4>1, WriteGoesOn DEF RunFirst
    <3>. QED
      BY <3>1, <3>2
  <2>. QED
    BY <1>2, <2>2, <2>3 DEF RunFirst, GoesOn
<1>3. ASSUME NEW c \in Callers, RunAdditional(c)
      PROVE  InAgreement'
  <2>1. Method(c, request[c].dataServices[2]) /\ request[c] \in Requests
    BY <1>3, AdditionalMethod DEF Method, Typed, Serving
  <2>2. CASE EndByThrow(c)
    BY <1>3, <2>1, <2>2, ThrownAgrees DEF RunAdditional
  <2>3. CASE GoesOn(c, 3) /\ unsettled' = unsettled
    <3>1. CASE request[c].op = "find"
      BY <1>3, <2>1, <2>3, <3>1, FindGoesOn DEF RunAdditional
    <3>2. CASE request[c].op # "find"
      <4>1. Services \ {Main} = {request[c].dataServices[2]}
        BY <2>1, <3>2 DEF WritesThrough
      <4>. QED
        BY <1>3, <2>1, <2>3, <3>2, <4>1, WriteArrives DEF RunAdditional
    <3>. QED
      BY <3>1, <3>2
  <2>. QED
    BY <1>3, <2>2, <2>3 DEF RunAdditional, GoesOn
<1>4. ASSUME NEW c \in Callers, Return(c)
      PROVE  InAgreement'
  <2>1. Running(c)
    BY <1>4 DEF Return, AllRan, Running
  <2>2. request[c].op # "find" => position[c] # 2
    BY <1>4, <2>1 DEF WritesThrough, Typed, Serving, Return, AllRan, HasAdditional, Runs
  <2>3. \A k \in Settled' : WritesKey(c, k) => position[c] # 2
    BY <2>2 DEF WritesKey
  <2>. QED
    BY <1>4, <2>3, EndAgrees DEF Return, End, Ends
<1>5. ASSUME NEW c \in Callers, SaveAndReturn(c)
      PROVE  InAgreement'
  <2>1. \A k \in Keys : ~WritesKey(c, k)
    BY <1>5, SaveChanges DEF WritesKey
  <2>2. \A s \in Services, k \in Settled' : data'[s][k] = data[s][k]
    BY <1>5, SaveChanges DEF Settled
  <2>3. Ends(c) /\ unsettled' = unsettled
    BY <1>5 DEF SaveAndReturn, End, Ends
  <2>4. Settled' \subseteq Keys
    BY DEF Settled
  <2>. QED
    BY <1>5, <2>1, <2>2, <2>3, <2>4, SaveChanges, EndAgrees
<1>6. ASSUME NEW c \in Callers, Throw(c)
      PROVE  InAgreement'
  <2>1. Ends(c) /\ unsettled \subseteq unsettled' /\ UNCHANGED <<data, overwritten>>
    BY <1>6 DEF Throw, EndByThrow, End, Ends
  <2>2. \A k \in Settled' : ~WritesKey(c, k)
    BY <1>6 DEF Throw, EndByThrow, WritesKey, Settled
  <2>. QED
    BY <2>1, <2>2, EndAgrees
<1>7. ASSUME NEW s \in Services, NEW k \in Keys, Expire(s, k)
      PROVE  InAgreement'
  BY <1>7, ExpireAgrees
<1>8. CASE UNCHANGED vars
  BY <1>8 DEF vars, calling, InAgreement, OneWriter, WriteUnderWay, OthersAgree, Agrees, Settled,
              WritesKey, Running
<1>. QED
  BY <1>1, <1>2, <1>3, <1>4, <1>5, <1>6, <1>7, <1>8 DEF Next, Step

\* A cache that every write reaches after the main service holds what the main service
\* holds or nothing whenever no write runs, whatever is read through either of them.
THEOREM ServicesInAgreement ==
  ASSUME Main \notin Volatile, WritesThrough
  PROVE  Spec => []ServicesAgree
<1>1. Init => InAgreement
  BY ConstantsAssumption DEF Init, InAgreement, OneWriter, WriteUnderWay, OthersAgree, Agrees,
                             WritesKey, Running, Settled
<1>2. Typed /\ InAgreement /\ [Next]_vars => InAgreement'
  BY StepAgrees
<1>. QED
  BY <1>1, <1>2, InitTyped, StepTyped, ImpliesAgree, PTL DEF Spec

-----------------------------------------------------------------------------
(* Reads.                                                                  *)

\* A find asks the main service first, or the cache and then the main service if the cache
\* has nothing, whose result it returns then.
ReadsThrough ==
  \A r \in Requests : r.op = "find" =>
    \/ r.dataServices[1] = Main
    \/ /\ Len(r.dataServices) = 2 /\ r.dataServices[2] = Main
       /\ ~r.filterByFirstServiceResultFields
       /\ r.saveAdditionalResultsFrom = Main /\ r.useResultsForFirstService

Undisturbed(c) ==
  /\ Running(c) /\ request[c].op = "find"
  /\ request[c].key \notin unsettled \cup overwritten
  /\ ~writing[c]

\* What an undisturbed find has been given was in the main service while it ran.
Witnessed(c) ==
  LET ds == request[c].dataServices
  IN  Undisturbed(c) =>
        /\ \A d \in Callers : ~WritesKey(d, request[c].key)
        /\ data[Main][request[c].key] \in seen[c]
        /\ position[c] # 1 => firstResult[c] \in seen[c] \/ (ds[1] # Main /\ firstResult[c] = None)
        /\ \A s \in Services : results[c][s] \in seen[c] \cup {None}
        /\ position[c] = 3 /\ ds[1] # Main => results[c][Main] \in seen[c]

AllWitnessed == \A c \in Callers : Witnessed(c)

\* a find that a step of another caller, or of none, leaves alone
LEMMA StillWitnessed ==
  ASSUME NEW c \in Callers, Witnessed(c),
         UNCHANGED <<request[c], position[c], firstResult[c], results[c]>>,
         writing[c] => writing'[c],
         unsettled \subseteq unsettled', overwritten \subseteq overwritten',
         Undisturbed(c)' => \A d \in Callers : WritesKey(d, request[c].key)' => WritesKey(d, request[c].key),
         seen[c] \subseteq seen'[c],
         Undisturbed(c) /\ data[Main][request[c].key] \in seen[c] => data'[Main][request[c].key] \in seen'[c]
  PROVE  Witnessed(c)'
<1>. SUFFICES ASSUME Undisturbed(c)'
              PROVE  Witnessed(c)'
  BY DEF Witnessed
<1>1. Undisturbed(c)
  BY DEF Undisturbed, Running
<1>. QED
  BY <1>1 DEF Witnessed

\* what is put into the main service is seen by every find of the key
LEMMA PutSeen ==
  ASSUME Typed, NEW s \in Services, NEW k \in Keys, NEW new, Put(s, k, new), NEW c \in Callers, Running(c)
  PROVE  /\ seen[c] \subseteq seen'[c]
         /\ request[c].key \in Keys
         /\ data[Main][request[c].key] \in seen[c] => data'[Main][request[c].key] \in seen'[c]
<1>1. request[c].key \in Keys
  BY RequestServices DEF Typed, Serving, AllRequests
<1>2. CASE s = Main /\ request[c].key = k
  BY <1>1, <1>2 DEF Put, Typed, TypeOK
<1>3. CASE s # Main \/ request[c].key # k
  BY <1>1, <1>3, ConstantsAssumption DEF Put, Typed, TypeOK
<1>. QED
  BY <1>1, <1>2, <1>3

\* Another caller's call goes on or ends, whatever it puts where.
LEMMA OtherGoesOn ==
  ASSUME Typed, NEW c \in Callers, Ends(c) \/ (Running(c) /\ \E at \in {2, 3} : GoesOn(c, at)),
         UNCHANGED <<data, seen>> \/ \E s \in Services, k \in Keys, new \in Found : Put(s, k, new),
         unsettled \subseteq unsettled', overwritten \subseteq overwritten',
         writing' = writing,
         NEW d \in Callers \ {c}, Witnessed(d), UNCHANGED <<firstResult[d], results[d]>>
  PROVE  Witnessed(d)'
<1>1. CASE ~Running(d)
  BY <1>1, OtherCallers DEF Witnessed, Undisturbed, Running
<1>2. CASE Running(d)
  <2>1. request[d].key \in Keys
    BY <1>2, RequestServices DEF Typed, Serving, AllRequests
  <2>2. \A e \in Callers : WritesKey(e, request[d].key)' => WritesKey(e, request[d].key)
    BY <2>1, OtherCallers
  <2>3. /\ seen[d] \subseteq seen'[d]
        /\ data[Main][request[d].key] \in seen[d] => data'[Main][request[d].key] \in seen'[d]
    BY <1>2, PutSeen
  <2>. QED
    BY <2>2, <2>3, OtherCallers, StillWitnessed
<1>. QED
  BY <1>1, <1>2

LEMMA CallWitnessed ==
  ASSUME Typed, AllWitnessed, NEW c \in Callers, NEW r \in Requests, Call(c, r)
  PROVE  AllWitnessed'
<1>1. /\ request'[c] = r /\ position'[c] = 1 /\ seen'[c] = {data[Main][r.key]}
      /\ results'[c] = Nowhere /\ firstResult'[c] = None
      /\ writing'[c] = \E e \in Callers : WritesKey(e, r.key)
      /\ UNCHANGED <<data, overwritten>>
      /\ unsettled \subseteq unsettled'
      /\ ~Running(c)
  BY DEF Call, Typed, TypeOK
<1>2. ASSUME NEW d \in Callers \ {c}
      PROVE  /\ UNCHANGED <<request[d], position[d], firstResult[d], results[d], seen[d]>>
             /\ writing'[d] = (writing[d] \/ (Running(d) /\ r.op # "find" /\ request[d].key = r.key))
  BY DEF Call, Typed, TypeOK
<1>3. Witnessed(c)'
  <2>. SUFFICES ASSUME Undisturbed(c)'
                PROVE  Witnessed(c)'
    BY DEF Witnessed
  <2>1. \A d \in Callers : ~WritesKey(d, r.key)'
    BY <1>1, <1>2 DEF Undisturbed, WritesKey, Running
  <2>. QED
    BY <1>1, <2>1 DEF Witnessed, Nowhere
<1>4. ASSUME NEW d \in Callers \ {c}
      PROVE  Witnessed(d)'
  <2>1. Witnessed(d)
    BY DEF AllWitnessed
  <2>2. \A e \in Callers \ {c} : WritesKey(e, request[d].key)' => WritesKey(e, request[d].key)
    BY <1>2 DEF WritesKey, Running
  <2>3. Undisturbed(d)' => ~WritesKey(c, request[d].key)'
    BY <1>1, <1>2 DEF Undisturbed, WritesKey, Running
  <2>4. writing[d] => writing'[d]
    BY <1>2
  <2>. QED
    BY <1>1, <1>2, <2>1, <2>2, <2>3, <2>4, StillWitnessed
<1>. QED
  BY <1>3, <1>4 DEF AllWitnessed

\* what a method returned to an undisturbed find
LEMMA Returns ==
  ASSUME Typed, InAgreement, NEW c \in Callers, Witnessed(c), Undisturbed(c), NEW s, Method(c, s)
  PROVE  LET got == Returned(request[c], data[s][request[c].key])
         IN  /\ s = Main => got \in seen'[c]
             /\ got \in seen'[c] \cup {None}
<1>1. request[c].key \in Keys
  BY RequestServices DEF Method, Typed, Serving, AllRequests
<1>2. Returned(request[c], data[s][request[c].key]) = data[s][request[c].key]
  BY DEF Undisturbed, Returned
<1>3. request[c].key \in Settled
  BY <1>1 DEF Undisturbed, Settled
<1>4. Agrees(request[c].key)
  BY <1>3 DEF InAgreement, OthersAgree, Witnessed
<1>5. data[s][request[c].key] \in {None, data[Main][request[c].key]}
  BY <1>4 DEF Agrees, Method
<1>6. data[Main][request[c].key] \in seen'[c]
  BY <1>1, PutSeen DEF Method, Witnessed
<1>. QED
  BY <1>2, <1>5, <1>6

\* a caller ends its call, whatever it puts where
LEMMA EndWitnessed ==
  ASSUME Typed, AllWitnessed, NEW c \in Callers, NEW how, End(c, how),
         UNCHANGED <<data, seen>> \/ \E s \in Services, k \in Keys, new \in Found : Put(s, k, new),
         unsettled \subseteq unsettled', overwritten \subseteq overwritten', writing' = writing
  PROVE  AllWitnessed'
<1>1. Ends(c)
  BY DEF End, Ends
<1>2. ~Running(c)'
  BY DEF End, Running, Typed, TypeOK
<1>3. \A d \in Callers \ {c} : UNCHANGED <<firstResult[d], results[d]>>
  BY DEF End, Typed, TypeOK
<1>4. \A d \in Callers \ {c} : Witnessed(d)'
  BY <1>1, <1>3, OtherGoesOn DEF AllWitnessed
<1>. QED
  BY <1>2, <1>4 DEF AllWitnessed, Witnessed, Undisturbed

LEMMA MethodPuts ==
  ASSUME Typed, NEW c \in Callers, NEW s, Method(c, s)
  PROVE  \E k \in Keys, new \in Found : Put(s, k, new)
<1>1. /\ request[c] \in AllRequests
      /\ request[c].key \in Keys
      /\ request[c].op \in {"create", "update"} => request[c].value # None
  BY RequestServices, ConstantsAssumption DEF Method, Typed, Serving, AllRequests
<1>2. data[s][request[c].key] \in Found
  BY <1>1 DEF Method, Typed, TypeOK
<1>. QED
  BY <1>1, <1>2, AfterType DEF Method

LEMMA RunFirstWitnessed ==
  ASSUME Typed, InAgreement, AllWitnessed, NEW c \in Callers, RunFirst(c)
  PROVE  AllWitnessed'
<1>. DEFINE s == request[c].dataServices[1]
<1>1. Method(c, s)
  BY FirstMethod
<1>2. \E t \in Services, k \in Keys, new \in Found : Put(t, k, new)
  BY <1>1, MethodPuts DEF Method
<1>3. overwritten' = overwritten /\ writing' = writing
  BY DEF RunFirst
<1>4. CASE EndByThrow(c)
  BY <1>2, <1>3, <1>4, EndWitnessed DEF EndByThrow
<1>5. CASE /\ firstResult' = [firstResult EXCEPT ![c] = Returned(request[c], data[s][request[c].key])]
           /\ position' = [position EXCEPT ![c] = 2]
           /\ UNCHANGED <<request, results, outcome, unsettled>>
  <2>1. Running(c) /\ GoesOn(c, 2)
    BY <1>1, <1>5 DEF Method, GoesOn
  <2>2. \A d \in Callers \ {c} : UNCHANGED <<firstResult[d], results[d]>>
    BY <1>5 DEF Typed, TypeOK
  <2>3. \A d \in Callers \ {c} : Witnessed(d)'
    BY <1>2, <1>3, <1>5, <2>1, <2>2, OtherGoesOn DEF AllWitnessed
  <2>4. Witnessed(c)'
    <3>. SUFFICES ASSUME Undisturbed(c)'
                  PROVE  Witnessed(c)'
      BY DEF Witnessed
    <3>1. Undisturbed(c)
      BY <1>3, <1>5, <2>1 DEF Undisturbed, Running
    <3>2. /\ firstResult'[c] = Returned(request[c], data[s][request[c].key])
          /\ position'[c] = 2 /\ request'[c] = request[c] /\ results'[c] = results[c]
      BY <1>5 DEF Typed, TypeOK
    <3>3. Witnessed(c)
      BY DEF AllWitnessed
    <3>4. /\ s = Main => firstResult'[c] \in seen'[c]
          /\ firstResult'[c] \in seen'[c] \cup {None}
      BY <1>1, <3>1, <3>2, <3>3, Returns
    <3>5. /\ request[c].key \in Keys
          /\ seen[c] \subseteq seen'[c]
          /\ data'[Main][request[c].key] \in seen'[c]
      BY <1>1, <1>2, <2>1, <3>1, <3>3, PutSeen DEF Witnessed
    <3>6. \A d \in Callers : ~WritesKey(d, request[c].key)'
      <4>1. \A d \in Callers : WritesKey(d, request[c].key)' => WritesKey(d, request[c].key)
        BY <2>1, <3>2, <3>5, OtherCallers DEF WritesKey, Running
      <4>. QED
        BY <3>1, <3>3, <4>1 DEF Witnessed
    <3>. QED
      BY <3>1, <3>2, <3>3, <3>4, <3>5, <3>6 DEF Witnessed
  <2>. QED
    BY <2>3, <2>4 DEF AllWitnessed
<1>. QED
  BY <1>4, <1>5 DEF RunFirst

LEMMA RunAdditionalWitnessed ==
  ASSUME ReadsThrough, Typed, InAgreement, AllWitnessed, NEW c \in Callers, RunAdditional(c)
  PROVE  AllWitnessed'
<1>. DEFINE s == request[c].dataServices[2]
<1>1. Method(c, s)
  BY AdditionalMethod
<1>2. \E t \in Services, k \in Keys, new \in Found : Put(t, k, new)
  BY <1>1, MethodPuts DEF Method
<1>3. overwritten' = overwritten /\ writing' = writing
  BY DEF RunAdditional
<1>4. CASE EndByThrow(c)
  BY <1>2, <1>3, <1>4, EndWitnessed DEF EndByThrow
<1>5. CASE /\ results' = [results EXCEPT ![c][s] = Returned(request[c], data[s][request[c].key])]
           /\ position' = [position EXCEPT ![c] = 3]
           /\ UNCHANGED <<request, firstResult, outcome, unsettled>>
  <2>1. Running(c) /\ GoesOn(c, 3) /\ position[c] = 2
    BY <1>1, <1>5 DEF Method, GoesOn, RunAdditional
  <2>2. \A d \in Callers \ {c} : UNCHANGED <<firstResult[d], results[d]>>
    BY <1>5 DEF Typed, TypeOK
  <2>3. \A d \in Callers \ {c} : Witnessed(d)'
    BY <1>2, <1>3, <1>5, <2>1, <2>2, OtherGoesOn DEF AllWitnessed
  <2>4. Witnessed(c)'
    <3>. SUFFICES ASSUME Undisturbed(c)'
                  PROVE  Witnessed(c)'
      BY DEF Witnessed
    <3>1. Undisturbed(c)
      BY <1>3, <1>5, <2>1 DEF Undisturbed, Running
    <3>2. /\ results'[c] = [results[c] EXCEPT ![s] = Returned(request[c], data[s][request[c].key])]
          /\ results[c] \in [Services -> Found]
          /\ position'[c] = 3 /\ request'[c] = request[c] /\ firstResult'[c] = firstResult[c]
      BY <1>5 DEF Typed, TypeOK
    <3>3. Witnessed(c)
      BY DEF AllWitnessed
    <3>4. /\ s \in Services
          /\ s = Main => Returned(request[c], data[s][request[c].key]) \in seen'[c]
          /\ Returned(request[c], data[s][request[c].key]) \in seen'[c] \cup {None}
      BY <1>1, <3>1, <3>3, Returns DEF Method
    <3>5. /\ request[c].key \in Keys
          /\ seen[c] \subseteq seen'[c]
          /\ data'[Main][request[c].key] \in seen'[c]
      BY <1>1, <1>2, <2>1, <3>1, <3>3, PutSeen DEF Witnessed
    <3>6. \A d \in Callers : ~WritesKey(d, request[c].key)'
      <4>1. \A d \in Callers : WritesKey(d, request[c].key)' => WritesKey(d, request[c].key)
        BY <2>1, <3>2, <3>5, OtherCallers DEF WritesKey, Running
      <4>. QED
        BY <3>1, <3>3, <4>1 DEF Witnessed
    <3>7. request[c].dataServices[1] # Main => s = Main
      BY <2>1, <3>1 DEF ReadsThrough, Undisturbed, Typed, Serving
    <3>8. \A t \in Services : results'[c][t] \in seen'[c] \cup {None}
      BY <3>1, <3>2, <3>3, <3>4, <3>5 DEF Witnessed
    <3>9. request[c].dataServices[1] # Main => results'[c][Main] \in seen'[c]
      BY <3>2, <3>4, <3>7
    <3>10. firstResult[c] \in seen'[c] \/ (request[c].dataServices[1] # Main /\ firstResult[c] = None)
      BY <2>1, <3>1, <3>3, <3>5 DEF Witnessed
    <3>. QED
      BY <3>2, <3>5, <3>6, <3>8, <3>9, <3>10 DEF Witnessed
  <2>. QED
    BY <2>3, <2>4 DEF AllWitnessed
<1>. QED
  BY <1>4, <1>5 DEF RunAdditional

LEMMA StepWitnessed ==
  ASSUME ReadsThrough, Typed, InAgreement, AllWitnessed, [Next]_vars
  PROVE  AllWitnessed'
<1>1. ASSUME NEW c \in Callers, NEW r \in Requests, Call(c, r)
      PROVE  AllWitnessed'
  BY <1>1, CallWitnessed
<1>2. ASSUME NEW c \in Callers, RunFirst(c) \/ RunAdditional(c)
      PROVE  AllWitnessed'
  BY <1>2, RunFirstWitnessed, RunAdditionalWitnessed
<1>3. ASSUME NEW c \in Callers, Return(c) \/ Throw(c)
      PROVE  AllWitnessed'
  BY <1>3, EndWitnessed DEF Return, Throw, EndByThrow
<1>4. ASSUME NEW c \in Callers, SaveAndReturn(c)
      PROVE  AllWitnessed'
  <2>1. request[c].key \in Keys /\ ToSave(c) \in Found
    BY <1>4, SaveChanges, ToSaveType
  <2>2. \E how : End(c, how)
    BY <1>4 DEF SaveAndReturn
  <2>3. /\ overwritten \subseteq overwritten'
        /\ UNCHANGED <<writing, unsettled>>
        /\ Put(Main, request[c].key, ToSave(c))
    BY <1>4 DEF SaveAndReturn
  <2>. QED
    BY <2>1, <2>2, <2>3, ConstantsAssumption, EndWitnessed
<1>5. ASSUME NEW s \in Services, NEW k \in Keys, Expire(s, k)
      PROVE  AllWitnessed'
  <2>. SUFFICES ASSUME NEW c \in Callers
                PROVE  Witnessed(c)'
    BY DEF AllWitnessed
  <2>1. CASE ~Running(c)
    BY <1>5, <2>1 DEF Expire, calling, Witnessed, Undisturbed, Running
  <2>2. CASE Running(c)
    <3>1. /\ seen[c] \subseteq seen'[c]
          /\ data[Main][request[c].key] \in seen[c] => data'[Main][request[c].key] \in seen'[c]
      BY <1>5, <2>2, PutSeen DEF Expire
    <3>2. UNCHANGED <<request, position, firstResult, results, writing, unsettled, overwritten>>
      BY <1>5 DEF Expire, calling
    <3>3. \A d \in Callers : WritesKey(d, request[c].key)' => WritesKey(d, request[c].key)
      BY <3>2 DEF WritesKey, Running
    <3>. QED
      BY <3>1, <3>2, <3>3, StillWitnessed DEF AllWitnessed
  <2>. QED
    BY <2>1, <2>2
<1>6. CASE UNCHANGED vars
  BY <1>6 DEF vars, calling, AllWitnessed, Witnessed, Undisturbed, WritesKey, Running
<1>. QED
  BY <1>1, <1>2, <1>3, <1>4, <1>5, <1>6 DEF Next, Step

\* what an undisturbed find returns
LEMMA ReturnsSeen ==
  ASSUME ReadsThrough, Typed, NEW c \in Callers, Witnessed(c), Undisturbed(c), AllRan(c)
  PROVE  /\ ToSave(c) = None => firstResult[c] \in seen[c]
         /\ ToSave(c) # None => Result(c) \in seen[c]
<1>1. /\ request[c] \in Requests /\ request[c] \in AllRequests
      /\ request[c].op = "find"
  BY RequestServices DEF Undisturbed, Typed, Serving
<1>2. position[c] # 1
  BY DEF AllRan
<1>3. ToSave(c) # None => ToSave(c) \in seen[c]
  BY <1>1 DEF ToSave, Witnessed, AllRequests
<1>4. CASE request[c].dataServices[1] = Main
  BY <1>2, <1>3, <1>4 DEF Witnessed, Result
<1>5. CASE request[c].dataServices[1] # Main
  <2>1. /\ HasAdditional(c) /\ request[c].useResultsForFirstService
        /\ ToSave(c) = results[c][Main]
        /\ ~request[c].filterByFirstServiceResultFields
    BY <1>1, <1>5, ConstantsAssumption DEF ReadsThrough, HasAdditional, ToSave
  <2>2. CASE firstResult[c] # None
    BY <1>2, <1>3, <2>1, <2>2 DEF Witnessed, Result, HasFirstServiceResult
  <2>3. CASE firstResult[c] = None
    <3>1. position[c] = 3
      BY <2>1, <2>3 DEF AllRan, Runs, HasFirstServiceResult
    <3>2. results[c][Main] \in seen[c]
      BY <1>5, <3>1 DEF Witnessed
    <3>. QED
      BY <2>1, <2>3, <3>2 DEF Result, HasFirstServiceResult
  <2>. QED
    BY <2>2, <2>3
<1>. QED
  BY <1>4, <1>5

LEMMA StepFresh ==
  ASSUME ReadsThrough, Typed, AllWitnessed, [Next]_vars, NEW c \in Callers
  PROVE  Fresh(c)
<1>. SUFFICES ASSUME Running(c), ~Running(c)', Undisturbed(c), outcome'[c] # "threw"
              PROVE  outcome'[c] \in seen[c]
  BY DEF Fresh, Undisturbed
<1>1. Witnessed(c)
  BY DEF AllWitnessed
<1>2. ASSUME NEW d \in Callers, NEW r \in Requests, Call(d, r)
      PROVE  FALSE
  BY <1>2 DEF Call, Running, Typed, TypeOK
<1>3. ASSUME NEW d \in Callers, RunFirst(d) \/ RunAdditional(d) \/ Throw(d)
      PROVE  FALSE
  BY <1>3 DEF RunFirst, RunAdditional, Throw, EndByThrow, End, Running, Typed, TypeOK
<1>4. ASSUME NEW d \in Callers, Return(d)
      PROVE  outcome'[c] \in seen[c]
  <2>1. d = c
    BY <1>4 DEF Return, End, Running, Typed, TypeOK
  <2>2. outcome'[c] = firstResult[c]
    BY <1>4, <2>1 DEF Return, End, Typed, TypeOK
  <2>. QED
    BY <1>1, <1>4, <2>1, <2>2, ReturnsSeen DEF Return
<1>5. ASSUME NEW d \in Callers, SaveAndReturn(d)
      PROVE  outcome'[c] \in seen[c]
  <2>1. d = c
    BY <1>5 DEF SaveAndReturn, End, Running, Typed, TypeOK
  <2>2. outcome'[c] = Result(c)
    BY <1>5, <2>1 DEF SaveAndReturn, End, Typed, TypeOK
  <2>. QED
    BY <1>1, <1>5, <2>1, <2>2, ReturnsSeen DEF SaveAndReturn
<1>6. ASSUME NEW s \in Services, NEW k \in Keys, Expire(s, k)
      PROVE  FALSE
  BY <1>6 DEF Expire, calling, Running
<1>7. CASE UNCHANGED vars
  BY <1>7 DEF vars, calling, Running
<1>. QED
  BY <1>2, <1>3, <1>4, <1>5, <1>6, <1>7 DEF Next, Step

\* With such writes and reads, what a find through the cache returns was in the main
\* service while the find ran, unless a write of the key ran too or earlier trouble was left.
THEOREM ReadsFresh ==
  ASSUME Main \notin Volatile, WritesThrough, ReadsThrough
  PROVE  Spec => FreshReads
<1>1. Init => InAgreement
  BY ConstantsAssumption DEF Init, InAgreement, OneWriter, WriteUnderWay, OthersAgree, Agrees,
                             WritesKey, Running, Settled
<1>2. Init => AllWitnessed
  BY DEF Init, AllWitnessed, Witnessed, Undisturbed, Running
<1>3. Typed /\ InAgreement /\ [Next]_vars => InAgreement'
  BY StepAgrees
<1>4. Typed /\ InAgreement /\ AllWitnessed /\ [Next]_vars => AllWitnessed'
  BY StepWitnessed
<1>5. Typed /\ AllWitnessed /\ [Next]_vars => \A c \in Callers : Fresh(c)
  BY StepFresh
<1>. QED
  BY <1>1, <1>2, <1>3, <1>4, <1>5, InitTyped, StepTyped, PTL DEF Spec, FreshReads
=============================================================================
