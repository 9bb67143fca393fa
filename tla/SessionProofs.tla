--------------------------- MODULE SessionProofs ---------------------------
(***************************************************************************)
(* Proofs about a connection.  First the session over it, for any number   *)
(* of measurements, any time-out and any clock, whether recv returns whole *)
(* fields or parts and whether or not insertions fail; then what the       *)
(* socket library allocates for it, for any number of variables,           *)
(* structures, strings and descriptors, and any set of steps that may      *)
(* fail.  The two specifications share no variable.                        *)
(***************************************************************************)
EXTENDS Session, TcpSock, FiniteSetTheorems, SequenceTheorems, TLAPS

(* What the inductive invariant says of types and constants.               *)
LEMMA Now ==
  ASSUME IInv
  PROVE  /\ TypeOK /\ InOrder /\ NodePhase /\ EndKnown /\ Story
         /\ now \in Nat /\ start_time \in Nat /\ Timeout \in Nat /\ Loops \in Nat
         /\ loop \in 1..(Loops + 1) /\ loop \in Nat /\ field \in 1..3
         /\ stream \in Seq(Half) /\ Len(stream) \in Nat
         /\ inserted \in Seq(Record) /\ Len(inserted) \in Nat
         /\ Len(log) \in Nat /\ data \in Record
         /\ dropped \in SUBSET (1..Len(inserted)) /\ cut \in Nat /\ cut <= Len(inserted) + 1
         /\ \A i \in 1..Len(inserted) :
              cut = 0 \/ i < cut => i <= Loops /\ inserted[i] = Measurement(i)
BY SessionAssumption DEF IInv, StoredAsSent, TypeOK

(* A field is two halves, the second after the first.                      *)
LEMMA FieldHalves ==
  ASSUME NEW n \in 1..Loops, NEW f \in 1..3
  PROVE  /\ Field(n, f) \in Seq(Half) /\ Field(n, f) \in Value \X Value
         /\ Len(Field(n, f)) = 2
         /\ Field(n, f)[1] = <<n, f, 1>> /\ Field(n, f)[2] = <<n, f, 2>>
         /\ After(<<n, f, 1>>) = <<n, f, 2>>
         /\ After(<<n, f, 2>>) = IF f = 3 THEN <<n + 1, 1, 1>> ELSE <<n, f + 1, 1>>
<1>1. <<n, f, 1>> \in Half /\ <<n, f, 2>> \in Half
  BY DEF Half
<1>2. QED
  BY <1>1 DEF Field, Value, After

(* The initial states satisfy the inductive invariant.                     *)
LEMMA InitIInv == Init => IInv
<1> SUFFICES ASSUME Init PROVE IInv
  OBVIOUS
<1> USE SessionAssumption DEF Init
<1>1. TypeOK
  <2>1. data \in Record
    BY DEF Record, Value, Garbage
  <2>2. stream \in Seq(Half) /\ inserted \in Seq(Record)
        /\ log \in Seq({"connected", "inserted", "terminated", "timeout", "error"})
    OBVIOUS
  <2>3. QED
    BY <2>1, <2>2 DEF TypeOK
<1>2. StoredAsSent
  BY <1>1 DEF StoredAsSent
<1>3. InOrder /\ NodePhase /\ EndKnown
  BY DEF InOrder, NodePhase, EndKnown, Have, Expected
<1>4. Story
  <2>1. Lines = {}
    BY DEF Lines
  <2>2. Cardinality(Lines) = 0
    BY <2>1, FS_EmptySet
  <2>3. QED
    BY <2>2 DEF Story
<1>5. QED
  BY <1>2, <1>3, <1>4 DEF IInv

(* What a recv does, whatever it returns.                                  *)
LEMMA Received ==
  ASSUME IInv, NEW f \in 1..3, ReceiveField(f)
  PROVE  /\ stream # <<>> /\ hpc = Pc(f) /\ hpc' = Pc(f + 1)
         /\ stream' \in Seq(Half) /\ data' \in Record
         /\ cut' = cut \/ (cut = 0 /\ cut' = Len(inserted) + 1)
         /\ log' = (IF log = <<>> THEN <<"connected">> ELSE log)
         /\ UNCHANGED <<now, nodeVars, peer, start_time, result, inserted, dropped>>
<1> PICK n \in 1..2 :
      /\ n <= Len(stream)
      /\ data' = [data EXCEPT ![f] = IF n = 2 THEN <<stream[1], stream[2]>> ELSE <<stream[1], @[2]>>]
      /\ stream' = SubSeq(stream, n + 1, Len(stream))
      /\ cut' = IF cut = 0 /\ n = 1 THEN Len(inserted) + 1 ELSE cut
  BY DEF ReceiveField
<1>1. stream' \in Seq(Half)
  <2> DEFINE l == Len(stream)
             m == n + 1
  <2>1. l \in Int /\ m \in Int /\ \A i \in m..l : stream[i] \in Half
    BY Now
  <2> HIDE DEF l, m
  <2>2. SubSeq(stream, m, l) \in Seq(Half)
    BY <2>1, SubSeqProperties
  <2>3. QED
    BY <2>2 DEF l, m
<1>2. data' \in Record
  <2>1. stream[1] \in Value /\ (n = 2 => stream[2] \in Value)
    BY Now DEF Value
  <2>2. data[f][2] \in Value /\ data \in [1..3 -> Value \X Value]
    BY Now DEF Record
  <2>3. CASE n = 2
    <3>1. data' = [data EXCEPT ![f] = <<stream[1], stream[2]>>]
      BY <2>3
    <3>2. QED
      BY <2>1, <2>2, <2>3, <3>1 DEF Record
  <2>4. CASE n = 1
    <3>1. data' = [data EXCEPT ![f] = <<stream[1], data[f][2]>>]
      BY <2>4
    <3>2. QED
      BY <2>1, <2>2, <3>1 DEF Record
  <2>5. QED
    BY <2>3, <2>4
<1>3. QED
  BY <1>1, <1>2 DEF ReceiveField, HGoto, insertVars

(* What a recv of a whole field does.                                      *)
LEMMA ReceivedWhole ==
  ASSUME IInv, NEW f \in 1..3, ReceiveField(f), cut' = 0
  PROVE  /\ Len(stream) >= 2 /\ stream[1] \in Half
         /\ data' = [data EXCEPT ![f] = <<stream[1], stream[2]>>]
         /\ stream' = SubSeq(stream, 3, Len(stream))
         /\ Len(stream') = Len(stream) - 2
         /\ \A i \in 1..Len(stream') : stream'[i] = stream[i + 2]
         /\ stream[1] \in Value /\ stream[2] \in Value
<1>1. /\ Len(stream) >= 2 /\ data' = [data EXCEPT ![f] = <<stream[1], stream[2]>>]
      /\ stream' = SubSeq(stream, 3, Len(stream))
  <2>1. PICK n \in 1..2 :
          /\ n <= Len(stream)
          /\ data' = [data EXCEPT ![f] = IF n = 2 THEN <<stream[1], stream[2]>>
                                                 ELSE <<stream[1], @[2]>>]
          /\ stream' = SubSeq(stream, n + 1, Len(stream))
          /\ cut' = IF cut = 0 /\ n = 1 THEN Len(inserted) + 1 ELSE cut
    BY DEF ReceiveField
  <2>2. n = 2
    <3>1. Len(inserted) + 1 # 0
      BY Now
    <3>2. QED
      BY <2>1, <3>1
  <2>3. QED
    BY <2>1, <2>2
<1>2. stream[1] \in Half /\ stream[2] \in Half /\ stream[1] \in Value /\ stream[2] \in Value
  BY <1>1, Now DEF Value
<1>3. /\ stream' \in Seq(Half) /\ Len(stream') = Len(stream) - 2
      /\ \A i \in 1..Len(stream') : stream'[i] = stream[i + 2]
  <2>1. \A i \in 3..Len(stream) : stream[i] \in Half
    BY Now
  <2>2. /\ SubSeq(stream, 3, Len(stream)) \in Seq(Half)
        /\ Len(SubSeq(stream, 3, Len(stream))) = Len(stream) - 2
        /\ \A i \in 1..(Len(stream) - 2) : SubSeq(stream, 3, Len(stream))[i] = stream[i + 2]
    <3> DEFINE l == Len(stream)
    <3>1. l \in Int /\ 3 \in Int /\ l >= 2
      BY <1>1, Now
    <3> HIDE DEF l
    <3>2. /\ SubSeq(stream, 3, l) \in Seq(Half)
          /\ Len(SubSeq(stream, 3, l)) = IF 3 <= l THEN l - 3 + 1 ELSE 0
          /\ \A i \in 1..(l - 3 + 1) : SubSeq(stream, 3, l)[i] = stream[3 + i - 1]
      <4>1. \A i \in 3..l : stream[i] \in Half
        BY <2>1 DEF l
      <4>2. QED
        BY <3>1, <4>1, SubSeqProperties
    <3>3. QED
      BY <3>1, <3>2 DEF l
  <2>3. QED
    BY <1>1, <2>2
<1>4. QED
  BY <1>1, <1>2, <1>3

(* What a tcp_send of a field does.                                        *)
LEMMA Sent ==
  ASSUME IInv, SendField
  PROVE  /\ loop \in 1..Loops /\ stream' \in Seq(Half) /\ Len(stream') = Len(stream) + 2
         /\ \A i \in 1..Len(stream) : stream'[i] = stream[i]
         /\ stream'[Len(stream) + 1] = <<loop, field, 1>>
         /\ stream'[Len(stream) + 2] = <<loop, field, 2>>
         /\ <<loop', field', 1>> = After(<<loop, field, 2>>)
<1>1. loop \in 1..Loops /\ field \in 1..3
  BY Now DEF SendField, NodePhase
<1> DEFINE d == Field(loop, field)
<1>2. /\ d \in Seq(Half) /\ Len(d) = 2
      /\ d[1] = <<loop, field, 1>> /\ d[2] = <<loop, field, 2>>
      /\ <<loop', field', 1>> = After(<<loop, field, 2>>)
  <2>1. /\ d \in Seq(Half) /\ Len(d) = 2
        /\ d[1] = <<loop, field, 1>> /\ d[2] = <<loop, field, 2>>
        /\ After(<<loop, field, 2>>) = IF field = 3 THEN <<loop + 1, 1, 1>> ELSE <<loop, field + 1, 1>>
    BY <1>1, FieldHalves
  <2>2. /\ field = 3 => loop' = loop + 1 /\ field' = 1
        /\ field # 3 => loop' = loop /\ field' = field + 1
    BY DEF SendField
  <2>3. QED
    BY <2>1, <2>2
<1>3. stream' = stream \o d
  BY DEF SendField
<1> HIDE DEF d
<1>4. /\ stream \o d \in Seq(Half) /\ Len(stream \o d) = Len(stream) + Len(d)
      /\ \A i \in 1..Len(stream) + Len(d) :
           (stream \o d)[i] = IF i <= Len(stream) THEN stream[i] ELSE d[i - Len(stream)]
  BY <1>2, Now, ConcatProperties
<1>5. QED
  <2>1. Len(stream) \in Nat
    BY Now
  <2>2. QED
    BY <1>1, <1>2, <1>3, <1>4, <2>1

(* The first short read is remembered, at the record it was in.            *)
LEMMA CutStep ==
  ASSUME IInv, [Next]_vars
  PROVE  cut' = cut \/ (cut = 0 /\ cut' = Len(inserted) + 1 /\ inserted' = inserted)
<1>1. ASSUME NEW f \in 1..3, ReceiveField(f)
      PROVE  cut' = cut \/ (cut = 0 /\ cut' = Len(inserted) + 1 /\ inserted' = inserted)
  BY <1>1, Received
<1>2. QED
  BY <1>1 DEF Next, vars, handlerVars, Tick, Node, SendField, WakeUp, Vanish, SendFails, Handler,
     CheckTimeout, Insert, Close, ReceiveEnd

(* Every step keeps the types.                                             *)
LEMMA TypeStep == IInv /\ [Next]_vars => TypeOK'
<1> SUFFICES ASSUME IInv, [Next]_vars PROVE TypeOK'
  OBVIOUS
<1>0. TypeOK
  BY Now
<1> USE DEF HGoto, nodeVars, insertVars, handlerVars
<1>1. CASE Tick
  BY <1>0, <1>1, SessionAssumption DEF Tick, TypeOK
<1>2. CASE SendField
  <2>1. field' \in 1..3 /\ loop' \in 1..(Loops + 1)
    BY <1>2, Sent, Now, SMTT(30) DEF SendField
  <2>2. QED
    BY <1>0, <1>2, <2>1, Sent DEF SendField, TypeOK
<1>3. CASE WakeUp \/ SendFails
  BY <1>0, <1>3 DEF WakeUp, SendFails, TypeOK
<1>4. CASE Vanish
  <2>1. stream' \in Seq(Half)
    <3>1. stream' = stream \/ stream' = <<>>
      BY <1>4 DEF Vanish
    <3>2. <<>> \in Seq(Half)
      OBVIOUS
    <3>3. QED
      BY <3>1, <3>2, Now
  <2>2. QED
    BY <1>0, <1>4, <2>1 DEF Vanish, TypeOK
<1>5. CASE CheckTimeout
  BY <1>0, <1>5 DEF CheckTimeout, TypeOK
<1>6. CASE Insert
  <2>1. /\ inserted' \in Seq(Record)
        /\ log' \in Seq({"connected", "inserted", "terminated", "timeout", "error"})
    BY <1>0, <1>6 DEF Insert, TypeOK
  <2>2. Len(inserted') = Len(inserted) + 1
    BY <1>6, Now DEF Insert
  <2>3. dropped' \in SUBSET (1..Len(inserted')) /\ cut' \in 0..(Len(inserted') + 1)
    <3>1. 1..Len(inserted) \subseteq 1..Len(inserted') /\ Len(inserted') \in 1..Len(inserted')
      BY <2>2, Now
    <3>2. dropped' \in {dropped, dropped \cup {Len(inserted')}} /\ cut' = cut
      BY <1>6 DEF Insert
    <3>3. QED
      BY <2>2, <3>1, <3>2, Now
  <2>4. hpc' = "recv1" /\ start_time' = now /\ UNCHANGED <<now, nodeVars, stream, peer, data, result>>
    BY <1>6 DEF Insert
  <2>5. QED
    BY <1>0, <2>1, <2>3, <2>4 DEF TypeOK
<1>7. CASE Close
  <2>1. log' \in Seq({"connected", "inserted", "terminated", "timeout", "error"})
    BY <1>0, <1>7 DEF Close, TypeOK
  <2>2. QED
    BY <1>0, <1>7, <2>1 DEF Close, TypeOK
<1>8. ASSUME NEW f \in 1..3, ReceiveField(f) PROVE TypeOK'
  <2>1. /\ data' \in Record /\ stream' \in Seq(Half) /\ cut' \in 0..(Len(inserted') + 1)
        /\ dropped' \in SUBSET (1..Len(inserted')) /\ inserted' \in Seq(Record)
    BY <1>8, Received, Now
  <2>2. log' \in Seq({"connected", "inserted", "terminated", "timeout", "error"})
    <3>1. log' = log \/ log' = <<"connected">>
      BY <1>8, Received
    <3>2. <<"connected">> \in Seq({"connected", "inserted", "terminated", "timeout", "error"})
      OBVIOUS
    <3>3. QED
      BY <1>0, <3>1, <3>2 DEF TypeOK
  <2>3. hpc' \in {"recv2", "recv3", "check"}
    BY <1>8, Received DEF Pc
  <2>4. QED
    BY <1>0, <1>8, <2>1, <2>2, <2>3, Received DEF TypeOK
<1>9. ASSUME NEW f \in 1..3, ReceiveEnd(f) PROVE TypeOK'
  BY <1>0, <1>9 DEF ReceiveEnd, TypeOK
<1>10. CASE UNCHANGED vars
  BY <1>0, <1>10 DEF vars, TypeOK
<1>11. QED
  BY <1>1, <1>2, <1>3, <1>4, <1>5, <1>6, <1>7, <1>8, <1>9, <1>10 DEF Next, Node, Handler

(* The records inserted so far are the first measurements of the node.     *)
LEMMA StoredStep == IInv /\ [Next]_vars => StoredAsSent'
<1> SUFFICES ASSUME IInv, [Next]_vars PROVE StoredAsSent'
  OBVIOUS
<1> USE DEF HGoto, nodeVars, insertVars, handlerVars
<1>1. CASE inserted' = inserted
  <2>1. ASSUME NEW i \in 1..Len(inserted), cut' = 0 \/ i < cut'
        PROVE  i <= Loops /\ inserted[i] = Measurement(i)
    <3>1. cut = 0 \/ i < cut
      BY <2>1, CutStep, Now
    <3>2. QED
      BY <3>1, Now
  <2>2. QED
    BY <1>1, <2>1, TypeStep DEF StoredAsSent, Measurement, Field
<1>2. CASE Insert
  <2> DEFINE k == Len(inserted) + 1
  <2>1. inserted' = Append(inserted, data) /\ hpc = "insert" /\ Have = 3 /\ cut' = cut
    BY <1>2 DEF Insert, Have
  <2>2. cut = 0 => k <= Loops /\ data = Measurement(k)
    <3>1. cut = 0 => Len(inserted) < Loops /\ \A f \in 1..3 : data[f] = Field(k, f)
      BY <2>1, Now DEF InOrder
    <3>2. data \in [1..3 -> Value \X Value]
      BY Now DEF Record
    <3>3. QED
      BY <3>1, <3>2, Now DEF Measurement
  <2>3. /\ Len(inserted') = k /\ inserted'[k] = data
        /\ \A i \in 1..Len(inserted) : inserted'[i] = inserted[i]
    BY <2>1, Now
  <2>4. k \in Nat /\ cut \in Nat /\ cut <= k /\ \A i \in 1..k : i \in 1..Len(inserted) \/ i = k
    BY Now
  <2>5. \A i \in 1..Len(inserted) : cut = 0 \/ i < cut => i <= Loops /\ inserted[i] = Measurement(i)
    BY Now
  <2> HIDE DEF k
  <2>6. \A i \in 1..Len(inserted') : cut' = 0 \/ i < cut' => i <= Loops /\ inserted'[i] = Measurement(i)
    <3> SUFFICES ASSUME NEW i \in 1..k, cut = 0 \/ i < cut
                 PROVE  i <= Loops /\ inserted'[i] = Measurement(i)
      BY <2>1, <2>3
    <3>1. CASE i = k
      <4>1. cut = 0
        BY <2>4, <3>1
      <4>2. QED
        BY <2>2, <2>3, <3>1, <4>1
    <3>2. CASE i \in 1..Len(inserted)
      BY <2>3, <2>5, <3>2
    <3>3. QED
      BY <2>4, <3>1, <3>2
  <2>7. QED
    BY <2>6, TypeStep DEF StoredAsSent
<1>3. QED
  BY <1>1, <1>2 DEF Next, vars, Tick, Node, SendField, WakeUp, Vanish, SendFails, Handler,
     CheckTimeout, Close, ReceiveField, ReceiveEnd

(* The stream stays in order when nothing is sent or received.             *)
LEMMA OrderKept ==
  ASSUME IInv, cut = 0, UNCHANGED <<stream, loop, field, data, inserted>>,
         peer' = peer \/ (peer # "reset" /\ peer' # "reset") \/ hpc' \in {"close", "ended"},
         hpc' \in {"close", "ended"} \/ (hpc \notin {"close", "ended"} /\ Have' = Have)
  PROVE  InOrder'
<1>1. /\ \A i \in 1..(Len(stream') - 1) : stream'[i + 1] = After(stream'[i])
      /\ stream' # <<>> => After(stream'[Len(stream')]) = <<loop', field', 1>>
  BY Now DEF InOrder
<1>2. CASE hpc' \in {"close", "ended"}
  BY <1>1, <1>2 DEF InOrder, After
<1>3. CASE hpc' \notin {"close", "ended"}
  <2>1. hpc \notin {"close", "ended"} /\ Have' = Have /\ Expected' = Expected
    BY <1>3 DEF Expected
  <2>2. peer' # "reset" => peer # "reset"
    BY <1>3
  <2>3. QED
    BY <1>1, <1>3, <2>1, <2>2, Now DEF InOrder, After, Field
<1>4. QED
  BY <1>2, <1>3

(* What the node sends goes where the handler will look for it.            *)
LEMMA OrderStep == IInv /\ [Next]_vars => InOrder'
<1> SUFFICES ASSUME IInv, [Next]_vars, cut' = 0 PROVE InOrder'
  BY DEF InOrder
<1>whole. cut = 0
  BY CutStep, Now
<1> USE <1>whole
<1> USE DEF HGoto, nodeVars, insertVars, handlerVars
<1>1. CASE Tick \/ WakeUp \/ SendFails \/ UNCHANGED vars
  <2>1. /\ UNCHANGED <<stream, loop, field, data, inserted, hpc>>
        /\ (peer' = peer \/ (peer = "open" /\ peer' = "closed"))
    BY <1>1 DEF Tick, WakeUp, SendFails, vars
  <2>2. Have' = Have
    BY <2>1 DEF Have
  <2>3. QED
    BY <2>1, <2>2, OrderKept
<1>2. CASE CheckTimeout
  <2>1. /\ UNCHANGED <<stream, loop, field, data, inserted, peer>> /\ hpc = "check"
        /\ hpc' \in {"close", "insert"}
    BY <1>2 DEF CheckTimeout
  <2>2. hpc' = "insert" => Have' = Have
    BY <2>1 DEF Have
  <2>3. QED
    BY <2>1, <2>2, OrderKept
<1>3. CASE Close
  <2>1. /\ UNCHANGED <<stream, loop, field, data, inserted>> /\ hpc' = "ended"
        /\ (peer' = peer \/ (peer = "open" /\ peer' = "closed"))
    BY <1>3 DEF Close
  <2>2. QED
    BY <2>1, OrderKept
<1>4. ASSUME NEW f \in 1..3, ReceiveEnd(f) PROVE InOrder'
  <2>1. UNCHANGED <<stream, loop, field, data, inserted, peer>> /\ hpc' = "close"
    BY <1>4 DEF ReceiveEnd
  <2>2. QED
    BY <2>1, OrderKept
<1>5. CASE Vanish
  <2>1. /\ UNCHANGED <<loop, field, data, inserted, hpc>> /\ peer = "open"
        /\ \/ peer' = "closed" /\ stream' = stream
           \/ peer' = "reset" /\ stream' = <<>>
    BY <1>5 DEF Vanish
  <2>2. Have' = Have
    BY <2>1 DEF Have
  <2>3. CASE peer' = "closed"
    BY <2>1, <2>2, <2>3, OrderKept
  <2>4. CASE peer' = "reset"
    <3>1. stream' = <<>> /\ Len(stream') = 0
      BY <2>1, <2>4
    <3>2. hpc' \notin {"close", "ended"} =>
            \A f \in 1..Have' : data'[f] = Field(Len(inserted') + 1, f) /\ Len(inserted') < Loops
      BY <2>1, <2>2, Now DEF InOrder
    <3>3. QED
      BY <2>4, <3>1, <3>2 DEF InOrder, Field, After
  <2>5. QED
    BY <2>1, <2>3, <2>4
<1>6. CASE Insert
  <2>1. /\ UNCHANGED <<stream, loop, field, data, peer>> /\ hpc = "insert" /\ hpc' = "recv1"
        /\ inserted' = Append(inserted, data)
    BY <1>6 DEF Insert
  <2>2. Have = 3 /\ Have' = 0 /\ Len(inserted') = Len(inserted) + 1
    BY <2>1, Now DEF Have
  <2>3. Expected' = Expected
    BY <2>2, Now DEF Expected
  <2>4. \A f \in 1..Have' : FALSE
    BY <2>2
  <2>5. QED
    BY <2>1, <2>3, <2>4, Now DEF InOrder, After
<1>7. CASE SendField
  <2>1. UNCHANGED <<peer, hpc, data, inserted>> /\ peer = "open"
    BY <1>7 DEF SendField
  <2>2. Have' = Have /\ Expected' = Expected
    BY <2>1 DEF Have, Expected
  <2> DEFINE l == Len(stream)
  <2>3. /\ l \in Nat /\ Len(stream') = l + 2 /\ \A i \in 1..l : stream'[i] = stream[i]
        /\ stream'[l + 1] = <<loop, field, 1>> /\ stream'[l + 2] = <<loop, field, 2>>
        /\ <<loop', field', 1>> = After(<<loop, field, 2>>) /\ loop \in 1..Loops
    BY <1>7, Sent, Now
  <2>4. After(<<loop, field, 1>>) = <<loop, field, 2>>
    BY <2>3, FieldHalves, Now
  <2>5. l = 0 <=> stream = <<>>
    BY Now
  <2>6. \A i \in 1..(l - 1) : stream[i + 1] = After(stream[i])
    BY Now DEF InOrder
  <2>7. l # 0 => After(stream[l]) = <<loop, field, 1>>
    BY <2>5, Now DEF InOrder
  <2> HIDE DEF l
  <2>8. \A i \in 1..(Len(stream') - 1) : stream'[i + 1] = After(stream'[i])
    <3> SUFFICES ASSUME NEW i \in 1..(l + 1) PROVE stream'[i + 1] = After(stream'[i])
      BY <2>3
    <3>1. CASE i \in 1..(l - 1)
      BY <2>3, <2>6, <3>1
    <3>2. CASE i = l
      BY <2>3, <2>7, <3>2
    <3>3. CASE i = l + 1
      BY <2>3, <2>4, <3>3
    <3>4. QED
      BY <2>3, <3>1, <3>2, <3>3
  <2>9. After(stream'[Len(stream')]) = <<loop', field', 1>>
    BY <2>3
  <2>10. stream' # <<>> /\ stream'[1] = IF stream = <<>> THEN <<loop, field, 1>> ELSE stream[1]
    BY <2>3, <2>5
  <2>11. hpc' \notin {"close", "ended"} =>
           /\ Expected' = stream'[1]
           /\ \A f \in 1..Have' : data'[f] = Field(Len(inserted') + 1, f) /\ Len(inserted') < Loops
    BY <2>1, <2>2, <2>10, Now DEF InOrder
  <2>12. QED
    BY <2>1, <2>8, <2>9, <2>10, <2>11 DEF InOrder, After, Field
<1>8. ASSUME NEW f \in 1..3, ReceiveField(f) PROVE InOrder'
  <2> DEFINE n == Len(inserted) + 1
             l == Len(stream)
  <2>1. /\ l >= 2 /\ l \in Nat /\ stream' = SubSeq(stream, 3, l) /\ Len(stream') = l - 2
        /\ \A i \in 1..(l - 2) : stream'[i] = stream[i + 2]
        /\ data' = [data EXCEPT ![f] = <<stream[1], stream[2]>>]
        /\ UNCHANGED <<loop, field, peer, inserted>> /\ stream[1] \in Half
        /\ hpc = Pc(f) /\ hpc' = Pc(f + 1)
    BY <1>8, Received, ReceivedWhole, Now
  <2>2. Have = f - 1 /\ Have' = f /\ hpc \notin {"close", "ended"} /\ hpc' \notin {"close", "ended"}
    BY <2>1 DEF Have, Pc
  <2>3. stream # <<>> /\ peer # "reset"
    BY <2>1, Now DEF NodePhase
  <2>4. stream[1] = <<n, f, 1>>
    BY <2>2, <2>3, Now, SMTT(30) DEF InOrder, Expected
  <2>5. n \in 1..Loops
    BY <2>1, <2>4 DEF Half
  <2>6. stream[2] = <<n, f, 2>>
    <3>1. stream[2] = After(stream[1])
      BY <2>1, Now DEF InOrder
    <3>2. QED
      BY <2>4, <2>5, <3>1, FieldHalves
  <2>7. Expected' = After(stream[2])
    <3>1. After(stream[2]) = IF f = 3 THEN <<n + 1, 1, 1>> ELSE <<n, f + 1, 1>>
      <4> HIDE DEF n
      <4>1. After(<<n, f, 2>>) = IF f = 3 THEN <<n + 1, 1, 1>> ELSE <<n, f + 1, 1>>
        BY <2>5, FieldHalves
      <4>2. QED
        BY <2>6, <4>1
    <3>2. Expected' = IF f = 3 THEN <<Len(inserted) + 2, 1, 1>> ELSE <<n, f + 1, 1>>
      BY <2>1, <2>2 DEF Expected
    <3>3. Len(inserted) + 2 = n + 1
      BY Now
    <3>4. QED
      BY <3>1, <3>2, <3>3
  <2>8. \A g \in 1..Have' : data'[g] = Field(n, g) /\ Len(inserted') < Loops
    <3>1. \A g \in 1..(f - 1) : data[g] = Field(n, g)
      BY <2>2, Now DEF InOrder
    <3>2. data'[f] = Field(n, f) /\ \A g \in 1..(f - 1) : data'[g] = data[g]
      BY <2>1, <2>4, <2>6, Now, SMTT(30) DEF Field, Record
    <3>3. QED
      BY <2>1, <2>2, <2>5, <3>1, <3>2, Now, SMTT(30)
  <2>9. /\ \A i \in 1..(l - 1) : stream[i + 1] = After(stream[i])
        /\ After(stream[l]) = <<loop, field, 1>>
    BY <2>3, Now DEF InOrder
  <2> HIDE DEF l
  <2>10. \A i \in 1..(Len(stream') - 1) : stream'[i + 1] = After(stream'[i])
    <3> SUFFICES ASSUME NEW i \in 1..(l - 3) PROVE stream'[i + 1] = After(stream'[i])
      BY <2>1
    <3>1. i \in 1..(l - 2) /\ i + 1 \in 1..(l - 2) /\ i + 2 \in 1..(l - 1)
      BY <2>1
    <3>2. stream'[i] = stream[i + 2] /\ stream'[i + 1] = stream[(i + 1) + 2]
      BY <2>1, <3>1
    <3>3. stream[(i + 2) + 1] = After(stream[i + 2]) /\ (i + 2) + 1 = (i + 1) + 2
      BY <2>9, <3>1
    <3>4. QED
      BY <3>2, <3>3
  <2>11. CASE l = 2
    <3>1. stream' = <<>> /\ Expected' = <<loop', field', 1>>
      <4>1. stream' \in Seq(Half) /\ Len(stream') = 0
        BY <1>8, <2>1, <2>11, Received
      <4>2. QED
        BY <2>1, <2>7, <2>9, <2>11, <4>1
    <3>2. QED
      BY <2>1, <2>3, <2>8, <2>10, <3>1 DEF InOrder, After, Field
  <2>12. CASE l > 2
    <3>1. /\ stream' # <<>> /\ stream'[1] = stream[3] /\ stream[3] = After(stream[2])
          /\ stream'[Len(stream')] = stream[l]
      <4>1. Len(stream') # 0 /\ 1 \in 1..(l - 2) /\ l - 2 \in 1..(l - 2) /\ 2 \in 1..(l - 1)
        BY <2>1, <2>12
      <4>2. stream'[1] = stream[1 + 2] /\ stream'[l - 2] = stream[(l - 2) + 2]
        BY <2>1, <4>1
      <4>3. stream[2 + 1] = After(stream[2]) /\ (l - 2) + 2 = l /\ 1 + 2 = 3 /\ 2 + 1 = 3
        BY <2>1, <2>9, <4>1
      <4>4. QED
        BY <2>1, <4>1, <4>2, <4>3
    <3>2. Expected' = stream'[1] /\ After(stream'[Len(stream')]) = <<loop', field', 1>>
      BY <2>1, <2>7, <2>9, <3>1
    <3>3. QED
      BY <2>1, <2>3, <2>8, <2>10, <3>1, <3>2 DEF InOrder, After, Field
  <2>13. QED
    BY <2>1, <2>11, <2>12
<1>9. QED
  BY <1>1, <1>2, <1>3, <1>4, <1>5, <1>6, <1>7, <1>8 DEF Next, Node, Handler

(* The node's control points, and that it is gone when its connection is.  *)
LEMMA PhaseStep == IInv /\ [Next]_vars => NodePhase'
<1> SUFFICES ASSUME IInv, [Next]_vars PROVE NodePhase'
  OBVIOUS
<1> USE DEF HGoto, nodeVars, insertVars, handlerVars, NodePhase
<1>0. NodePhase /\ loop \in 1..(Loops + 1) /\ loop \in Nat /\ Loops \in Nat /\ field \in 1..3
  BY Now
<1>1. CASE SendField
  BY <1>0, <1>1 DEF SendField
<1>2. CASE WakeUp \/ SendFails \/ Vanish
  BY <1>0, <1>2 DEF WakeUp, SendFails, Vanish
<1>3. CASE CheckTimeout \/ Insert \/ Close
  BY <1>0, <1>3 DEF CheckTimeout, Insert, Close
<1>4. ASSUME NEW f \in 1..3, ReceiveField(f) \/ ReceiveEnd(f) PROVE NodePhase'
  <2>1. /\ UNCHANGED <<nodeVars, peer>> /\ hpc # "ended"
        /\ peer = "reset" => stream' = <<>>
    BY <1>0, <1>4 DEF ReceiveField, ReceiveEnd, Pc
  <2>2. QED
    BY <1>0, <2>1
<1>5. CASE Tick \/ UNCHANGED vars
  BY <1>0, <1>5 DEF Tick, vars
<1>6. QED
  BY <1>1, <1>2, <1>3, <1>4, <1>5 DEF Next, Node, Handler

(* Why the handler ended.                                                  *)
LEMMA EndStep == IInv /\ [Next]_vars => EndKnown'
<1> SUFFICES ASSUME IInv, [Next]_vars PROVE EndKnown'
  OBVIOUS
<1> USE DEF HGoto, nodeVars, insertVars, handlerVars
<1>0. EndKnown /\ now \in Nat /\ start_time \in Nat /\ Timeout \in Nat
  BY Now
<1>1. ASSUME UNCHANGED <<hpc, data, inserted, start_time, result, cut>>, now' \in Nat, now' >= now,
             result = "closed" =>
               loop' = loop /\ stream' = stream /\ peer' # "open" /\ npc' = "ended"
      PROVE  EndKnown'
  <2>1. /\ hpc' = hpc /\ data' = data /\ inserted' = inserted /\ start_time' = start_time
        /\ result' = result /\ cut' = cut
    BY <1>1
  <2>2. (result # "none" <=> hpc \in {"close", "ended"})'
    BY <1>0, <2>1 DEF EndKnown
  <2>3. result' = "closed" => /\ stream' = <<>> /\ peer' # "open" /\ npc' = "ended"
                              /\ cut' = 0 => Len(inserted') = loop' - 1
    BY <1>0, <1>1, <2>1 DEF EndKnown
  <2>4. result' = "timeout" /\ cut' = 0 => data' = Measurement(Len(inserted') + 1)
    BY <1>0, <2>1 DEF EndKnown
  <2>5. result' = "timeout" => now' - start_time' > Timeout
    <3>1. result = "timeout" => now - start_time > Timeout
      BY <1>0 DEF EndKnown
    <3>2. now' \in Nat /\ now' >= now
      BY <1>1
    <3>3. now \in Nat /\ start_time \in Nat /\ Timeout \in Nat
      BY <1>0
    <3>4. \A n \in Nat : n >= now /\ now - start_time > Timeout => n - start_time > Timeout
      BY <3>3
    <3>5. result = "timeout" => now' - start_time > Timeout
      BY <2>1, <3>1, <3>2, <3>4
    <3>6. QED
      BY <2>1, <3>5
  <2>6. QED
    BY <2>2, <2>3, <2>4, <2>5 DEF EndKnown
<1>2. CASE Tick \/ UNCHANGED vars
  <2>1. /\ UNCHANGED <<hpc, data, inserted, start_time, result, cut, stream, loop, peer, npc>>
        /\ now' \in Nat /\ now' >= now
    BY <1>0, <1>2 DEF Tick, vars
  <2>2. QED
    BY <1>0, <1>1, <2>1 DEF EndKnown
<1>3. CASE Node
  <2>1. UNCHANGED <<now, handlerVars>>
    BY <1>3 DEF Node, SendField, WakeUp, Vanish, SendFails
  <2>2. result = "closed" => FALSE
    BY <1>0, <1>3 DEF EndKnown, Node, SendField, WakeUp, Vanish, SendFails
  <2>3. QED
    BY <1>0, <1>1, <2>1, <2>2
<1>4. CASE CheckTimeout
  <2>1. /\ UNCHANGED <<now, start_time, data, inserted, cut>> /\ hpc = "check"
        /\ \/ hpc' = "close" /\ result' = "timeout" /\ now - start_time > Timeout
           \/ hpc' = "insert" /\ result' = result
    BY <1>4 DEF CheckTimeout
  <2>2. cut = 0 => data = Measurement(Len(inserted) + 1)
    <3>1. Have = 3
      BY <2>1 DEF Have
    <3>2. cut = 0 => \A f \in 1..3 : data[f] = Field(Len(inserted) + 1, f)
      BY <2>1, <3>1, Now DEF InOrder
    <3>3. data \in [1..3 -> Value \X Value]
      BY Now DEF Record
    <3>4. QED
      BY <3>2, <3>3 DEF Measurement
  <2>3. cut' = 0 => data' = Measurement(Len(inserted') + 1)
    BY <2>1, <2>2
  <2>4. result = "none"
    BY <1>0, <2>1 DEF EndKnown
  <2>5. QED
    BY <2>1, <2>3, <2>4 DEF EndKnown, Measurement, Field
<1>5. CASE Insert
  <2>1. result' = result /\ hpc = "insert" /\ hpc' = "recv1"
    BY <1>5 DEF Insert
  <2>2. QED
    BY <1>0, <2>1 DEF EndKnown
<1>6. CASE Close
  <2>1. /\ UNCHANGED <<now, nodeVars, stream, data, start_time, result, inserted, cut>>
        /\ hpc = "close" /\ hpc' = "ended" /\ peer' # "open"
    BY <1>6 DEF Close
  <2>2. QED
    BY <1>0, <2>1 DEF EndKnown, Measurement, Field
<1>7. ASSUME NEW f \in 1..3, ReceiveField(f) PROVE EndKnown'
  <2>1. /\ result' = result /\ hpc \notin {"close", "ended"} /\ hpc' \notin {"close", "ended"}
    BY <1>7, Received DEF Pc
  <2>2. QED
    BY <1>0, <2>1 DEF EndKnown
<1>8. ASSUME NEW f \in 1..3, ReceiveEnd(f) PROVE EndKnown'
  <2>1. /\ UNCHANGED <<now, nodeVars, stream, peer, data, start_time, inserted, cut>> /\ stream = <<>>
        /\ peer # "open" /\ hpc = Pc(f) /\ hpc' = "close"
        /\ result' = IF peer = "closed" THEN "closed" ELSE "error"
    BY <1>8 DEF ReceiveEnd
  <2>2. hpc \notin {"close", "ended"} /\ Have = f - 1
    BY <2>1 DEF Pc, Have
  <2>3. npc = "ended"
    BY <2>1, <2>2, Now DEF NodePhase
  <2>4. peer = "closed" /\ cut = 0 => Len(inserted) = loop - 1
    <3>1. peer = "closed" /\ cut = 0 => Expected = <<loop, field, 1>>
      BY <2>1, <2>2, Now DEF InOrder
    <3>2. Expected = <<Len(inserted) + 1, Have + 1, 1>>
      BY <2>2 DEF Expected
    <3>3. QED
      BY <3>1, <3>2, Now
  <2>5. QED
    BY <2>1, <2>3, <2>4 DEF EndKnown
<1>9. QED
  BY <1>2, <1>3, <1>4, <1>5, <1>6, <1>7, <1>8 DEF Next, Handler

(* A line more in the log.                                                 *)
LEMMA OneLine ==
  ASSUME IInv, NEW m, log' = Append(log, m)
  PROVE  /\ Len(log') = Len(log) + 1 /\ log'[Len(log) + 1] = m
         /\ \A i \in 1..Len(log) : log'[i] = log[i]
         /\ \A i \in 1..Len(log') : i \in 1..Len(log) \/ i = Len(log) + 1
         /\ Cardinality(Lines') = Cardinality(Lines) + (IF m = "inserted" THEN 1 ELSE 0)
<1> DEFINE k == Len(log) + 1
<1>1. /\ Len(log') = k /\ log'[k] = m /\ k \notin 1..Len(log)
      /\ \A i \in 1..Len(log) : log'[i] = log[i]
      /\ \A i \in 1..Len(log') : i \in 1..Len(log) \/ i = k
      /\ 1..Len(log') = (1..Len(log)) \cup {k}
  <2>1. log \in Seq({"connected", "inserted", "terminated", "timeout", "error"}) /\ Len(log) \in Nat
    BY Now DEF TypeOK
  <2>2. QED
    BY <2>1
<1>2. IsFiniteSet(Lines) /\ k \notin Lines /\ Cardinality(Lines) \in Nat
  <2>1. IsFiniteSet(1..Len(log)) /\ Lines \subseteq 1..Len(log)
    BY Now, FS_Interval DEF Lines
  <2>2. IsFiniteSet(Lines)
    BY <2>1, FS_Subset
  <2>3. QED
    BY <1>1, <2>1, <2>2, FS_CardinalityType
<1> HIDE DEF k
<1>3. CASE m = "inserted"
  <2>1. Lines' = Lines \cup {k}
    BY <1>1, <1>3 DEF Lines
  <2>2. Cardinality(Lines \cup {k}) = Cardinality(Lines) + 1
    BY <1>2, FS_AddElement
  <2>3. QED
    BY <1>1, <1>3, <2>1, <2>2 DEF k
<1>4. CASE m # "inserted"
  <2>1. Lines' = Lines
    BY <1>1, <1>4 DEF Lines
  <2>2. QED
    BY <1>1, <1>2, <1>4, <2>1 DEF k
<1>5. QED
  BY <1>3, <1>4

(* Every step keeps the story the log tells.                               *)
LEMMA StoryStep == IInv /\ [Next]_vars => Story'
<1> SUFFICES ASSUME IInv, [Next]_vars PROVE Story'
  OBVIOUS
<1> USE DEF HGoto, nodeVars, insertVars, handlerVars
<1>0. /\ Story /\ Len(log) \in Nat /\ Len(inserted) \in Nat
      /\ log = <<>> <=> Len(log) = 0
      /\ Cardinality(Lines) = Len(inserted)
  <2>1. log = <<>> <=> Len(log) = 0
    BY Now DEF TypeOK
  <2>2. QED
    BY <2>1, Now DEF Story
<1>2. CASE Tick \/ Node \/ UNCHANGED vars
  <2>1. UNCHANGED <<log, inserted, hpc, result>>
    BY <1>2 DEF Tick, Node, SendField, WakeUp, Vanish, SendFails, vars
  <2>2. QED
    BY <1>0, <2>1 DEF Story, Lines
<1>3. CASE CheckTimeout
  BY <1>0, <1>3 DEF CheckTimeout, Story, Lines
<1>4. ASSUME NEW f \in 1..3, ReceiveEnd(f) PROVE Story'
  <2>1. UNCHANGED <<log, inserted>> /\ hpc # "ended" /\ hpc' = "close"
    BY <1>4 DEF ReceiveEnd, Pc
  <2>2. QED
    BY <1>0, <2>1 DEF Story, Lines
<1>5. ASSUME NEW f \in 1..3, ReceiveField(f) PROVE Story'
  <2>1. /\ inserted' = inserted /\ hpc \in {"recv1", "recv2", "recv3"}
        /\ hpc' \in {"recv2", "recv3", "check"}
        /\ log' = IF log = <<>> THEN <<"connected">> ELSE log
    BY <1>5, Received DEF Pc
  <2>2. CASE log = <<>>
    <3>1. log' = Append(log, "connected")
      BY <2>1, <2>2
    <3>2. /\ Len(log') = 1 /\ log'[1] = "connected" /\ log' # <<>>
          /\ Cardinality(Lines') = Len(inserted)
      BY <1>0, <2>1, <2>2, <3>1, OneLine
    <3>3. QED
      BY <2>1, <3>2 DEF Story
  <2>3. CASE log # <<>>
    BY <1>0, <2>1, <2>3 DEF Story, Lines
  <2>4. QED
    BY <2>2, <2>3
<1>6. CASE Insert
  <2>1. /\ log' = Append(log, "inserted") /\ hpc = "insert" /\ hpc' = "recv1"
        /\ Len(inserted') = Len(inserted) + 1
    BY <1>6, Now DEF Insert
  <2>2. /\ Len(log') = Len(log) + 1 /\ log'[Len(log) + 1] = "inserted"
        /\ \A i \in 1..Len(log) : log'[i] = log[i]
        /\ \A i \in 1..Len(log') : i \in 1..Len(log) \/ i = Len(log) + 1
        /\ Cardinality(Lines') = Len(inserted')
    BY <1>0, <2>1, OneLine
  <2>3. log # <<>> /\ log[1] = "connected" /\ log' # <<>> /\ log'[1] = "connected"
    BY <1>0, <2>1, <2>2 DEF Story
  <2>4. \A i \in 2..Len(log') : log'[i] # "connected"
    BY <1>0, <2>2 DEF Story
  <2>5. \A i \in 1..Len(log') : log'[i] \in {"connected", "inserted"}
    BY <1>0, <2>1, <2>2 DEF Story
  <2>6. QED
    BY <2>1, <2>2, <2>3, <2>4, <2>5 DEF Story
<1>7. CASE Close
  <2> DEFINE m == CASE result = "closed" -> "terminated"
                    [] result = "timeout" -> "timeout" [] OTHER -> "error"
  <2>1. /\ log' = Append(log, m) /\ hpc = "close" /\ hpc' = "ended"
        /\ UNCHANGED <<inserted, result>>
    BY <1>7 DEF Close
  <2>2. /\ m \in {"terminated", "timeout", "error"}
        /\ m = "terminated" => result = "closed"
        /\ m = "timeout" => result = "timeout"
    OBVIOUS
  <2> HIDE DEF m
  <2>3. /\ Len(log') = Len(log) + 1 /\ log'[Len(log) + 1] = m
        /\ \A i \in 1..Len(log) : log'[i] = log[i]
        /\ \A i \in 1..Len(log') : i \in 1..Len(log) \/ i = Len(log) + 1
        /\ Cardinality(Lines') = Len(inserted')
    BY <1>0, <2>1, <2>2, OneLine
  <2>4. log' # <<>> /\ log'[Len(log')] = m
    BY <1>0, <2>3
  <2>5. log'[1] # "connected" => Len(log') = 1 /\ inserted' = <<>>
    BY <1>0, <2>1, <2>3 DEF Story
  <2>6. \A i \in 2..Len(log') : log'[i] # "connected"
    BY <1>0, <2>2, <2>3 DEF Story
  <2>7. \A i \in 1..Len(log') : i < Len(log') => log'[i] \in {"connected", "inserted"}
    BY <1>0, <2>1, <2>3 DEF Story
  <2>8. QED
    BY <2>1, <2>2, <2>3, <2>4, <2>5, <2>6, <2>7 DEF Story
<1>8. QED
  BY <1>2, <1>3, <1>4, <1>5, <1>6, <1>7 DEF Next, Handler

(* The inductive invariant of a session.                                   *)
THEOREM Safety == SafeSpec => []IInv
<1>1. IInv /\ [Next]_vars => IInv'
  BY StoredStep, OrderStep, PhaseStep, EndStep, StoryStep DEF IInv
<1>2. QED
  BY InitIInv, <1>1, PTL DEF SafeSpec

(* Until recv first returns a part of a field, the handler gives           *)
(* sbuffer_insert the node's measurements, whole, in order and without a   *)
(* gap, wherever the connection ends; what it gave it stays right after.   *)
THEOREM Stored == Spec => []StoredAsSent
<1>1. IInv => StoredAsSent
  BY DEF IInv
<1>2. QED
  BY <1>1, Safety, PTL DEF Spec

(* After the node closed the connection every byte has been received, and, *)
(* if in whole fields, what is missing in the buffer is what there was no  *)
(* memory for; a time-out drops one complete measurement, the first that   *)
(* was not given to sbuffer_insert.                                        *)
THEOREM LossKnown == Spec => []NothingSilentlyLost
<1>1. IInv => NothingSilentlyLost
  <2> SUFFICES ASSUME IInv, hpc = "ended" PROVE NothingSilentlyLost
    BY DEF NothingSilentlyLost
  <2>1. ASSUME result = "closed", cut = 0
        PROVE  {n \in 1..(loop - 1) : Measurement(n) \notin Kept} = dropped
    <3>1. /\ Len(inserted) = loop - 1 /\ dropped \subseteq 1..Len(inserted)
          /\ \A i \in 1..Len(inserted) : inserted[i] = Measurement(i)
      BY <2>1, Now DEF EndKnown
    <3>2. \A m, n \in 1..Len(inserted) : Measurement(m) = Measurement(n) => m = n
      <4> SUFFICES ASSUME NEW m \in 1..Len(inserted), NEW n \in 1..Len(inserted),
                          Measurement(m) = Measurement(n)
                   PROVE  m = n
        OBVIOUS
      <4>1. Measurement(m)[1] = Field(m, 1) /\ Measurement(n)[1] = Field(n, 1)
        BY DEF Measurement
      <4>2. Field(m, 1)[1][1] = m /\ Field(n, 1)[1][1] = n
        BY DEF Field
      <4>3. QED
        BY <4>1, <4>2
    <3>3. \A n \in 1..Len(inserted) : Measurement(n) \in Kept <=> n \notin dropped
      BY <3>1, <3>2 DEF Kept
    <3>4. QED
      BY <3>1, <3>3
  <2>2. /\ result = "closed" => stream = <<>>
        /\ result = "timeout" /\ cut = 0 => data = Measurement(Len(inserted) + 1)
    BY Now DEF EndKnown
  <2>3. QED
    BY <2>1, <2>2 DEF NothingSilentlyLost
<1>2. QED
  BY <1>1, Safety, PTL DEF Spec

(* The lines of a client in the log: connected, one for each record given  *)
(* to sbuffer_insert, and one for the end that tells why.                  *)
THEOREM LogComplete == Spec => []LogTellsAll
<1>1. IInv => LogTellsAll
  <2> SUFFICES ASSUME IInv PROVE LogTellsAll
    OBVIOUS
  <2>1. Len(log) \in Nat /\ (log = <<>> <=> Len(log) = 0)
    BY Now DEF TypeOK
  <2>2. log # <<>> /\ log[Len(log)] \in {"terminated", "timeout", "error"} => hpc = "ended"
    BY <2>1, Now DEF Story
  <2>3. inserted # <<>> => log[1] = "connected"
    BY Now DEF Story
  <2>4. log # <<>> /\ log[Len(log)] = "timeout" => now - start_time > Timeout
    BY <2>2, Now DEF Story, EndKnown
  <2>5. log # <<>> /\ log[Len(log)] = "terminated" => npc = "ended"
    BY <2>2, Now DEF Story, EndKnown
  <2>6. QED
    BY <2>2, <2>3, <2>4, <2>5, Now DEF LogTellsAll, Story
<1>2. QED
  BY <1>1, Safety, PTL DEF Spec

-----------------------------------------------------------------------------
(***************************************************************************)
(* The socket library (TcpSock).                                           *)
(***************************************************************************)

(* The parts of ResourcesAccounted: the structures and the variables are   *)
(* one to one, ...                                                         *)
Reached ==
  /\ heap = {handle[h] : h \in Handles} \ {NULL}
  /\ \A g, h \in Handles : handle[g] = handle[h] => g = h \/ handle[g] = NULL
(* ... as are the strings and the clients' structures, ...                 *)
Addressed ==
  /\ strings = {ip[c] : c \in heap} \ {NULL}
  /\ \A c, d \in heap : ip[c] = ip[d] => c = d \/ ip[c] = NULL
(* ... and each structure has an open descriptor to itself.                *)
Described ==
  \A c \in heap : /\ cookie[c] /\ sd[c] \in open
                  /\ \A d \in heap : sd[c] = sd[d] => c = d

(* The invariant is the conjunction of four named parts.                   *)
LEMMA Parts ==
  /\ ResourcesAccounted <=> SockTypeOK /\ Reached /\ Addressed /\ Described
  /\ ResourcesAccounted' <=> SockTypeOK' /\ Reached' /\ Addressed' /\ Described'
BY DEF ResourcesAccounted, Reached, Addressed, Described

(* A call that stops half way changes at most the set of open descriptors, *)
(* and that by a descriptor nobody had.                                    *)
LEMMA StopKeeps ==
  ASSUME ResourcesAccounted, UNCHANGED <<handle, heap, fields, strings, reset>>,
         open \subseteq open', open' \subseteq Fds, returned' \in Results
  PROVE  ResourcesAccounted'
<1> USE DEF fields
<1>1. SockTypeOK'
  BY DEF ResourcesAccounted, SockTypeOK
<1>2. Reached' /\ Addressed' /\ Described'
  BY Parts DEF Reached, Addressed, Described
<1>3. QED
  BY <1>1, <1>2, Parts

(* A call that succeeds uses a structure, a descriptor and a string that   *)
(* nobody had.                                                             *)
LEMMA BindKeeps ==
  ASSUME ResourcesAccounted, NEW h \in Handles, handle[h] = NULL,
         NEW addresses, addresses \subseteq (Strings \ strings) \cup {NULL}, Binds(h, addresses)
  PROVE  ResourcesAccounted'
<1> PICK c \in Cells \ heap, f \in Fds \ open, s \in addresses :
      /\ handle' = [handle EXCEPT ![h] = c]
      /\ heap' = heap \cup {c} /\ open' = open \cup {f}
      /\ strings' = strings \cup ({s} \ {NULL})
      /\ cookie' = [cookie EXCEPT ![c] = TRUE]
      /\ sd' = [sd EXCEPT ![c] = f] /\ ip' = [ip EXCEPT ![c] = s]
  BY DEF Binds
<1>0. SockTypeOK /\ Reached /\ Addressed /\ Described /\ c # NULL
  BY Parts, TcpSockAssumption
<1>1. SockTypeOK'
  <2>1. returned' \in Results /\ reset' = reset
    BY DEF Binds, Results
  <2>2. cookie' \in [Cells -> BOOLEAN]
    BY <1>0 DEF SockTypeOK
  <2>3. QED
    BY <1>0, <2>1, <2>2 DEF SockTypeOK
<1>2. Reached'
  <2>1. /\ handle'[h] = c /\ \A g \in Handles \ {h} : handle'[g] = handle[g]
        /\ \A g \in Handles : handle[g] # c
    BY <1>0 DEF SockTypeOK, Reached
  <2>2. {handle'[g] : g \in Handles} \ {NULL} = ({handle[g] : g \in Handles} \ {NULL}) \cup {c}
    BY <1>0, <2>1
  <2>3. QED
    BY <1>0, <2>1, <2>2 DEF Reached
<1>3. Addressed'
  <2>1. /\ ip'[c] = s /\ \A d \in heap : ip'[d] = ip[d] /\ d # c
        /\ s # NULL => \A d \in heap : ip[d] # s
    BY <1>0 DEF SockTypeOK, Addressed
  <2>2. {ip'[d] : d \in heap'} \ {NULL} = ({ip[d] : d \in heap} \ {NULL}) \cup ({s} \ {NULL})
    BY <2>1
  <2>3. QED
    BY <1>0, <2>1, <2>2 DEF Addressed
<1>4. Described'
  <2>1. /\ sd'[c] = f /\ \A d \in heap : sd'[d] = sd[d] /\ d # c
        /\ cookie'[c] /\ \A d \in heap : cookie'[d] = cookie[d]
    BY <1>0 DEF SockTypeOK
  <2>2. QED
    BY <1>0, <2>1 DEF Described
<1>5. QED
  BY <1>1, <1>2, <1>3, <1>4, Parts

(* tcp_close takes a structure, its string and its variable away together. *)
LEMMA CloseKeeps ==
  ASSUME ResourcesAccounted, NEW h \in Handles, CloseSocket(h)
  PROVE  ResourcesAccounted'
<1> DEFINE c == handle[h]
           closed == IF sd[c] \in reset THEN {} ELSE {sd[c]}
<1>0. /\ SockTypeOK /\ Reached /\ Addressed /\ Described /\ c # NULL /\ c \in heap /\ c \in Cells
      /\ strings' = strings \ {ip[c]} /\ open' = open \ closed /\ reset' = reset
      /\ cookie' = [cookie EXCEPT ![c] = FALSE]
      /\ sd' = [sd EXCEPT ![c] = NULL] /\ ip' = [ip EXCEPT ![c] = NULL]
      /\ heap' = heap \ {c} /\ handle' = [handle EXCEPT ![h] = NULL]
      /\ returned' = "NO_ERROR"
  BY Parts DEF CloseSocket, Reached, SockTypeOK
<1>1. SockTypeOK'
  <2>1. cookie' \in [Cells -> BOOLEAN]
    BY <1>0 DEF SockTypeOK
  <2>2. reset' \in SUBSET open'
    BY <1>0 DEF SockTypeOK
  <2>3. sd' \in [Cells -> Fds \cup {NULL}] /\ ip' \in [Cells -> Strings \cup {NULL}]
    BY <1>0 DEF SockTypeOK
  <2>4. QED
    BY <1>0, <2>1, <2>2, <2>3 DEF SockTypeOK, Results
<1>2. Reached'
  <2>1. /\ handle'[h] = NULL /\ \A g \in Handles \ {h} : handle'[g] = handle[g]
        /\ \A g \in Handles \ {h} : handle[g] # c
    BY <1>0 DEF SockTypeOK, Reached
  <2>2. {handle'[g] : g \in Handles} \ {NULL} = ({handle[g] : g \in Handles} \ {NULL}) \ {c}
    BY <1>0, <2>1
  <2>3. QED
    BY <1>0, <2>1, <2>2 DEF Reached
<1>3. Addressed'
  <2>1. /\ \A d \in heap' : ip'[d] = ip[d] /\ d # c /\ d \in heap
        /\ \A d \in heap' : ip[d] = ip[c] => ip[d] = NULL
    BY <1>0 DEF SockTypeOK, Addressed
  <2>2. {ip'[d] : d \in heap'} \ {NULL} = ({ip[d] : d \in heap} \ {NULL}) \ {ip[c]}
    BY <1>0, <2>1
  <2>3. QED
    BY <1>0, <2>1, <2>2 DEF Addressed
<1>4. Described'
  <2>1. \A d \in heap' : sd'[d] = sd[d] /\ cookie'[d] = cookie[d] /\ d # c /\ d \in heap
    BY <1>0 DEF SockTypeOK
  <2>2. QED
    BY <1>0, <2>1 DEF Described
<1>5. QED
  BY <1>1, <1>2, <1>3, <1>4, Parts

-----------------------------------------------------------------------------
(* On every path through tcpsock.c, whatever fails, each structure and     *)
(* each string is reached by exactly one variable until it is freed.       *)
THEOREM Accounted == SockSpec => []ResourcesAccounted
<1>1. SockInit => ResourcesAccounted
  BY DEF SockInit, ResourcesAccounted, SockTypeOK, Results
<1>2. ResourcesAccounted /\ [SockNext]_sockVars => ResourcesAccounted'
  <2> SUFFICES ASSUME ResourcesAccounted, [SockNext]_sockVars PROVE ResourcesAccounted'
    OBVIOUS
  <2>0. open \subseteq Fds /\ NULL \notin strings
    BY DEF ResourcesAccounted, SockTypeOK
  <2>1. ASSUME NEW steps, NEW code \in Results, StopsAt(steps, code)
        PROVE  ResourcesAccounted'
    BY <2>0, <2>1, StopKeeps DEF StopsAt
  <2>2. ASSUME NEW steps, NEW code \in Results, StopsWithDescriptor(steps, code)
        PROVE  ResourcesAccounted'
    BY <2>0, <2>2, StopKeeps DEF StopsWithDescriptor
  <2>3. ASSUME NEW h \in Handles, PassiveOpen(h) PROVE ResourcesAccounted'
    BY <2>1, <2>2, <2>3, BindKeeps DEF PassiveOpen, Results
  <2>4. ASSUME NEW h \in Handles, ActiveOpen(h) PROVE ResourcesAccounted'
    BY <2>1, <2>2, <2>4, BindKeeps DEF ActiveOpen, Results
  <2>5. ASSUME NEW h \in Handles, NEW server \in Handles, WaitForConnection(server, h)
        PROVE  ResourcesAccounted'
    <3>1. CASE handle[server] = NULL /\ returned' = "SOCKET_ERROR"
               /\ UNCHANGED <<handle, heap, fields, strings, open, reset>>
      BY <2>0, <3>1, StopKeeps DEF Results
    <3>2. CASE handle[server] # NULL
      BY <2>1, <2>2, <2>5, <3>2, BindKeeps DEF WaitForConnection, Results
    <3>3. QED
      BY <2>5, <3>1, <3>2 DEF WaitForConnection
  <2>6. ASSUME NEW h \in Handles, CloseNothing(h) PROVE ResourcesAccounted'
    BY <2>0, <2>6, StopKeeps DEF CloseNothing, Results
  <2>7. ASSUME NEW c \in Cells, PeerResets(c) PROVE ResourcesAccounted'
    <3>1. /\ c \in heap /\ reset' = reset \cup {sd[c]}
          /\ UNCHANGED <<handle, heap, cookie, sd, ip, strings, open, returned>>
      BY <2>7 DEF PeerResets, fields
    <3>2. SockTypeOK'
      BY <3>1 DEF ResourcesAccounted, SockTypeOK
    <3>3. Reached' /\ Addressed' /\ Described'
      BY <3>1, Parts DEF Reached, Addressed, Described
    <3>4. QED
      BY <3>2, <3>3, Parts
  <2>8. CASE UNCHANGED sockVars
    BY <2>0, <2>8, StopKeeps DEF sockVars, ResourcesAccounted, SockTypeOK
  <2>9. QED
    BY <2>3, <2>4, <2>5, <2>6, <2>7, <2>8, CloseKeeps DEF SockNext
<1>3. QED
  BY <1>1, <1>2, PTL DEF SockSpec

(* A descriptor is lost only by a call that says so, and then only the one *)
(* it made; or by tcp_close on a connection the peer has reset.            *)
THEOREM Leaks == SockSpec => LeaksExplained
<1> DEFINE Explained ==
      /\ returned' = "NO_ERROR" => Lost' \subseteq Lost \cup reset
      /\ Lost' \ Lost # {} /\ returned' # "NO_ERROR" => Lost' \ Lost = open' \ open
<1>1. ResourcesAccounted /\ [SockNext]_sockVars => [Explained]_sockVars
  <2> SUFFICES ASSUME ResourcesAccounted, SockNext PROVE Explained
    OBVIOUS
  <2>0. SockTypeOK /\ Reached /\ Described
    BY Parts
  <2>1. ASSUME UNCHANGED <<heap, sd>>, open \subseteq open', open' = open \/ returned' # "NO_ERROR"
        PROVE  Explained
    BY <2>0, <2>1 DEF Lost, Described
  <2>2. ASSUME NEW h \in Handles, NEW addresses, Binds(h, addresses) PROVE Explained
    <3>1. PICK c \in Cells \ heap, f \in Fds \ open :
            heap' = heap \cup {c} /\ open' = open \cup {f} /\ sd' = [sd EXCEPT ![c] = f]
      BY <2>2 DEF Binds
    <3>2. {sd'[d] : d \in heap'} = {sd[d] : d \in heap} \cup {f}
      BY <2>0, <3>1 DEF SockTypeOK
    <3>3. returned' = "NO_ERROR"
      BY <2>2 DEF Binds
    <3>4. QED
      BY <3>1, <3>2, <3>3 DEF Lost
  <2>3. ASSUME NEW steps, NEW code \in Results \ {"NO_ERROR"},
               StopsAt(steps, code) \/ StopsWithDescriptor(steps, code)
        PROVE  Explained
    BY <2>1, <2>3 DEF StopsAt, StopsWithDescriptor, fields
  <2>4. ASSUME NEW h \in Handles, PassiveOpen(h) \/ ActiveOpen(h) PROVE Explained
    BY <2>2, <2>3, <2>4 DEF PassiveOpen, ActiveOpen, Results
  <2>5. ASSUME NEW h \in Handles, NEW server \in Handles, WaitForConnection(server, h)
        PROVE  Explained
    <3>1. CASE handle[server] = NULL
      BY <2>1, <2>5, <3>1 DEF WaitForConnection, fields
    <3>2. CASE handle[server] # NULL
      BY <2>2, <2>3, <2>5, <3>2 DEF WaitForConnection, Results
    <3>3. QED
      BY <3>1, <3>2
  <2>6. ASSUME NEW h \in Handles, CloseSocket(h) PROVE Explained
    <3> DEFINE c == handle[h]
               closed == IF sd[c] \in reset THEN {} ELSE {sd[c]}
    <3>1. /\ c \in heap /\ c \in Cells /\ open' = open \ closed
          /\ sd' = [sd EXCEPT ![c] = NULL] /\ heap' = heap \ {c} /\ returned' = "NO_ERROR"
      BY <2>0, <2>6 DEF CloseSocket, Reached, SockTypeOK
    <3>2. {sd'[d] : d \in heap'} = {sd[d] : d \in heap} \ {sd[c]}
      BY <2>0, <3>1 DEF SockTypeOK, Described
    <3>3. Lost' \subseteq Lost \cup ({sd[c]} \ closed)
      BY <3>1, <3>2 DEF Lost
    <3>4. {sd[c]} \ closed \subseteq reset
      OBVIOUS
    <3>5. QED
      BY <3>1, <3>3, <3>4
  <2>7. ASSUME NEW h \in Handles, CloseNothing(h) PROVE Explained
    BY <2>1, <2>7 DEF CloseNothing, fields
  <2>8. ASSUME NEW c \in Cells, PeerResets(c) PROVE Explained
    BY <2>1, <2>8 DEF PeerResets, fields
  <2>9. QED
    BY <2>4, <2>5, <2>6, <2>7, <2>8 DEF SockNext
<1>2. QED
  BY Accounted, <1>1, PTL DEF SockSpec, LeaksExplained
=============================================================================
