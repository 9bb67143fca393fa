--------------------------- MODULE GatewayProofs ---------------------------
(***************************************************************************)
(* Proofs about the gateway process and the log process it forks.  First   *)
(* the gateway, for any clients, any ids they were given, any number of    *)
(* records, with or without a sensor in the map; then the event log, for   *)
(* any number of threads and messages and any size of the pipe and of the  *)
(* reads, whether or not gateway.log opens.  The two specifications share  *)
(* no variable.                                                            *)
(***************************************************************************)
EXTENDS Gateway, Logger, FiniteSetTheorems, SequenceTheorems, TLAPS

(* What the inductive invariant says of types and constants.               *)
LEMMA Now ==
  ASSUME IInv
  PROVE  /\ TypeOK /\ Handed /\ Phases
         /\ buffer \in Seq(Conns \cup {Eos}) /\ Len(buffer) \in Nat
         /\ csv \in Seq(Nat \ {0}) /\ Len(csv) \in Nat /\ flushed \in 0..Len(csv)
         /\ received \in [Readers -> Seq(Conns \cup {Eos})]
         /\ \A r \in Readers : Len(received[r]) \in Nat
         /\ "sensor_db" \in Readers /\ "datamgr" \in Readers
         /\ IsFiniteSet(Conns) /\ Eos \notin Conns /\ MaxConn \in Nat
BY GatewayAssumption DEF IInv, StoredComplete, TypeOK, Readers

(* The initial states satisfy the inductive invariant.                     *)
LEMMA InitIInv == Init => IInv
<1> SUFFICES ASSUME Init PROVE IInv
  OBVIOUS
<1> USE GatewayAssumption DEF Init, CS!Init, BL!Init
<1>1. TypeOK
  <2>1. /\ stage \in [Conns -> {"outside", "served", "gone"}] /\ buffer \in Seq(Conns \cup {Eos})
        /\ csv \in Seq(Nat \ {0}) /\ flushed \in 0..Len(csv)
    OBVIOUS
  <2>2. received \in [Readers -> Seq(Conns \cup {Eos})]
    OBVIOUS
  <2>3. QED
    BY <2>1, <2>2 DEF TypeOK
<1>2. \A r \in Readers : received[r] = <<>>
  OBVIOUS
<1>3. StoredComplete
  BY <1>1, <1>2 DEF StoredComplete, Readers
<1>4. Handed
  BY <1>2 DEF Handed, BL!Finished, Readers
<1>5. Phases
  <2>1. CS!Taken = {}
    BY DEF CS!Taken
  <2>2. Cardinality(CS!Taken) <= MaxConn
    BY <2>1, FS_EmptySet
  <2>3. QED
    BY <2>2 DEF Phases, Started
<1>6. QED
  BY <1>3, <1>4, <1>5 DEF IInv

(* What a reader is handed next.                                           *)
LEMMA Receives ==
  ASSUME IInv, NEW r \in Readers, BL!Receive(r)
  PROVE  LET k == Len(received[r])
         IN /\ k + 1 \in 1..Len(buffer) /\ ~BL!Finished(r)
            /\ Logged(buffer[k + 1]) \in Conns \cup {Eos}
            /\ received' = [received EXCEPT ![r] = Append(@, Logged(buffer[k + 1]))]
            /\ Len(received'[r]) = k + 1 /\ received'[r][k + 1] = Logged(buffer[k + 1])
            /\ \A i \in 1..k : received'[r][i] = received[r][i]
<1> DEFINE k == Len(received[r])
           log == [i \in 1..Len(buffer) |-> Logged(buffer[i])]
           d == Logged(buffer[k + 1])
<1>1. \A i \in 1..Len(buffer) : Logged(buffer[i]) \in Conns \cup {Eos}
  BY Now DEF Logged
<1>2. log \in Seq(Conns \cup {Eos}) /\ Len(log) = Len(buffer)
  <2>1. Len(buffer) \in Nat
    BY Now
  <2>2. QED
    BY <1>1, <2>1
<1>3. k < Len(log) /\ ~BL!Finished(r)
      /\ received' = [received EXCEPT ![r] = Append(@, log[Len(@) + 1])]
  BY DEF BL!Receive
<1>4. k \in Nat /\ received[r] \in Seq(Conns \cup {Eos})
  BY Now
<1>5. k + 1 \in 1..Len(buffer) /\ d \in Conns \cup {Eos} /\ log[k + 1] = d
  BY <1>1, <1>2, <1>3, <1>4, Now
<1>6. received' = [received EXCEPT ![r] = Append(@, d)]
  BY <1>3, <1>5
<1>7. received'[r] = Append(received[r], d)
  BY <1>6, Now
<1> HIDE DEF d, k
<1>8. /\ Len(received'[r]) = k + 1 /\ received'[r][k + 1] = d
      /\ \A i \in 1..k : received'[r][i] = received[r][i]
  BY <1>4, <1>5, <1>7 DEF k
<1>9. QED
  BY <1>3, <1>5, <1>6, <1>8 DEF d, k

(* A measurement more in the buffer, or the marker, leaves what was handed *)
(* out as it is.                                                           *)
LEMMA Grows ==
  ASSUME IInv, NEW d \in Conns \cup {Eos}, buffer' = Append(buffer, d)
  PROVE  /\ Len(buffer') = Len(buffer) + 1 /\ buffer' \in Seq(Conns \cup {Eos})
         /\ \A i \in 1..Len(buffer) : buffer'[i] = buffer[i]
BY Now

(* Steps of the connection manager.                                        *)
LEMMA Service ==
  ASSUME IInv, Serve \/ StopServing
  PROVE  /\ UNCHANGED <<received, idOf, dbpc, dmpc, mpc, csv, outcome>> /\ UNCHANGED csvVars /\ cpc = "serving"
         /\ stage' \in [Conns -> {"outside", "served", "gone"}]
         /\ buffer' = buffer \/ \E d \in Conns \cup {Eos} : buffer' = Append(buffer, d)
BY Now DEF TypeOK, Serve, StopServing, CS!Admit, CS!Measure, CS!Leave, CS!End, serviceVars, csvVars

(* The start of a sequence of lines.                                       *)
LEMMA Start ==
  ASSUME NEW lines \in Seq(Nat \ {0}), NEW n \in 0..Len(lines)
  PROVE  /\ SubSeq(lines, 1, n) \in Seq(Nat \ {0}) /\ Len(SubSeq(lines, 1, n)) = n
         /\ \A i \in 1..n : SubSeq(lines, 1, n)[i] = lines[i]
<1>1. \A i \in 1..n : lines[i] \in Nat \ {0}
  OBVIOUS
<1>2. 1 \in Int /\ n \in Int
  OBVIOUS
<1>3. /\ SubSeq(lines, 1, n) \in Seq(Nat \ {0})
      /\ Len(SubSeq(lines, 1, n)) = IF 1 <= n THEN n - 1 + 1 ELSE 0
      /\ \A i \in 1..(n - 1 + 1) : SubSeq(lines, 1, n)[i] = lines[1 + i - 1]
  BY <1>1, <1>2, SubSeqProperties
<1>4. QED
  BY <1>3

(* What the storage manager does to the file: whatever fails, the new      *)
(* lines are the old ones or some of the first of them, and the one in its *)
(* hands.                                                                  *)
LEMMA Writes ==
  ASSUME IInv, WriteLine \/ CloseCsv
  PROVE  /\ csv' \in Seq(Nat \ {0}) /\ Len(csv') \in Nat /\ flushed' \in 0..Len(csv')
         /\ \A i \in 1..Len(csv') :
              \/ i \in 1..Len(csv) /\ csv'[i] = csv[i]
              \/ /\ dbpc = "write" /\ i = Len(csv) + 1
                 /\ csv'[i] = Len(received["sensor_db"])
         /\ writeFailed' \in {writeFailed, TRUE}
         /\ ~writeFailed' =>
              flushed' = Len(csv') /\ Len(csv') = Len(csv) + (IF dbpc = "write" THEN 1 ELSE 0)
         /\ dbpc' = "ended" => flushed' = Len(csv')
<1> DEFINE k == Len(received["sensor_db"])
<1>0. /\ csv \in Seq(Nat \ {0}) /\ Len(csv) \in Nat /\ flushed \in Nat /\ flushed \in 0..Len(csv)
  BY Now
<1>1. CASE CloseCsv
  <2>1. /\ SubSeq(csv, 1, flushed) \in Seq(Nat \ {0}) /\ Len(SubSeq(csv, 1, flushed)) = flushed
        /\ \A i \in 1..flushed : SubSeq(csv, 1, flushed)[i] = csv[i]
    BY <1>0, Start
  <2>2. /\ csv' \in {csv, SubSeq(csv, 1, flushed)} /\ flushed' = Len(csv')
        /\ dbpc = "close"
    BY <1>1 DEF CloseCsv, Flush
  <2>3. writeFailed' \in {writeFailed, TRUE}
    BY <1>1 DEF CloseCsv
  <2>4. ~writeFailed' => csv' = csv
    BY <1>1 DEF CloseCsv, Flush
  <2>5. /\ csv' \in Seq(Nat \ {0}) /\ Len(csv') \in Nat /\ flushed' \in 0..Len(csv')
        /\ \A i \in 1..Len(csv') : i \in 1..Len(csv) /\ csv'[i] = csv[i]
    <3>1. CASE csv' = csv
      BY <1>0, <2>2, <3>1
    <3>2. CASE csv' = SubSeq(csv, 1, flushed)
      BY <1>0, <2>1, <2>2, <3>2
    <3>3. QED
      BY <2>2, <3>1, <3>2
  <2>6. ~writeFailed' => Len(csv') = Len(csv) + (IF dbpc = "write" THEN 1 ELSE 0)
    BY <1>0, <2>2, <2>4
  <2>7. ~writeFailed' =>
          flushed' = Len(csv') /\ Len(csv') = Len(csv) + (IF dbpc = "write" THEN 1 ELSE 0)
    BY <2>2, <2>6
  <2>8. QED
    BY <2>2, <2>5, <2>3, <2>7
<1>2. CASE WriteLine
  <2> DEFINE line == Append(csv, k)
  <2>1. k \in Nat \ {0} /\ dbpc = "write" /\ dbpc' = "read"
    <3>1. dbpc = "write" /\ dbpc' = "read"
      BY <1>2 DEF WriteLine
    <3>2. QED
      BY <3>1, Now DEF Handed
  <2>2. /\ line \in Seq(Nat \ {0}) /\ Len(line) = Len(csv) + 1 /\ line[Len(csv) + 1] = k
        /\ \A i \in 1..Len(csv) : line[i] = csv[i]
    BY <1>0, <2>1
  <2> HIDE DEF k
  <2>3. /\ \/ csv' \in {csv, line} /\ flushed' = Len(csv')
           \/ csv' \in {csv, line} /\ flushed' = flushed
           \/ csv' \in {SubSeq(csv, 1, flushed), SubSeq(line, 1, flushed)} /\ flushed' = flushed
        /\ writeFailed' \in {writeFailed, TRUE}
        /\ ~writeFailed' => csv' = line /\ flushed' = Len(csv')
    BY <1>2 DEF WriteLine, Flush, FlushFails, k
  <2> HIDE DEF line
  <2>4. flushed \in 0..Len(line)
    BY <1>0, <2>2
  <2>5. /\ SubSeq(csv, 1, flushed) \in Seq(Nat \ {0}) /\ Len(SubSeq(csv, 1, flushed)) = flushed
        /\ \A i \in 1..flushed : SubSeq(csv, 1, flushed)[i] = csv[i]
        /\ SubSeq(line, 1, flushed) \in Seq(Nat \ {0}) /\ Len(SubSeq(line, 1, flushed)) = flushed
        /\ \A i \in 1..flushed : SubSeq(line, 1, flushed)[i] = line[i]
    BY <1>0, <2>2, <2>4, Start
  <2>6. /\ csv' \in Seq(Nat \ {0}) /\ Len(csv') \in Nat /\ flushed' \in 0..Len(csv')
        /\ \A i \in 1..Len(csv') :
             \/ i \in 1..Len(csv) /\ csv'[i] = csv[i]
             \/ i = Len(csv) + 1 /\ csv'[i] = k
    <3>1. CASE csv' = line
      BY <1>0, <2>2, <2>3, <2>4, <3>1
    <3>2. CASE csv' = csv
      BY <1>0, <2>3, <2>4, <3>2
    <3>3. CASE csv' = SubSeq(csv, 1, flushed) /\ flushed' = flushed
      BY <1>0, <2>5, <3>3
    <3>4. CASE csv' = SubSeq(line, 1, flushed) /\ flushed' = flushed
      BY <1>0, <2>2, <2>5, <3>4
    <3>5. QED
      BY <2>3, <3>1, <3>2, <3>3, <3>4
  <2>7. ~writeFailed' =>
          flushed' = Len(csv') /\ Len(csv') = Len(csv) + (IF dbpc = "write" THEN 1 ELSE 0)
    BY <2>1, <2>2, <2>3
  <2>8. QED
    BY <2>1, <2>3, <2>6, <2>7 DEF k
<1>3. QED
  BY <1>1, <1>2

(* Every step keeps the types.                                             *)
LEMMA TypeStep == IInv /\ [Next]_vars => TypeOK'
<1> SUFFICES ASSUME IInv, [Next]_vars PROVE TypeOK'
  OBVIOUS
<1>0. TypeOK
  BY Now
<1> USE DEF Exit, GoOn, serviceVars, csvVars
<1>1. CASE CheckArgs
  BY <1>0, <1>1 DEF TypeOK, CheckArgs
<1>2. CASE CreateThreads
  BY <1>0, <1>2 DEF TypeOK, CreateThreads
<1>3. CASE Join
  BY <1>0, <1>3 DEF TypeOK, Join
<1>4. CASE Finish
  BY <1>0, <1>4 DEF TypeOK, Finish
<1>5. CASE OpenPort
  BY <1>0, <1>5 DEF TypeOK, OpenPort
<1>6. CASE Serve \/ StopServing
  <2>1. buffer' \in Seq(Conns \cup {Eos})
    BY <1>6, Service, Grows, Now
  <2>2. cpc' \in {"serving", "ended"} /\ markerLost' \in BOOLEAN
    BY <1>0, <1>6 DEF TypeOK, Serve, StopServing
  <2>3. QED
    BY <1>0, <1>6, <2>1, <2>2, Service DEF TypeOK
<1>7. CASE OpenCsv
  BY <1>0, <1>7 DEF TypeOK, OpenCsv
<1>8. CASE ReadForDb \/ ReadForDatamgr
  <2>1. received' \in [Readers -> Seq(Conns \cup {Eos})]
    <3>1. ASSUME NEW r \in Readers, BL!Receive(r) PROVE received' \in [Readers -> Seq(Conns \cup {Eos})]
      <4>1. PICK d \in Conns \cup {Eos} : received' = [received EXCEPT ![r] = Append(@, d)]
        BY <3>1, Receives
      <4>2. Append(received[r], d) \in Seq(Conns \cup {Eos})
        BY Now
      <4>3. QED
        BY <4>1, <4>2, Now
    <3>2. QED
      BY <1>8, <3>1, Now DEF ReadForDb, ReadForDatamgr
  <2>2. /\ UNCHANGED <<serviceVars, idOf, cpc, mpc, csvVars, outcome, markerLost>>
        /\ dbpc' = dbpc \/ dbpc' \in {"close", "write"}
        /\ dmpc' = dmpc \/ dmpc' \in {"print", "read"}
    BY <1>8 DEF ReadForDb, ReadForDatamgr
  <2>3. QED
    BY <1>0, <2>1, <2>2 DEF TypeOK
<1>9. CASE WriteLine \/ CloseCsv
  <2>1. csv' \in Seq(Nat \ {0}) /\ flushed' \in 0..Len(csv') /\ writeFailed' \in BOOLEAN
    BY <1>0, <1>9, Writes DEF TypeOK
  <2>2. /\ UNCHANGED <<serviceVars, received, idOf, cpc, dmpc, mpc, markerLost>>
        /\ dbpc' \in {"read", "ended", "close"} /\ outcome' \in {outcome, "csv"}
    BY <1>9 DEF WriteLine, CloseCsv
  <2>3. QED
    <3>1. /\ stage' = stage /\ buffer' = buffer /\ received' = received /\ idOf' = idOf
          /\ cpc' = cpc /\ dmpc' = dmpc /\ mpc' = mpc /\ markerLost' = markerLost
      BY <2>2
    <3>2. QED
      BY <1>0, <2>1, <2>2, <3>1 DEF TypeOK
<1>10. CASE ReadMap \/ PrintSensors
  BY <1>0, <1>10 DEF TypeOK, ReadMap, PrintSensors
<1>11. CASE UNCHANGED vars
  BY <1>0, <1>11 DEF TypeOK, vars
<1>12. QED
  BY <1>1, <1>2, <1>3, <1>4, <1>5, <1>6, <1>7, <1>8, <1>9, <1>10, <1>11
     DEF Next, MainThread, Storage, Datamgr

(* A step that reads nothing and inserts nothing.                          *)
LEMMA HandedKept ==
  ASSUME IInv, UNCHANGED <<buffer, received, idOf>>,
         dbpc' \in {"close", "ended"} <=> dbpc \in {"close", "ended"},
         dbpc' = "write" => dbpc = "write",
         dmpc' \in {"print", "ended"} <=> dmpc \in {"print", "ended"}
  PROVE  Handed'
BY Now DEF Handed, BL!Finished, Logged

(* What the readers were handed is the start of the log.                   *)
LEMMA HandedStep == IInv /\ [Next]_vars => Handed'
<1> SUFFICES ASSUME IInv, [Next]_vars PROVE Handed'
  OBVIOUS
<1> USE DEF Exit, GoOn, serviceVars, csvVars
<1>1. CASE CheckArgs \/ CreateThreads \/ Join \/ Finish \/ OpenPort \/ OpenCsv \/ WriteLine
           \/ CloseCsv \/ ReadMap \/ PrintSensors \/ UNCHANGED vars
  <2>1. UNCHANGED <<buffer, received, idOf>>
    BY <1>1 DEF CheckArgs, CreateThreads, Join, Finish, OpenPort, OpenCsv, WriteLine, CloseCsv,
       ReadMap, PrintSensors, vars
  <2>2. CASE dbpc' = dbpc /\ dmpc' = dmpc
    BY <2>1, <2>2, HandedKept
  <2>3. CASE CreateThreads
    <3>1. /\ dbpc' = dbpc \/ (dbpc' \in {"open", "not_created"} /\ dbpc = "none")
          /\ dmpc' = dmpc \/ (dmpc' \in {"map", "not_created"} /\ dmpc = "none")
      BY <2>3, Now DEF CreateThreads, Phases, Started
    <3>2. QED
      BY <2>1, <3>1, HandedKept
  <2>4. CASE OpenCsv \/ WriteLine \/ CloseCsv \/ ReadMap \/ PrintSensors
    <3>1. /\ dbpc' \in {"close", "ended"} <=> dbpc \in {"close", "ended"}
          /\ dbpc' = "write" => dbpc = "write"
          /\ dmpc' \in {"print", "ended"} <=> dmpc \in {"print", "ended"}
      BY <2>4 DEF OpenCsv, WriteLine, CloseCsv, ReadMap, PrintSensors
    <3>2. QED
      BY <2>1, <3>1, HandedKept
  <2>5. QED
    BY <1>1, <2>2, <2>3, <2>4 DEF CheckArgs, Join, Finish, OpenPort, vars
<1>2. CASE Serve \/ StopServing
  <2>1. UNCHANGED <<received, idOf, dbpc, dmpc>>
    BY <1>2, Service
  <2>2. CASE buffer' = buffer
    BY <2>1, <2>2, HandedKept
  <2>3. CASE \E d \in Conns \cup {Eos} : buffer' = Append(buffer, d)
    <3>1. Len(buffer') = Len(buffer) + 1 /\ \A i \in 1..Len(buffer) : buffer'[i] = buffer[i]
      BY <2>3, Grows
    <3>2. ASSUME NEW r \in Readers
          PROVE  /\ Len(received[r]) <= Len(buffer')
                 /\ \A i \in 1..Len(received[r]) : received[r][i] = Logged(buffer[i])'
      <4>1. Len(received[r]) <= Len(buffer) /\ Len(received[r]) \in Nat /\ Len(buffer) \in Nat
        BY Now DEF Handed
      <4>2. \A i \in 1..Len(received[r]) : Logged(buffer[i])' = Logged(buffer[i])
        BY <2>1, <3>1, <4>1 DEF Logged
      <4>3. \A i \in 1..Len(received[r]) : received[r][i] = Logged(buffer[i])
        BY Now DEF Handed
      <4>4. QED
        BY <3>1, <4>1, <4>2, <4>3
    <3>3. QED
      BY <2>1, <3>2, Now DEF Handed, BL!Finished, Logged
  <2>4. QED
    BY <1>2, <2>2, <2>3, Service
<1>3. ASSUME NEW r \in Readers, BL!Receive(r), UNCHANGED <<buffer, idOf>>,
             r = "sensor_db" => /\ dmpc' = dmpc /\ dbpc = "read"
                                /\ dbpc' = IF Newest(r)' = Eos THEN "close" ELSE "write",
             r = "datamgr" => /\ dbpc' = dbpc /\ dmpc = "read"
                              /\ dmpc' = IF Newest(r)' = Eos THEN "print" ELSE "read"
      PROVE  Handed'
  <2> DEFINE k == Len(received[r])
  <2>1. /\ k + 1 \in 1..Len(buffer) /\ ~BL!Finished(r)
        /\ Len(received'[r]) = k + 1 /\ received'[r][k + 1] = Logged(buffer[k + 1])
        /\ \A i \in 1..k : received'[r][i] = received[r][i]
        /\ \A q \in Readers \ {r} : received'[q] = received[q]
    BY <1>3, Receives, Now
  <2>2. \A x : Logged(x)' = Logged(x')
    BY <1>3 DEF Logged
  <2>3. /\ k \in Nat /\ \A i \in 1..k : received[r][i] = Logged(buffer[i])
        /\ \A i \in 1..(k - 1) : received[r][i] # Eos
    BY Now DEF Handed
  <2>4. \A i \in 1..k : received[r][i] # Eos
    <3>1. k > 0 => received[r][k] # Eos
      BY <2>1, <2>3, Now DEF BL!Finished
    <3>2. QED
      BY <2>3, <3>1
  <2> HIDE DEF k
  <2>5. /\ Len(received'[r]) <= Len(buffer)
        /\ \A i \in 1..Len(received'[r]) : received'[r][i] = Logged(buffer[i])
        /\ \A i \in 1..(Len(received'[r]) - 1) : received'[r][i] # Eos
    BY <2>1, <2>3, <2>4
  <2>6. ASSUME NEW q \in Readers
        PROVE  /\ Len(received'[q]) <= Len(buffer)
               /\ \A i \in 1..Len(received'[q]) : received'[q][i] = Logged(buffer[i])
               /\ \A i \in 1..(Len(received'[q]) - 1) : received'[q][i] # Eos
    <3>1. CASE q = r
      BY <2>5, <3>1
    <3>2. CASE q # r
      BY <2>1, <3>2, Now DEF Handed
    <3>3. QED
      BY <3>1, <3>2
  <2>7. \A q \in Readers \ {r} : BL!Finished(q)' = BL!Finished(q)
    BY <2>1 DEF BL!Finished
  <2>8. BL!Finished(r)' <=> Newest(r)' = Eos
    BY <2>1, <2>3 DEF BL!Finished, Newest
  <2>9. /\ BL!Finished("sensor_db")' <=> dbpc' \in {"close", "ended"}
        /\ BL!Finished("datamgr")' <=> dmpc' \in {"print", "ended"}
    BY <1>3, <2>7, <2>8, Now DEF Handed, Readers
  <2>10. dbpc' = "write" => received'["sensor_db"] # <<>>
    <3>1. CASE r = "sensor_db"
      BY <2>1, <2>3, <3>1
    <3>2. CASE r = "datamgr"
      BY <1>3, <2>1, <3>2, Now DEF Handed
    <3>3. QED
      BY <3>1, <3>2 DEF Readers
  <2>11. QED
    BY <1>3, <2>6, <2>9, <2>10 DEF Handed, Logged
<1>4. CASE ReadForDb
  BY <1>3, <1>4, Now DEF ReadForDb
<1>5. CASE ReadForDatamgr
  BY <1>3, <1>5, Now DEF ReadForDatamgr
<1>6. QED
  BY <1>1, <1>2, <1>4, <1>5 DEF Next, MainThread, Storage, Datamgr

(* Where a reader stops is where the stream ends.                          *)
LEMMA Stopped ==
  ASSUME IInv, NEW r \in Readers, BL!Finished(r)
  PROVE  StreamEndsAt(Len(received[r]))
<1> DEFINE k == Len(received[r])
<1>1. k \in Nat /\ k # 0 /\ received[r][k] = Eos
  BY Now DEF BL!Finished
<1>2. /\ k <= Len(buffer) /\ \A i \in 1..k : received[r][i] = Logged(buffer[i])
      /\ \A i \in 1..(k - 1) : received[r][i] # Eos
  BY Now DEF Handed
<1> HIDE DEF k
<1>3. k \in 1..Len(buffer) /\ Logged(buffer[k]) = Eos
  BY <1>1, <1>2, Now
<1>4. \A i \in 1..(k - 1) : Logged(buffer[i]) # Eos
  BY <1>1, <1>2
<1>5. QED
  BY <1>3, <1>4 DEF StreamEndsAt, k

(* A step of others leaves the file as it is.                              *)
LEMMA StoredKept ==
  ASSUME IInv, [Next]_vars, UNCHANGED <<csvVars, idOf>>,
         received'["sensor_db"] = received["sensor_db"],
         dbpc' = "write" <=> dbpc = "write", dbpc' = "ended" <=> dbpc = "ended",
         dbpc' \in {"write", "close", "ended"} <=> dbpc \in {"write", "close", "ended"},
         buffer' = buffer \/ \E d \in Conns \cup {Eos} : buffer' = Append(buffer, d),
         outcome' = "returned" /\ dbpc = "ended" /\ ~writeFailed => StreamEndsAt(Len(csv) + 1)'
  PROVE  StoredComplete'
<1>1. \A i \in 1..Len(buffer) : buffer'[i] = buffer[i] /\ Logged(buffer[i])' = Logged(buffer[i])
  BY Grows, Now DEF Logged
<1>2. /\ csv \in Seq(Nat \ {0}) /\ Len(csv) \in Nat /\ Len(buffer) \in Nat
      /\ Len(received["sensor_db"]) \in Nat /\ Len(received["sensor_db"]) <= Len(buffer)
  BY Now DEF Handed
<1>3. \A i \in 1..Len(csv) : csv[i] \in 1..Len(buffer)
  BY <1>2 DEF IInv, StoredComplete
<1>4. \A i \in 1..Len(csv) : (Logged(buffer[csv[i]]) # Eos)'
  BY <1>1, <1>3 DEF IInv, StoredComplete, csvVars
<1>5. QED
  BY <1>4, TypeStep DEF IInv, StoredComplete, csvVars

(* The file follows what the storage manager was handed.                   *)
LEMMA StoredStep == IInv /\ [Next]_vars => StoredComplete'
<1> SUFFICES ASSUME IInv, [Next]_vars PROVE StoredComplete'
  OBVIOUS
<1> USE DEF Exit, GoOn, serviceVars
<1> DEFINE k == Len(received["sensor_db"])
<1>0. /\ \A i \in 1..Len(csv) :
           /\ csv[i] <= k /\ Logged(buffer[csv[i]]) # Eos
           /\ dbpc = "write" => csv[i] # k
           /\ i > 1 => csv[i - 1] < csv[i]
      /\ ~writeFailed =>
           /\ flushed = Len(csv) /\ \A i \in 1..Len(csv) : csv[i] = i
           /\ k = Len(csv) + (IF dbpc \in {"write", "close", "ended"} THEN 1 ELSE 0)
      /\ dbpc = "ended" => flushed = Len(csv)
  BY DEF IInv, StoredComplete
<1>1. CASE outcome = "running" /\ (CheckArgs \/ CreateThreads \/ Join \/ OpenPort \/ OpenCsv
                                   \/ ReadMap \/ PrintSensors)
  <2>1. UNCHANGED <<buffer, csvVars, received, idOf>> /\ outcome' # "returned"
    BY <1>1 DEF CheckArgs, CreateThreads, Join, OpenPort, OpenCsv, ReadMap, PrintSensors
  <2>2. /\ dbpc' = "write" <=> dbpc = "write"
        /\ dbpc' = "ended" <=> dbpc = "ended"
        /\ dbpc' \in {"write", "close", "ended"} <=> dbpc \in {"write", "close", "ended"}
    BY <1>1, Now DEF CheckArgs, CreateThreads, Join, OpenPort, OpenCsv, ReadMap,
       PrintSensors, Phases, Started
  <2>3. QED
    BY <2>1, <2>2, StoredKept
<1>2. CASE outcome = "running" /\ (Serve \/ StopServing)
  BY <1>2, Service, StoredKept
<1>3. CASE Finish
  <2>1. UNCHANGED <<buffer, csvVars, received, dbpc, idOf>>
    BY <1>3 DEF Finish
  <2>2. outcome' = "returned" /\ dbpc = "ended" /\ ~writeFailed => StreamEndsAt(Len(csv) + 1)
    <3>1. CASE outcome = "returned"
      BY <3>1 DEF IInv, StoredComplete
    <3>2. CASE dbpc = "ended" /\ ~writeFailed
      <4>1. BL!Finished("sensor_db") /\ k = Len(csv) + 1
        BY <1>0, <3>2, Now DEF Handed
      <4>2. QED
        BY <4>1, Stopped, Now
    <3>3. QED
      BY <3>1, <3>2
  <2>3. StreamEndsAt(Len(csv) + 1) => StreamEndsAt(Len(csv) + 1)'
    BY <2>1 DEF StreamEndsAt, Logged, csvVars
  <2>4. QED
    BY <2>1, <2>2, <2>3, StoredKept
<1>4. CASE outcome = "running" /\ ReadForDatamgr
  <2>1. BL!Receive("datamgr") /\ UNCHANGED <<buffer, csvVars, idOf, dbpc, outcome>>
    BY <1>4 DEF ReadForDatamgr
  <2>2. received'["sensor_db"] = received["sensor_db"]
    BY <2>1, Receives, Now
  <2>3. QED
    BY <1>4, <2>1, <2>2, StoredKept
<1>5. CASE outcome = "running" /\ ReadForDb
  <2>1. /\ BL!Receive("sensor_db") /\ UNCHANGED <<buffer, csv, flushed, writeFailed, idOf, outcome>>
        /\ dbpc = "read" /\ dbpc' \in {"close", "write"}
    BY <1>5 DEF ReadForDb, csvVars
  <2>2. Len(received'["sensor_db"]) = k + 1 /\ k \in Nat
    BY <2>1, Receives, Now
  <2>3. csv \in Seq(Nat \ {0}) /\ \A x : Logged(x)' = Logged(x')
    BY <2>1, Now DEF Logged
  <2> HIDE DEF k
  <2>4. \A i \in 1..Len(csv) :
          csv[i] <= k + 1 /\ csv[i] # k + 1 /\ Logged(buffer[csv[i]]) # Eos
    BY <1>0, <2>2, <2>3
  <2>5. (\A i \in 1..Len(csv) :
           /\ csv[i] <= Len(received["sensor_db"]) /\ Logged(buffer[csv[i]]) # Eos
           /\ dbpc = "write" => csv[i] # Len(received["sensor_db"])
           /\ i > 1 => csv[i - 1] < csv[i])'
    BY <1>0, <2>1, <2>2, <2>4 DEF Logged
  <2>6. QED
    BY <1>0, <1>5, <2>1, <2>2, <2>5, TypeStep DEF StoredComplete, k
<1>6. CASE outcome = "running" /\ (WriteLine \/ CloseCsv)
  <2>1. UNCHANGED <<buffer, received, idOf>> /\ outcome' # "returned"
    BY <1>6 DEF WriteLine, CloseCsv
  <2>2. /\ dbpc \in {"write", "close"} /\ dbpc' \in {"read", "close", "ended"}
        /\ dbpc = "write" <=> dbpc' = "read"
    BY <1>6 DEF WriteLine, CloseCsv
  <2>3. /\ csv \in Seq(Nat \ {0}) /\ Len(csv) \in Nat /\ k \in Nat /\ writeFailed \in BOOLEAN
        /\ dbpc = "write" => k # 0 /\ Logged(buffer[k]) # Eos
    <3>1. csv \in Seq(Nat \ {0}) /\ Len(csv) \in Nat /\ k \in Nat /\ writeFailed \in BOOLEAN
      BY Now DEF TypeOK
    <3>2. dbpc = "write" => k # 0 /\ received["sensor_db"][k] # Eos
      BY Now DEF Handed, BL!Finished
    <3>3. k # 0 => received["sensor_db"][k] = Logged(buffer[k])
      BY <3>1, Now DEF Handed
    <3>4. QED
      BY <3>1, <3>2, <3>3
  <2>4. writeFailed' \in {writeFailed, TRUE}
    BY <1>6, Writes
  <2>5. /\ Len(csv') \in Nat
        /\ \A i \in 1..Len(csv') :
             \/ i \in 1..Len(csv) /\ csv'[i] = csv[i]
             \/ dbpc = "write" /\ i = Len(csv) + 1 /\ csv'[i] = k
        /\ ~writeFailed' =>
             flushed' = Len(csv') /\ Len(csv') = Len(csv) + (IF dbpc = "write" THEN 1 ELSE 0)
        /\ dbpc' = "ended" => flushed' = Len(csv')
    BY <1>6, Writes
  <2> HIDE DEF k
  <2>6. ASSUME NEW i \in 1..Len(csv')
        PROVE  /\ csv'[i] <= k /\ Logged(buffer[csv'[i]]) # Eos
               /\ i > 1 => csv'[i - 1] < csv'[i]
    <3>1. CASE i \in 1..Len(csv) /\ csv'[i] = csv[i]
      <4>1. i > 1 => i - 1 \in 1..Len(csv) /\ i - 1 \in 1..Len(csv') /\ i - 1 # Len(csv) + 1
        BY <2>3, <2>5, <3>1
      <4>2. QED
        BY <1>0, <2>5, <3>1, <4>1
    <3>2. CASE dbpc = "write" /\ i = Len(csv) + 1 /\ csv'[i] = k
      <4>1. i > 1 => i - 1 \in 1..Len(csv) /\ i - 1 \in 1..Len(csv') /\ i - 1 # Len(csv) + 1
        BY <2>3, <2>5, <3>2
      <4>2. i > 1 => csv'[i - 1] = csv[i - 1] /\ csv[i - 1] \in Nat /\ csv[i - 1] <= k /\ csv[i - 1] # k
        BY <1>0, <2>3, <2>5, <3>2, <4>1
      <4>3. QED
        BY <2>3, <3>2, <4>2
    <3>3. QED
      BY <2>5, <3>1, <3>2
  <2>7. ~writeFailed' =>
          /\ flushed' = Len(csv') /\ \A i \in 1..Len(csv') : csv'[i] = i
          /\ k = Len(csv') + (IF dbpc' \in {"write", "close", "ended"} THEN 1 ELSE 0)
    <3> SUFFICES ASSUME ~writeFailed' PROVE
          /\ flushed' = Len(csv') /\ \A i \in 1..Len(csv') : csv'[i] = i
          /\ k = Len(csv') + (IF dbpc' \in {"write", "close", "ended"} THEN 1 ELSE 0)
      OBVIOUS
    <3>1. ~writeFailed
      BY <2>4
    <3>2. k = Len(csv) + 1 /\ \A i \in 1..Len(csv) : csv[i] = i
      BY <1>0, <2>2, <3>1
    <3>3. /\ flushed' = Len(csv') /\ Len(csv') = Len(csv) + (IF dbpc = "write" THEN 1 ELSE 0)
      BY <2>5
    <3>4. \A i \in 1..Len(csv') : csv'[i] = i
      BY <2>5, <3>2
    <3>5. k = Len(csv') + (IF dbpc' \in {"write", "close", "ended"} THEN 1 ELSE 0)
      <4>1. Len(csv) \in Nat
        BY <2>3
      <4>2. CASE dbpc = "write"
        BY <2>2, <3>3, <3>2, <4>1, <4>2
      <4>3. CASE dbpc = "close"
        BY <2>2, <3>3, <3>2, <4>1, <4>3
      <4>4. QED
        BY <2>2, <4>2, <4>3
    <3>6. QED
      BY <3>3, <3>4, <3>5
  <2>8. \A x : Logged(x)' = Logged(x')
    BY <2>1 DEF Logged
  <2>9. (\A i \in 1..Len(csv) :
           /\ csv[i] <= Len(received["sensor_db"]) /\ Logged(buffer[csv[i]]) # Eos
           /\ dbpc = "write" => csv[i] # Len(received["sensor_db"])
           /\ i > 1 => csv[i - 1] < csv[i])'
    BY <2>1, <2>2, <2>6, <2>8 DEF k
  <2>10. QED
    BY <2>1, <2>2, <2>5, <2>7, <2>9, TypeStep DEF StoredComplete, k
<1>7. CASE UNCHANGED vars
  <2>1. StreamEndsAt(Len(csv) + 1)' <=> StreamEndsAt(Len(csv) + 1)
    BY <1>7 DEF vars, StreamEndsAt, Logged, csvVars
  <2>2. QED
    BY <1>7, <2>1, StoredKept DEF vars, IInv, StoredComplete
<1>8. QED
  BY <1>1, <1>2, <1>3, <1>4, <1>5, <1>6, <1>7 DEF Next, MainThread, Storage, Datamgr

(* The service counts its clients as this module does.                     *)
LEMMA SameCardinality == \A S : CS!Cardinality(S) = Cardinality(S)
BY DEF CS!Cardinality, Cardinality

(* The clients ever served are at most MaxConn, and all of them are gone   *)
(* when the connection manager ends.                                       *)
LEMMA Admitted ==
  ASSUME IInv, Serve \/ StopServing
  PROVE  /\ Cardinality(CS!Taken)' <= MaxConn
         /\ cpc' # "serving" => \A c \in Conns : stage'[c] # "served"
<1>0. stage \in [Conns -> {"outside", "served", "gone"}]
  BY Now DEF TypeOK
<1>1. IsFiniteSet(CS!Taken) /\ Cardinality(CS!Taken) \in Nat /\ Cardinality(CS!Taken) <= MaxConn
  <2>1. CS!Taken \subseteq Conns
    BY DEF CS!Taken
  <2>2. IsFiniteSet(CS!Taken)
    BY <2>1, Now, FS_Subset
  <2>3. QED
    BY <2>2, Now, FS_CardinalityType DEF Phases
<1>2. CASE StopServing
  <2>1. stage' = stage /\ Cardinality(CS!Gone) = MaxConn
    BY <1>2, SameCardinality DEF StopServing, CS!End, serviceVars
  <2>2. CS!Taken' = CS!Taken
    BY <2>1 DEF CS!Taken
  <2>3. CS!Gone = CS!Taken
    <3>1. CS!Gone \subseteq CS!Taken
      BY DEF CS!Gone, CS!Taken
    <3>2. Cardinality(CS!Gone) <= Cardinality(CS!Taken)
      BY <1>1, <3>1, FS_Subset
    <3>3. Cardinality(CS!Gone) = Cardinality(CS!Taken)
      BY <1>1, <2>1, <3>2, Now
    <3>4. QED
      BY <1>1, <3>1, <3>3, FS_Subset
  <2>4. \A c \in Conns : stage[c] # "served"
    BY <2>3 DEF CS!Gone, CS!Taken
  <2>5. QED
    BY <1>1, <2>1, <2>2, <2>4
<1>3. CASE Serve
  <2>1. cpc' = cpc /\ cpc = "serving"
    BY <1>3 DEF Serve
  <2>2. ASSUME NEW c \in Conns, CS!Admit(c) PROVE Cardinality(CS!Taken)' <= MaxConn
    <3>1. CS!Taken' = CS!Taken \cup {c} /\ c \notin CS!Taken
      BY <1>0, <2>2 DEF CS!Admit, CS!Taken
    <3>2. Cardinality(CS!Taken \cup {c}) = Cardinality(CS!Taken) + 1
      BY <1>1, <3>1, FS_AddElement
    <3>3. Cardinality(CS!Taken) < MaxConn
      BY <2>2, SameCardinality DEF CS!Admit
    <3>4. QED
      BY <1>1, <3>1, <3>2, <3>3, Now
  <2>3. ASSUME NEW c \in Conns, CS!Measure(c) \/ CS!Leave(c) PROVE Cardinality(CS!Taken)' <= MaxConn
    <3>1. CS!Taken' = CS!Taken
      BY <1>0, <2>3 DEF CS!Measure, CS!Leave, CS!Taken
    <3>2. QED
      BY <1>1, <3>1
  <2>4. QED
    BY <1>3, <2>1, <2>2, <2>3 DEF Serve
<1>4. QED
  BY <1>2, <1>3

(* main goes on only behind its threads.                                   *)
LEMMA PhasesStep == IInv /\ [Next]_vars => Phases'
<1> SUFFICES ASSUME IInv, [Next]_vars PROVE Phases'
  OBVIOUS
<1> USE DEF Exit, GoOn, serviceVars
<1>0. Phases
  BY Now
<1>1. CASE stage' = stage /\ ~StopServing
  <2>1. CS!Taken' = CS!Taken
    BY <1>1 DEF CS!Taken
  <2>2. Cardinality(CS!Taken)' <= MaxConn
    BY <1>0, <2>1 DEF Phases
  <2>3. CASE CheckArgs \/ CreateThreads \/ Join \/ Finish
    BY <1>0, <1>1, <2>2, <2>3 DEF CheckArgs, CreateThreads, Join, Finish, Phases, Started
  <2>4. CASE outcome = "running" /\ (OpenPort \/ Serve)
    BY <1>0, <1>1, <2>2, <2>4 DEF OpenPort, Serve, Phases, Started
  <2>5. CASE outcome = "running" /\ (OpenCsv \/ ReadForDb \/ WriteLine \/ CloseCsv)
    BY <1>0, <1>1, <2>2, <2>5 DEF OpenCsv, ReadForDb, WriteLine, CloseCsv, Phases, Started
  <2>6. CASE outcome = "running" /\ (ReadMap \/ ReadForDatamgr \/ PrintSensors)
    BY <1>0, <1>1, <2>2, <2>6 DEF ReadMap, ReadForDatamgr, PrintSensors, Phases, Started
  <2>7. CASE UNCHANGED vars
    BY <1>0, <1>1, <2>2, <2>7 DEF vars, Phases, Started
  <2>8. QED
    BY <1>1, <2>3, <2>4, <2>5, <2>6, <2>7 DEF Next, MainThread, Storage, Datamgr
<1>2. CASE outcome = "running" /\ (Serve \/ StopServing)
  <2>1. /\ UNCHANGED <<dbpc, dmpc, mpc, outcome>> /\ cpc = "serving"
        /\ cpc' \in {"serving", "ended"}
    BY <1>2, Service DEF Serve, StopServing
  <2>2. QED
    BY <1>0, <1>2, <2>1, Admitted DEF Phases, Started
<1>3. QED
  <2>1. \/ stage' = stage /\ ~StopServing
        \/ outcome = "running" /\ (Serve \/ StopServing)
    BY DEF Next, StopServing, vars, MainThread, Storage, Datamgr, CheckArgs, CreateThreads, Join, Finish,
       OpenPort, OpenCsv, ReadForDb, WriteLine, CloseCsv, ReadMap, ReadForDatamgr, PrintSensors
  <2>2. QED
    BY <1>1, <1>2, <2>1

(* The inductive invariant of the gateway process.                         *)
THEOREM Safety == SafeSpec => []IInv
<1>1. IInv /\ [Next]_vars => IInv'
  BY StoredStep, HandedStep, PhasesStep DEF IInv
<1>2. QED
  BY InitIInv, <1>1, PTL DEF SafeSpec

(* Whatever fails, the file holds measurements once each and in order;     *)
(* until an fprintf or fflush fails it follows the storage manager by one  *)
(* record at most, and a normal end then leaves in it every record before  *)
(* the end of the stream, whatever happens in the other threads.           *)
THEOREM Stored == Spec => []StoredComplete
<1>1. IInv => StoredComplete
  BY DEF IInv
<1>2. QED
  BY <1>1, Safety, PTL DEF Spec

(* main frees the buffer when the connection manager and those readers     *)
(* that could be created have returned, the readers having read to the end *)
(* of the stream, and no client is served.                                 *)
THEOREM BufferFreedLast == Spec => []FreedLast
<1>1. IInv => FreedLast
  <2> SUFFICES ASSUME IInv, mpc \in {"free", "end"} PROVE FreedLast
    BY DEF FreedLast
  <2>1. /\ cpc = "ended" /\ dbpc \in {"ended", "not_created"} /\ dmpc \in {"ended", "not_created"}
        /\ \A c \in Conns : stage[c] # "served"
    <3>1. cpc = "ended"
      BY Now DEF Phases
    <3>2. QED
      BY <3>1, Now DEF Phases
  <2>2. /\ dbpc = "ended" => StreamEndsAt(Len(received["sensor_db"]))
        /\ dmpc = "ended" => StreamEndsAt(Len(received["datamgr"]))
    BY Stopped, Now DEF Handed
  <2>3. QED
    BY <2>1, <2>2 DEF FreedLast
<1>2. QED
  BY <1>1, Safety, PTL DEF Spec

-----------------------------------------------------------------------------
(***************************************************************************)
(* The event log (Logger).                                                 *)
(***************************************************************************)

(* Concatenation is associative.                                           *)
LEMMA Regroup ==
  ASSUME NEW a \in Seq(Part), NEW b \in Seq(Part), NEW c \in Seq(Part)
  PROVE  (a \o b) \o c = a \o (b \o c)
BY ConcatAssociative

(* What the inductive invariant says of types and constants.               *)
LEMMA LogNow ==
  ASSUME LogInv
  PROVE  /\ LogTypeOK /\ PipeEnds /\ LastWord /\ StreamIntact
         /\ pipe \in Seq(Part) /\ chunk \in Seq(Part) /\ logfile \in Seq(Part)
         /\ written \in Seq(Message) /\ Len(written) \in Nat
         /\ sent \in [Threads -> Nat] /\ seen \in [Threads -> Nat] /\ sequence_number \in Nat
         /\ tpc \in [Threads -> {"setup", "run", "store", "write", "ended", "closing",
                                 "waitpid", "returned", "killed"}]
         /\ Main \in Threads /\ MaxMsgs \in Nat
<1>1. LogTypeOK /\ PipeEnds /\ LastWord /\ StreamIntact
  BY DEF LogInv, StreamIntact
<1>2. /\ pipe \in Seq(Part) /\ chunk \in Seq(Part) /\ logfile \in Seq(Part)
      /\ written \in Seq(Message)
      /\ sent \in [Threads -> Nat] /\ seen \in [Threads -> Nat] /\ sequence_number \in Nat
      /\ tpc \in [Threads -> {"setup", "run", "store", "write", "ended", "closing",
                              "waitpid", "returned", "killed"}]
  BY <1>1 DEF LogTypeOK
<1>3. Len(written) \in Nat
  BY <1>2
<1>4. QED
  BY <1>1, <1>2, <1>3, LoggerAssumption

(* The two parts of a message.                                             *)
LEMMA PartsType ==
  ASSUME NEW m \in Message
  PROVE  Parts(m) \in Seq(Part) /\ Len(Parts(m)) = 2
BY DEF Parts, Part

(* The initial states satisfy the inductive invariant.                     *)
LEMMA InitLogInv == LogInit => LogInv
<1> SUFFICES ASSUME LogInit PROVE LogInv
  OBVIOUS
<1> USE LoggerAssumption DEF LogInit
<1>1. LogTypeOK
  <2>1. pipe \in Seq(Part) /\ chunk \in Seq(Part) /\ logfile \in Seq(Part)
        /\ written \in Seq(Message)
    OBVIOUS
  <2>2. QED
    BY <2>1 DEF LogTypeOK
<1>2. StreamIntact
  <2>1. Len(Stream) = 0 /\ Len(written) = 0
    <3>1. Stream = <<>>
      BY <1>1, ConcatEmptySeq DEF LogTypeOK, Stream
    <3>2. QED
      BY <3>1
  <2>2. QED
    BY <1>1, <2>1 DEF StreamIntact
<1>3. PipeEnds /\ LastWord
  BY DEF PipeEnds, LastWord
<1>4. \A t \in Threads : Cardinality(From(t)) = sent[t]
  <2>1. \A t \in Threads : From(t) = {}
    BY DEF From
  <2>2. QED
    BY <2>1, FS_EmptySet
<1>5. QED
  BY <1>2, <1>3, <1>4 DEF LogInv

(* What two sequences have behind each other.                              *)
LEMMA AtEnd ==
  ASSUME NEW S, NEW s \in Seq(S), NEW d \in Seq(S), Len(d) = 2
  PROVE  /\ Len(s \o d) = Len(s) + 2
         /\ \A i \in 1..Len(s) : (s \o d)[i] = s[i]
         /\ (s \o d)[Len(s) + 1] = d[1] /\ (s \o d)[Len(s) + 2] = d[2]
<1> DEFINE sd == s \o d
<1>1. /\ Len(sd) = Len(s) + Len(d)
      /\ \A i \in 1..Len(s) + Len(d) : sd[i] = IF i <= Len(s) THEN s[i] ELSE d[i - Len(s)]
  BY ConcatProperties, Zenon
<1>2. Len(s) \in Nat
  OBVIOUS
<1> HIDE DEF sd
<1>3. /\ Len(sd) = Len(s) + 2 /\ \A i \in 1..Len(s) : sd[i] = s[i]
      /\ sd[Len(s) + 1] = d[1] /\ sd[Len(s) + 2] = d[2]
  BY <1>1, <1>2
<1>4. QED
  BY <1>3 DEF sd

(* A thread's next message.                                                *)
LEMMA MessageType ==
  ASSUME LogInv, NEW t \in Threads
  PROVE  NextMessage(t) \in Message /\ NextMessage(t).from = t
BY LogNow DEF NextMessage, Message

(* Every step keeps the types.                                             *)
LEMMA LogTypeStep == LogInv /\ [LogNext]_logVars => LogTypeOK'
<1> SUFFICES ASSUME LogInv, [LogNext]_logVars PROVE LogTypeOK'
  OBVIOUS
<1> USE DEF pipeVars, threadVars, childVars, CGoto, TGoto
<1>0. LogTypeOK
  BY LogNow
<1>1. CASE Fork \/ ParentCloses
  BY <1>0, <1>1 DEF Fork, ParentCloses, LogTypeOK
<1>2. CASE ChildCloses \/ ChildOpens
  BY <1>0, <1>2 DEF ChildCloses, ChildOpens, LogTypeOK
<1>3. CASE ChildReads
  <2>1. pipe' \in Seq(Part) /\ chunk' \in Seq(Part)
    <3>1. ASSUME NEW n \in 1..ReadParts, n <= Len(pipe), chunk' = SubSeq(pipe, 1, n),
                 pipe' = SubSeq(pipe, n + 1, Len(pipe))
          PROVE  pipe' \in Seq(Part) /\ chunk' \in Seq(Part)
      <4>1. Len(pipe) \in Nat /\ n \in Int /\ \A i \in 1..Len(pipe) : pipe[i] \in Part
        BY <1>0, LoggerAssumption DEF LogTypeOK
      <4>2. SubSeq(pipe, 1, n) \in Seq(Part)
        BY <3>1, <4>1, SubSeqProperties
      <4>3. SubSeq(pipe, n + 1, Len(pipe)) \in Seq(Part)
        BY <3>1, <4>1, SubSeqProperties
      <4>4. QED
        BY <3>1, <4>2, <4>3
    <3>2. QED
      BY <1>0, <1>3, <3>1 DEF ChildReads, LogTypeOK
  <2>2. QED
    BY <1>0, <1>3, <2>1 DEF ChildReads, LogTypeOK
<1>4. CASE ChildPrints
  BY <1>0, <1>4 DEF ChildPrints, LogTypeOK
<1>5. CASE CloseWriteEnd \/ WaitPid
  BY <1>0, <1>5 DEF CloseWriteEnd, WaitPid, LogTypeOK
<1>6. ASSUME NEW t \in Threads, LoadNumber(t) \/ EndThread(t) \/ BrokenPipe(t) PROVE LogTypeOK'
  BY <1>0, <1>6 DEF LoadNumber, EndThread, BrokenPipe, LogTypeOK
<1>7. ASSUME NEW t \in Threads, StoreNumber(t) PROVE LogTypeOK'
  BY <1>0, <1>7 DEF StoreNumber, LogTypeOK
<1>8. ASSUME NEW t \in Threads, Write(t) PROVE LogTypeOK'
  <2> DEFINE m == NextMessage(t)
  <2>1. m \in Message /\ Parts(m) \in Seq(Part)
    BY MessageType, PartsType
  <2> HIDE DEF m
  <2>2. pipe \o Parts(m) \in Seq(Part) /\ Append(written, m) \in Seq(Message)
    BY <1>0, <2>1 DEF LogTypeOK
  <2>3. pipe' \in Seq(Part) /\ written' \in Seq(Message)
    BY <1>8, <2>2 DEF Write, m
  <2>4. QED
    BY <1>0, <1>8, <2>3, SMTT(30) DEF Write, LogTypeOK
<1>9. CASE UNCHANGED logVars
  BY <1>0, <1>9 DEF logVars, LogTypeOK
<1>10. QED
  BY <1>1, <1>2, <1>3, <1>4, <1>5, <1>6, <1>7, <1>8, <1>9 DEF LogNext, Child, MainOnly, Thread

(* Reads move parts along the stream; a write puts two at its end.         *)
LEMMA StreamStep == LogInv /\ [LogNext]_logVars => StreamIntact'
<1> SUFFICES ASSUME LogInv, [LogNext]_logVars PROVE StreamIntact'
  OBVIOUS
<1> USE DEF pipeVars, threadVars, childVars, CGoto, TGoto
<1>0. /\ pipe \in Seq(Part) /\ chunk \in Seq(Part) /\ logfile \in Seq(Part)
      /\ written \in Seq(Message) /\ Len(written) \in Nat
  BY LogNow
<1>1. ASSUME Stream' = Stream, written' = written PROVE StreamIntact'
  BY <1>1, LogNow, LogTypeStep DEF StreamIntact
<1>2. ASSUME UNCHANGED <<logfile, chunk, pipe, written>> PROVE StreamIntact'
  BY <1>1, <1>2 DEF Stream
<1>3. CASE Fork \/ ParentCloses \/ ChildCloses \/ ChildOpens \/ CloseWriteEnd \/ WaitPid
           \/ UNCHANGED logVars
  BY <1>2, <1>3 DEF Fork, ParentCloses, ChildCloses, ChildOpens, CloseWriteEnd, WaitPid, logVars
<1>4. ASSUME NEW t \in Threads, LoadNumber(t) \/ StoreNumber(t) \/ EndThread(t) \/ BrokenPipe(t)
      PROVE  StreamIntact'
  BY <1>2, <1>4 DEF LoadNumber, StoreNumber, EndThread, BrokenPipe
<1>5. CASE ChildReads
  <2>1. logfile' = logfile /\ written' = written /\ lpc = "read"
    BY <1>5 DEF ChildReads
  <2>2. CASE UNCHANGED <<chunk, pipe>>
    BY <1>2, <2>1, <2>2
  <2>3. ASSUME NEW n \in 1..ReadParts, n <= Len(pipe), chunk' = SubSeq(pipe, 1, n),
               pipe' = SubSeq(pipe, n + 1, Len(pipe))
        PROVE  StreamIntact'
    <3>1. chunk = <<>>
      BY <2>1, LogNow DEF PipeEnds
    <3>2. Len(pipe) \in Nat /\ n \in 0..Len(pipe) /\ 1 \in 1..Len(pipe) + 1
      BY <1>0, <2>3, LoggerAssumption
    <3>3. chunk' \o pipe' = pipe
      <4>1. SubSeq(pipe, 1, n) \o SubSeq(pipe, n + 1, Len(pipe)) = SubSeq(pipe, 1, Len(pipe))
        BY <1>0, <3>2, ConcatAdjacentSubSeq
      <4>2. QED
        BY <1>0, <2>3, <4>1, SubSeqFull
    <3>4. chunk' \in Seq(Part) /\ pipe' \in Seq(Part)
      BY LogTypeStep DEF LogTypeOK
    <3>5. Stream' = logfile \o (chunk' \o pipe')
      <4>1. Stream' = (logfile \o chunk') \o pipe'
        BY <2>1 DEF Stream
      <4>2. (logfile \o chunk') \o pipe' = logfile \o (chunk' \o pipe')
        <5> DEFINE b == chunk'
                   p == pipe'
        <5>1. b \in Seq(Part) /\ p \in Seq(Part) /\ logfile \in Seq(Part)
          BY <1>0, <3>4
        <5> HIDE DEF b, p
        <5>2. (logfile \o b) \o p = logfile \o (b \o p)
          BY <5>1, Regroup
        <5>3. QED
          BY <5>2 DEF b, p
      <4>3. QED
        BY <4>1, <4>2
    <3>6. Stream = logfile \o pipe
      <4>1. logfile \o <<>> = logfile
        BY <1>0, ConcatEmptySeq
      <4>2. QED
        BY <3>1, <4>1 DEF Stream
    <3>7. QED
      BY <1>1, <2>1, <3>3, <3>5, <3>6
  <2>4. QED
    BY <1>5, <2>2, <2>3 DEF ChildReads
<1>6. CASE ChildPrints
  <2>1. logfile' = logfile \o chunk /\ chunk' = <<>> /\ pipe' = pipe /\ written' = written
    BY <1>6 DEF ChildPrints
  <2>2. logfile \o chunk \in Seq(Part)
    BY <1>0
  <2>3. (logfile \o chunk) \o <<>> = logfile \o chunk
    BY <2>2, ConcatEmptySeq
  <2>4. Stream' = Stream
    BY <2>1, <2>3 DEF Stream
  <2>5. QED
    BY <1>1, <2>1, <2>4
<1>7. ASSUME NEW t \in Threads, Write(t) PROVE StreamIntact'
  <2> DEFINE m == NextMessage(t)
  <2>1. m \in Message /\ Parts(m) \in Seq(Part) /\ Len(Parts(m)) = 2
    BY MessageType, PartsType
  <2>2. pipe' = pipe \o Parts(m) /\ written' = Append(written, m) /\ UNCHANGED <<logfile, chunk>>
    BY <1>7 DEF Write
  <2> HIDE DEF m
  <2>3. Stream \in Seq(Part) /\ logfile \o chunk \in Seq(Part)
    BY <1>0 DEF Stream
  <2>4. Stream' = Stream \o Parts(m)
    <3>1. Stream' = (logfile \o chunk) \o (pipe \o Parts(m))
      BY <2>2 DEF Stream
    <3>2. (logfile \o chunk) \o (pipe \o Parts(m)) = ((logfile \o chunk) \o pipe) \o Parts(m)
      <4> DEFINE d == Parts(m)
      <4>1. d \in Seq(Part)
        BY <2>1
      <4> DEFINE lb == logfile \o chunk
      <4>2. lb \in Seq(Part) /\ pipe \in Seq(Part)
        BY <1>0
      <4> HIDE DEF d, lb
      <4>3. lb \o (pipe \o d) = (lb \o pipe) \o d
        BY <4>1, <4>2, Regroup
      <4>4. (logfile \o chunk) \o (pipe \o d) = ((logfile \o chunk) \o pipe) \o d
        BY <4>3 DEF lb
      <4>5. QED
        BY <4>4 DEF d
    <3>3. QED
      BY <3>1, <3>2 DEF Stream
  <2>5. /\ Len(Stream') = Len(Stream) + 2 /\ Len(Stream) = 2 * Len(written)
        /\ \A i \in 1..Len(Stream) : Stream'[i] = Stream[i]
        /\ Stream'[Len(Stream) + 1] = Parts(m)[1] /\ Stream'[Len(Stream) + 2] = Parts(m)[2]
    <3>1. Len(Stream) = 2 * Len(written) /\ Len(Stream) \in Nat
      BY <2>3, LogNow DEF StreamIntact
    <3>2. QED
      BY <2>1, <2>3, <2>4, <3>1, AtEnd
  <2>6. /\ Len(written') = Len(written) + 1 /\ written'[Len(written) + 1] = m
        /\ \A i \in 1..Len(written) : written'[i] = written[i]
    BY <1>0, <2>1, <2>2
  <2>7. ASSUME NEW i \in 1..Len(written')
        PROVE  Stream'[2 * i - 1] = Parts(written'[i])[1] /\ Stream'[2 * i] = Parts(written'[i])[2]
    <3>1. CASE i \in 1..Len(written)
      <4>1. 2 * i - 1 \in 1..Len(Stream) /\ 2 * i \in 1..Len(Stream)
        BY <1>0, <2>5, <3>1
      <4>2. Stream[2 * i - 1] = Parts(written[i])[1] /\ Stream[2 * i] = Parts(written[i])[2]
        BY <3>1, LogNow DEF StreamIntact
      <4>3. QED
        BY <2>5, <2>6, <3>1, <4>1, <4>2
    <3>2. CASE i = Len(written) + 1
      <4>1. 2 * i - 1 = Len(Stream) + 1 /\ 2 * i = Len(Stream) + 2
        BY <1>0, <2>5, <3>2
      <4>2. QED
        BY <2>5, <2>6, <3>2, <4>1
    <3>3. QED
      BY <1>0, <2>6, <3>1, <3>2
  <2>8. Len(Stream') = 2 * Len(written')
    BY <1>0, <2>5, <2>6
  <2>9. QED
    BY <2>7, <2>8, LogTypeStep DEF StreamIntact
<1>8. QED
  BY <1>3, <1>4, <1>5, <1>6, <1>7 DEF LogNext, Child, MainOnly, Thread

(* Who has which end of the pipe open.                                     *)
LEMMA PipeEndsStep == LogInv /\ [LogNext]_logVars => PipeEnds'
<1> SUFFICES ASSUME LogInv, [LogNext]_logVars PROVE PipeEnds'
  OBVIOUS
<1> USE DEF pipeVars, threadVars, childVars, CGoto, TGoto, PipeEnds
<1>0. /\ PipeEnds /\ LastWord /\ Main \in Threads
      /\ tpc \in [Threads -> {"setup", "run", "store", "write", "ended", "closing",
                              "waitpid", "returned", "killed"}]
      /\ lpc \in {"none", "close", "open", "read", "print", "exited", "failed"}
      /\ writeEnds \in SUBSET {"gateway", "logger"} /\ readEnds \in SUBSET {"gateway", "logger"}
  BY LogNow DEF LogTypeOK
<1>1. CASE Fork
  BY <1>0, <1>1 DEF Fork
<1>2. CASE ParentCloses
  BY <1>0, <1>2 DEF ParentCloses
<1>3. CASE ChildCloses
  BY <1>0, <1>3 DEF ChildCloses
<1>4. CASE ChildOpens
  BY <1>0, <1>4 DEF ChildOpens
<1>5. CASE ChildReads
  BY <1>0, <1>5 DEF ChildReads
<1>6. CASE ChildPrints
  BY <1>0, <1>6 DEF ChildPrints
<1>7. CASE CloseWriteEnd
  BY <1>0, <1>7 DEF CloseWriteEnd
<1>8. CASE WaitPid
  BY <1>0, <1>8 DEF WaitPid
<1>9. ASSUME NEW t \in Threads, LoadNumber(t) \/ StoreNumber(t) \/ EndThread(t)
      PROVE  PipeEnds'
  <2>1. UNCHANGED <<pipe, writeEnds, readEnds, lpc, chunk>>
    BY <1>9 DEF LoadNumber, StoreNumber, EndThread
  <2>2. \E to \in {"run", "store", "write", "ended", "closing"} :
          tpc' = [tpc EXCEPT ![t] = to]
    BY <1>9 DEF LoadNumber, StoreNumber, EndThread
  <2>3. tpc[t] \in {"run", "store"}
    BY <1>9 DEF LoadNumber, StoreNumber, EndThread
  <2>4. QED
    BY <1>0, <2>1, <2>2, <2>3
<1>10. ASSUME NEW t \in Threads, Write(t) PROVE PipeEnds'
  <2>1. UNCHANGED <<writeEnds, readEnds, lpc, chunk>> /\ readEnds # {}
        /\ tpc' = [tpc EXCEPT ![t] = "run"] /\ tpc[t] = "write"
    BY <1>10 DEF Write
  <2>2. tpc[Main] # "setup" /\ tpc[t] # "setup"
    BY <1>0, <2>1 DEF LastWord
  <2>3. lpc # "exited"
    BY <1>0, <2>1, <2>2
  <2>4. QED
    BY <1>0, <2>1, <2>2, <2>3
<1>11. ASSUME NEW t \in Threads, BrokenPipe(t) PROVE PipeEnds'
  <2>1. UNCHANGED <<pipe, readEnds, lpc, chunk>> /\ writeEnds' = writeEnds \ {"gateway"}
        /\ tpc' = [u \in Threads |-> "killed"] /\ tpc[t] = "write"
    BY <1>11 DEF BrokenPipe
  <2>2. tpc[Main] # "setup"
    BY <1>0, <2>1 DEF LastWord
  <2>3. QED
    BY <1>0, <2>1, <2>2
<1>12. CASE UNCHANGED logVars
  BY <1>0, <1>12 DEF logVars
<1>13. QED
  BY <1>1, <1>2, <1>3, <1>4, <1>5, <1>6, <1>7, <1>8, <1>9, <1>10, <1>11, <1>12
     DEF LogNext, Child, MainOnly, Thread

(* Main's last message comes when the other threads have ended, and only a *)
(* logger that could not open its file leaves a pipe nobody reads.         *)
LEMMA LastWordStep == LogInv /\ [LogNext]_logVars => LastWord'
<1> SUFFICES ASSUME LogInv, [LogNext]_logVars PROVE LastWord'
  OBVIOUS
<1> USE DEF pipeVars, threadVars, childVars, CGoto, TGoto, LastWord
<1>0. /\ LastWord /\ Main \in Threads /\ MaxMsgs \in Nat /\ sent \in [Threads -> Nat]
      /\ tpc \in [Threads -> {"setup", "run", "store", "write", "ended", "closing",
                              "waitpid", "returned", "killed"}]
  BY LogNow
<1>1. CASE Fork \/ Child
  <2>1. UNCHANGED <<tpc, sent>> /\ lpc \notin {"exited", "failed"}
    BY <1>1 DEF Fork, Child, ChildCloses, ChildOpens, ChildReads, ChildPrints
  <2>2. QED
    BY <1>0, <2>1
<1>2. CASE ParentCloses
  <2>1. /\ tpc[Main] = "setup" /\ tpc' = [t \in Threads |-> "run"] /\ sent' = sent
    BY <1>2, LogNow DEF ParentCloses, PipeEnds
  <2>2. \A t \in Threads : tpc[t] = "setup"
    BY <1>0, <2>1
  <2>3. QED
    BY <1>0, <2>1, <2>2
<1>3. CASE CloseWriteEnd \/ WaitPid
  <2>1. /\ UNCHANGED <<sent, lpc>> /\ tpc[Main] \in {"closing", "waitpid"}
        /\ \/ tpc' = [tpc EXCEPT ![Main] = "waitpid"]
           \/ tpc' = [tpc EXCEPT ![Main] = "returned"] /\ lpc \in {"exited", "failed"}
    BY <1>3 DEF CloseWriteEnd, WaitPid
  <2>2. QED
    BY <1>0, <2>1
<1>4. ASSUME NEW t \in Threads, LoadNumber(t) PROVE LastWord'
  <2>1. /\ UNCHANGED <<sent, lpc>> /\ tpc[t] = "run" /\ tpc' = [tpc EXCEPT ![t] = "store"]
        /\ MayLog(t)
    BY <1>4 DEF LoadNumber
  <2>2. CASE t = Main
    BY <1>0, <2>1, <2>2 DEF MayLog
  <2>3. CASE t # Main
    BY <1>0, <2>1, <2>3
  <2>4. QED
    BY <2>2, <2>3
<1>5. ASSUME NEW t \in Threads, StoreNumber(t) PROVE LastWord'
  BY <1>0, <1>5 DEF StoreNumber
<1>6. ASSUME NEW t \in Threads, Write(t) PROVE LastWord'
  <2>1. /\ lpc' = lpc /\ tpc[t] = "write" /\ tpc' = [tpc EXCEPT ![t] = "run"]
        /\ sent' = [sent EXCEPT ![t] = @ + 1]
    BY <1>6 DEF Write
  <2>2. CASE t = Main
    BY <1>0, <2>1, <2>2
  <2>3. CASE t # Main
    BY <1>0, <2>1, <2>3
  <2>4. QED
    BY <2>2, <2>3
<1>7. ASSUME NEW t \in Threads, EndThread(t) PROVE LastWord'
  <2>1. /\ UNCHANGED <<sent, lpc>> /\ tpc[t] = "run"
        /\ \/ t = Main /\ sent[Main] = MaxMsgs + 1 /\ tpc' = [tpc EXCEPT ![Main] = "closing"]
           \/ t # Main /\ tpc' = [tpc EXCEPT ![t] = "ended"]
    BY <1>7 DEF EndThread
  <2>2. QED
    BY <1>0, <2>1
<1>8. ASSUME NEW t \in Threads, BrokenPipe(t) PROVE LastWord'
  <2>1. /\ UNCHANGED <<sent, lpc>> /\ tpc[t] = "write" /\ readEnds = {}
        /\ tpc' = [u \in Threads |-> "killed"]
    BY <1>8 DEF BrokenPipe
  <2>2. lpc = "failed"
    <3>1. lpc \in {"none", "exited", "failed"}
      BY <2>1, LogNow DEF PipeEnds, LogTypeOK
    <3>2. lpc # "none"
      BY <1>0, <2>1, LogNow DEF PipeEnds
    <3>3. ASSUME lpc = "exited" PROVE FALSE
      <4>1. tpc[Main] \in {"waitpid", "returned", "killed"}
        BY <3>3, LogNow DEF PipeEnds
      <4>2. tpc[Main] # "killed" /\ t # Main
        BY <1>0, <2>1, <4>1
      <4>3. QED
        BY <1>0, <2>1, <4>1, <4>2
    <3>4. QED
      BY <3>1, <3>2, <3>3
  <2>3. QED
    BY <1>0, <2>1, <2>2
<1>9. CASE UNCHANGED logVars
  BY <1>0, <1>9 DEF logVars
<1>10. QED
  BY <1>1, <1>2, <1>3, <1>4, <1>5, <1>6, <1>7, <1>8, <1>9 DEF LogNext, MainOnly, Thread

(* Each thread has as many messages in the stream as it has counted.       *)
LEMMA CountStep ==
  LogInv /\ [LogNext]_logVars => \A t \in Threads : Cardinality(From(t))' = sent'[t]
<1> SUFFICES ASSUME LogInv, [LogNext]_logVars, NEW u \in Threads
             PROVE  Cardinality(From(u)') = sent'[u]
  OBVIOUS
<1> USE DEF pipeVars, threadVars, childVars, CGoto, TGoto
<1>0. /\ Cardinality(From(u)) = sent[u] /\ sent \in [Threads -> Nat]
      /\ written \in Seq(Message) /\ Len(written) \in Nat
  BY LogNow DEF LogInv
<1>1. ASSUME UNCHANGED <<written, sent>> PROVE Cardinality(From(u)') = sent'[u]
  BY <1>0, <1>1 DEF From
<1>2. CASE Child \/ MainOnly \/ UNCHANGED logVars
  BY <1>1, <1>2 DEF Child, ChildCloses, ChildOpens, ChildReads, ChildPrints,
     MainOnly, Fork, ParentCloses, CloseWriteEnd, WaitPid, logVars
<1>3. ASSUME NEW t \in Threads, LoadNumber(t) \/ StoreNumber(t) \/ EndThread(t) \/ BrokenPipe(t)
      PROVE  Cardinality(From(u)') = sent'[u]
  BY <1>1, <1>3 DEF LoadNumber, StoreNumber, EndThread, BrokenPipe
<1>4. ASSUME NEW t \in Threads, Write(t) PROVE Cardinality(From(u)') = sent'[u]
  <2> DEFINE m == NextMessage(t)
             k == Len(written) + 1
  <2>1. m \in Message /\ m.from = t
    BY MessageType
  <2>2. written' = Append(written, m) /\ sent' = [sent EXCEPT ![t] = @ + 1]
    BY <1>4 DEF Write
  <2> HIDE DEF m
  <2>3. /\ Len(written') = k /\ written'[k] = m /\ k \notin 1..Len(written)
        /\ \A i \in 1..Len(written) : written'[i] = written[i]
    BY <1>0, <2>1, <2>2
  <2>4. From(u)' = From(u) \cup (IF u = t THEN {k} ELSE {})
    <3>1. 1..Len(written') = (1..Len(written)) \cup {k}
      BY <1>0, <2>3
    <3>2. QED
      BY <2>1, <2>3, <3>1 DEF From
  <2>5. IsFiniteSet(From(u)) /\ k \notin From(u)
    <3>1. From(u) \subseteq 1..Len(written)
      BY DEF From
    <3>2. IsFiniteSet(1..Len(written))
      BY <1>0, FS_Interval
    <3>3. IsFiniteSet(From(u))
      BY <3>1, <3>2, FS_Subset
    <3>4. QED
      BY <2>3, <3>1, <3>3
  <2>6. CASE u = t
    <3>1. Cardinality(From(u) \cup {k}) = Cardinality(From(u)) + 1
      BY <2>5, FS_AddElement
    <3>2. QED
      BY <1>0, <2>2, <2>4, <2>6, <3>1
  <2>7. CASE u # t
    BY <1>0, <2>2, <2>4, <2>7
  <2>8. QED
    BY <2>6, <2>7
<1>5. QED
  BY <1>2, <1>3, <1>4 DEF LogNext, Thread

(* The inductive invariant of the log.                                     *)
THEOREM LogSafety == LogSafeSpec => []LogInv
<1>1. LogInv /\ [LogNext]_logVars => LogInv'
  BY StreamStep, PipeEndsStep, LastWordStep, CountStep DEF LogInv
<1>2. QED
  BY InitLogInv, <1>1, PTL DEF LogSafeSpec

(* What the logger has copied, holds and will read is always the messages  *)
(* in the order of their writes, however many threads write and wherever   *)
(* the reads of 255 bytes cut the stream.                                  *)
THEOREM StreamKept == LogSpec => []StreamIntact
<1>1. LogInv => StreamIntact
  BY DEF LogInv
<1>2. QED
  BY <1>1, LogSafety, PTL DEF LogSpec

(* end_log_process returns only when the messages of all threads are in    *)
(* gateway.log, if it could be opened.                                     *)
THEOREM Complete == LogSpec => []CompleteAtExit
<1>1. LogInv => CompleteAtExit
  <2> SUFFICES ASSUME LogInv, tpc[Main] = "returned", lpc # "failed"
               PROVE  /\ lpc = "exited" /\ Len(logfile) = 2 * Len(written)
                      /\ \A t \in Threads : Cardinality(From(t)) = sent[t]
    BY DEF CompleteAtExit, From
  <2>1. lpc = "exited"
    BY LogNow DEF LastWord
  <2>2. chunk = <<>> /\ pipe = <<>> /\ logfile \in Seq(Part)
    BY <2>1, LogNow DEF PipeEnds
  <2>3. Stream = logfile
    <3>1. logfile \o <<>> = logfile
      BY <2>2, ConcatEmptySeq
    <3>2. QED
      BY <2>2, <3>1 DEF Stream
  <2>4. QED
    BY <2>1, <2>3 DEF LogInv, StreamIntact
<1>2. QED
  BY <1>1, LogSafety, PTL DEF LogSpec

(* No message of the gateway ends it while its log is open: the last       *)
(* message is written before the pipe can have lost its reader.            *)
THEOREM Killed == LogSpec => []KilledOnlyWithoutLog
<1>1. LogInv => KilledOnlyWithoutLog
  BY DEF LogInv, LastWord, KilledOnlyWithoutLog
<1>2. QED
  BY <1>1, LogSafety, PTL DEF LogSpec
=============================================================================
