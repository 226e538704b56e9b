----------------------------- MODULE AtaProofs -----------------------------
(* Theorems about Ata, for any disks, any sectors and any number of calls and   *)
(* failed commands.                                                             *)
EXTENDS Ata, TLAPS

\* The disks among the first i places, in their order.
Found(i) ==
  IF i = 0 THEN <<>>
  ELSE LET a1 == IF kind[Places[1]] = "ata" THEN Append(<<>>, Places[1]) ELSE <<>>
           a2 == IF kind[Places[2]] = "ata" THEN Append(a1, Places[2]) ELSE a1
           a3 == IF kind[Places[3]] = "ata" THEN Append(a2, Places[3]) ELSE a2
           a4 == IF kind[Places[4]] = "ata" THEN Append(a3, Places[4]) ELSE a3
       IN IF i = 1 THEN a1 ELSE IF i = 2 THEN a2 ELSE IF i = 3 THEN a3 ELSE a4

\* Found, one place further.
LEMMA FoundStep ==
  ASSUME NEW i \in 0 .. 3
  PROVE  Found(i + 1) = IF kind[Places[i + 1]] = "ata"
                        THEN Append(Found(i), Places[i + 1]) ELSE Found(i)
<1>1. i = 0 \/ i = 1 \/ i = 2 \/ i = 3
  OBVIOUS
<1>2. CASE i = 0
  BY <1>2 DEF Found
<1>3. CASE i = 1
  BY <1>3 DEF Found
<1>4. CASE i = 2
  BY <1>4 DEF Found
<1>5. CASE i = 3
  BY <1>5 DEF Found
<1> QED
  BY <1>1, <1>2, <1>3, <1>4, <1>5

\* The recursion of Scan, place by place.
LEMMA ScanFact ==
  /\ Scan[0] = <<>>
  /\ \A i \in 0 .. 3 :
       Scan[i + 1] = IF kind[Places[i + 1]] = "ata"
                     THEN Append(Scan[i], Places[i + 1]) ELSE Scan[i]
<1> DEFINE F(f) == [i \in 0 .. 4 |->
                      IF i = 0 THEN <<>>
                      ELSE IF kind[Places[i]] = "ata"
                      THEN Append(f[i - 1], Places[i]) ELSE f[i - 1]]
           g == [i \in 0 .. 4 |-> Found(i)]
<1>1. \A i \in 0 .. 4 : g[i] = IF i = 0 THEN <<>>
                               ELSE IF kind[Places[i]] = "ata"
                               THEN Append(g[i - 1], Places[i]) ELSE g[i - 1]
  <2> SUFFICES ASSUME NEW i \in 0 .. 4
               PROVE  g[i] = IF i = 0 THEN <<>>
                             ELSE IF kind[Places[i]] = "ata"
                             THEN Append(g[i - 1], Places[i]) ELSE g[i - 1]
    OBVIOUS
  <2>1. CASE i = 0
    BY <2>1 DEF Found
  <2>2. CASE i # 0
    <3>1. i - 1 \in 0 .. 3 /\ i - 1 \in 0 .. 4 /\ (i - 1) + 1 = i
      BY <2>2
    <3>2. Found(i) = IF kind[Places[i]] = "ata"
                     THEN Append(Found(i - 1), Places[i]) ELSE Found(i - 1)
      BY <3>1, FoundStep
    <3> QED
      BY <2>2, <3>1, <3>2
  <2> QED
    BY <2>1, <2>2
<1>2. g = F(g)
  BY <1>1
<1>3. Scan = CHOOSE f : f = F(f)
  BY DEF Scan
<1>4. Scan = F(Scan)
  BY <1>2, <1>3
<1>5. \A i \in 0 .. 4 : Scan[i] = IF i = 0 THEN <<>>
                                  ELSE IF kind[Places[i]] = "ata"
                                  THEN Append(Scan[i - 1], Places[i]) ELSE Scan[i - 1]
  BY <1>4
<1>6. \A i \in 0 .. 3 : i + 1 \in 0 .. 4 /\ i + 1 # 0 /\ (i + 1) - 1 = i
  OBVIOUS
<1> QED
  BY <1>5, <1>6
-----------------------------------------------------------------------------
(***************************************************************************)
(* The inductive invariant: what the code and the drives agree on.  At     *)
(* most one channel is at work, the one of the call; what it does is what  *)
(* the call last asked for, or it has failed.                              *)
(***************************************************************************)
Resting(p) == chan[p].state \in {"ready", "error"}

OthersRest(w) == \A p \in Ports : p # w.port => Resting(p)

\* How far the scan is, by the step main is at.
ScanPlace ==
  /\ pc \in {"probe", "identify"} => probed \in 0 .. 3
  /\ pc \notin {"probe", "identify"} => probed = 4

\* The call is one that the drive can be asked for.
CallValid ==
  pc \in {"read", "write", "flush", "flush_wait"} \/ (pc = "return" /\ ret) =>
    /\ call.idx \in Nat /\ call.idx < Len(drives)
    /\ call.lba \in Lbas
    /\ call.op = IF pc \in {"flush", "flush_wait"} THEN "write"
                 ELSE IF pc = "return" THEN call.op ELSE pc
    /\ call.op \in {"read", "write"}
    /\ call.op = "write" => call.data \in Data

Identifying ==
  pc = "identify" =>
    /\ OthersRest(Places[probed + 1])
    /\ chan[Places[probed + 1].port].at = Places[probed + 1]
    /\ chan[Places[probed + 1].port].cmd = "identify"

\* A read or a write that is not yet data: busy, asking, or failed.
Commanded ==
  pc \in {"read", "write"} =>
    LET c == chan[Target.port] IN
    /\ OthersRest(Target)
    /\ c.at = Target /\ c.cmd = pc /\ c.lba = call.lba
    /\ c.state \in {"busy", "drq", "error"}
    /\ c.state = "error" => faults > 0
    /\ pc = "read" /\ c.state = "drq" => c.data = cache[Target][call.lba]

\* The data is on its way to the cache of the drive, or there, or has failed.
Storing ==
  pc \in {"flush", "flush_wait"} =>
    LET c == chan[Target.port] IN
    /\ OthersRest(Target)
    /\ c.at = Target /\ c.cmd \in {"write", "store", "flush"} /\ c.state # "drq"
    /\ c.cmd = "write" => c.state = "error"
    /\ c.state = "busy" /\ c.cmd = "store" => c.lba = call.lba /\ c.data = call.data
    /\ faults > 0 \/ (c.state = "busy" /\ c.cmd = "store")
         \/ cache[Target][call.lba] = call.data

\* The result stands until the next call.
Reached ==
  pc = "return" /\ ret /\ faults = 0 =>
    cache[Target][call.lba] = IF call.op = "read" THEN buffer ELSE call.data

Quiescent == pc \in {"probe", "idle", "return"} => \A p \in Ports : Resting(p)

IInv ==
  /\ TypeOK /\ IndexIsScanOrder /\ ScanPlace /\ CallValid
  /\ Identifying /\ Commanded /\ Storing /\ Reached /\ Quiescent

-----------------------------------------------------------------------------
(* Facts about the places and about writes to a channel. *)

States == {"ready", "busy", "drq", "error"}
Commands == {"none", "identify", "read", "write", "store", "flush"}
Channel == [state : States, cmd : Commands, at : Place, lba : Lbas \cup {0},
            data : Data \cup {Garbage}]

\* A place is on a channel.
LEMMA PlaceFacts ==
  /\ \A i \in 0 .. 3 : Places[i + 1] \in Place
  /\ \A w \in Place : w.port \in Ports
<1>1. \A i \in 1 .. 4 : Places[i].port \in Ports
  BY DEF Places, Ports
<1> QED
  BY <1>1 DEF Place

\* The disks found are places, no more than were looked at.
LEMMA ScanType ==
  \A i \in 0 .. 4 : Scan[i] \in Seq(Place) /\ Len(Scan[i]) \in 0 .. i
<1> DEFINE P(i) == Scan[i] \in Seq(Place) /\ Len(Scan[i]) \in 0 .. i
<1>1. P(0)
  BY ScanFact
<1>2. ASSUME NEW i \in 0 .. 3, P(i) PROVE P(i + 1)
  <2>1. Places[i + 1] \in Place
    BY PlaceFacts
  <2>2. Scan[i + 1] = Append(Scan[i], Places[i + 1]) \/ Scan[i + 1] = Scan[i]
    BY ScanFact
  <2>3. CASE Scan[i + 1] = Scan[i]
    BY <1>2, <2>3
  <2>4. CASE Scan[i + 1] = Append(Scan[i], Places[i + 1])
    <3>1. /\ Scan[i + 1] \in Seq(Place)
          /\ Len(Scan[i + 1]) = Len(Scan[i]) + 1
      BY <1>2, <2>1, <2>4
    <3> QED
      BY <1>2, <3>1
  <2> QED
    BY <2>2, <2>3, <2>4
<1> HIDE DEF P
<1>3. P(1)
  BY <1>1, <1>2
<1>4. P(2)
  BY <1>2, <1>3
<1>5. P(3)
  BY <1>2, <1>4
<1>6. P(4)
  BY <1>2, <1>5
<1>7. \A i \in 0 .. 4 : P(i)
  BY <1>1, <1>3, <1>4, <1>5, <1>6
<1> QED
  BY <1>7 DEF P

\* The fields of TypeOK that the steps are about.
LEMMA FieldTypes ==
  ASSUME TypeOK
  PROVE  /\ chan \in [Ports -> Channel]
         /\ cache \in [Place -> [Lbas -> Data]]
         /\ media \in [Place -> [Lbas -> Data]]
         /\ drives \in Seq(Place)
         /\ faults \in 0 .. MaxFaults /\ calls \in 0 .. MaxCalls
<1>1. /\ cache \in [Place -> [Lbas -> Data]]
      /\ media \in [Place -> [Lbas -> Data]]
      /\ drives \in Seq(Place)
      /\ faults \in 0 .. MaxFaults /\ calls \in 0 .. MaxCalls
  BY DEF TypeOK
<1>2. chan \in [Ports -> Channel]
  BY DEF TypeOK, Channel, States, Commands
<1> QED
  BY <1>1, <1>2

\* The types of the fields of a channel.
LEMMA ChannelFields ==
  ASSUME NEW c \in Channel
  PROVE  /\ c.state \in States /\ c.cmd \in Commands /\ c.at \in Place
         /\ c.lba \in Lbas \cup {0} /\ c.data \in Data \cup {Garbage}
  BY DEF Channel

\* The drive of a channel goes to another state, with data or without.
LEMMA StateData ==
  ASSUME chan \in [Ports -> Channel], NEW p \in Ports, NEW s \in States,
         NEW d \in Data \cup {Garbage},
         chan' = [chan EXCEPT ![p].state = s, ![p].data = d]
  PROVE  /\ chan' \in [Ports -> Channel]
         /\ chan'[p].state = s /\ chan'[p].data = d
         /\ chan'[p].cmd = chan[p].cmd /\ chan'[p].at = chan[p].at
         /\ chan'[p].lba = chan[p].lba
         /\ \A q \in Ports : q # p => chan'[q] = chan[q]
  BY DEF Channel

\* The drive of a channel goes to another state and keeps its data.
LEMMA StateOnly ==
  ASSUME chan \in [Ports -> Channel], NEW p \in Ports, NEW s \in States,
         chan' = [chan EXCEPT ![p].state = s]
  PROVE  /\ chan' \in [Ports -> Channel]
         /\ chan'[p].state = s
         /\ chan'[p].cmd = chan[p].cmd /\ chan'[p].at = chan[p].at
         /\ chan'[p].lba = chan[p].lba /\ chan'[p].data = chan[p].data
         /\ \A q \in Ports : q # p => chan'[q] = chan[q]
  BY DEF Channel

\* The drive takes the data of a write and gets busy storing it.
LEMMA StateStore ==
  ASSUME chan \in [Ports -> Channel], NEW p \in Ports,
         NEW d \in Data \cup {Garbage},
         chan' = [chan EXCEPT ![p].state = "busy", ![p].cmd = "store", ![p].data = d]
  PROVE  /\ chan' \in [Ports -> Channel]
         /\ chan'[p].state = "busy" /\ chan'[p].cmd = "store" /\ chan'[p].data = d
         /\ chan'[p].at = chan[p].at /\ chan'[p].lba = chan[p].lba
         /\ \A q \in Ports : q # p => chan'[q] = chan[q]
  BY DEF Channel, States, Commands

\* A command to a channel that is not busy makes it busy with it.
LEMMA CommandFact ==
  ASSUME chan \in [Ports -> Channel], NEW w \in Place, NEW c \in Commands,
         NEW l \in Lbas \cup {0}, Command(w, c, l), chan[w.port].state # "busy"
  PROVE  /\ chan' \in [Ports -> Channel]
         /\ chan'[w.port] = [state |-> "busy", cmd |-> c, at |-> w, lba |-> l,
                             data |-> Garbage]
         /\ \A q \in Ports : q # w.port => chan'[q] = chan[q]
<1>1. w.port \in Ports
  BY PlaceFacts
<1> QED
  BY <1>1 DEF Command, Channel, States

\* A call that got as far as its drive is about a disk that exists.
LEMMA TargetFact ==
  ASSUME TypeOK, CallValid,
         pc \in {"read", "write", "flush", "flush_wait"} \/ (pc = "return" /\ ret)
  PROVE  Target \in Place /\ Target.port \in Ports
<1>1. call.idx \in Nat /\ call.idx < Len(drives) /\ drives \in Seq(Place)
  BY FieldTypes DEF CallValid
<1>2. call.idx + 1 \in 1 .. Len(drives)
  BY <1>1
<1> QED
  BY <1>1, <1>2, PlaceFacts DEF Target

\* Any new value of a channel that is a channel keeps its part of TypeOK.
LEMMA ChanType ==
  (chan \in [Ports -> Channel])' =>
    (chan \in [Ports -> [state : {"ready", "busy", "drq", "error"},
                         cmd : {"none", "identify", "read", "write", "store", "flush"},
                         at : Place, lba : Lbas \cup {0}, data : Data \cup {Garbage}]])'
  BY DEF Channel, States, Commands

-----------------------------------------------------------------------------
(* The steps of DiskManager::init. *)

\* Before the scan nothing is found and every channel rests.
LEMMA InitInv ==
  ASSUME Init
  PROVE  IInv
<1>1. Places[1] \in Place
  BY PlaceFacts
<1>2. TypeOK
  <2>1. Quiet \in Channel
    BY <1>1 DEF Quiet, Channel, States, Commands
  <2>2. chan \in [Ports -> Channel]
    BY <2>1 DEF Init
  <2>3. Fresh \in Data
    BY CallAssumption
  <2>4. cache \in [Place -> [Lbas -> Data]] /\ media \in [Place -> [Lbas -> Data]]
    BY <2>3 DEF Init
  <2>5. drives \in Seq(Place) /\ Len(drives) <= 4
    BY DEF Init
  <2>6. calls \in 0 .. MaxCalls /\ faults \in 0 .. MaxFaults
    BY BoundAssumption DEF Init
  <2>7. call \in [op : {"none", "read", "write"}, idx : Indices \cup {0},
                  lba : Lbas \cup {0}, data : Data \cup {Garbage}]
    BY DEF Init
  <2>8. /\ chan \in [Ports -> [state : {"ready", "busy", "drq", "error"},
                       cmd : {"none", "identify", "read", "write", "store", "flush"},
                       at : Place, lba : Lbas \cup {0}, data : Data \cup {Garbage}]]
    BY <2>2 DEF Channel, States, Commands
  <2>9. pc = "probe" /\ probed \in 0 .. 4 /\ buffer \in Data \cup {Garbage}
    BY DEF Init
  <2>10. kind \in [Place -> {"none", "ata", "packet"}]
    BY DEF Init
  <2>11. ret \in BOOLEAN
    BY DEF Init
  <2> QED
    BY <2>4, <2>5, <2>6, <2>7, <2>8, <2>9, <2>10, <2>11 DEF TypeOK
<1>3. IndexIsScanOrder
  BY ScanFact DEF Init, IndexIsScanOrder
<1>4. Quiescent
  BY DEF Init, Quiescent, Resting, Quiet
<1> QED
  BY <1>2, <1>3, <1>4
     DEF Init, IInv, ScanPlace, CallValid, Identifying, Commanded, Storing, Reached

\* The disks found do not change while kind does not.
LEMMA ScanKept ==
  ASSUME UNCHANGED kind
  PROVE  Scan' = Scan
  BY DEF Scan

\* The next place is looked at, or the scan is over; every channel rests.
LEMMA ProbeStep ==
  ASSUME IInv, pc \in {"probe", "identify"},
         ProbeNext(Places[probed + 1]),
         drives' = IF kind[Places[probed + 1]] = "ata"
                   THEN Append(drives, Places[probed + 1]) ELSE drives,
         (chan \in [Ports -> Channel])',
         \A p \in Ports : Resting(p)'
  PROVE  IInv'
<1>1. /\ TypeOK /\ IndexIsScanOrder /\ probed \in 0 .. 3
  BY DEF IInv, ScanPlace
<1>2. /\ probed' = probed + 1 /\ kind' = kind
      /\ pc' = IF probed' = 4 THEN "idle" ELSE "probe"
      /\ UNCHANGED <<call, buffer, ret, calls, cache, media, faults>>
  BY DEF ProbeNext
<1>3. IndexIsScanOrder'
  BY <1>1, <1>2, ScanFact, ScanKept DEF IndexIsScanOrder
<1>4. probed' \in 0 .. 4 /\ (pc' = "probe" => probed' \in 0 .. 3) /\ (pc' # "probe" => probed' = 4)
  BY <1>1, <1>2
<1>5. drives' \in Seq(Place) /\ Len(drives') <= 4
  <2>1. Scan'[probed'] \in Seq(Place) /\ Len(Scan'[probed']) \in 0 .. probed'
    BY <1>2, <1>4, ScanType, ScanKept
  <2>2. drives' = Scan'[probed']
    BY <1>3 DEF IndexIsScanOrder
  <2>3. drives' \in Seq(Place) /\ Len(drives') \in 0 .. probed'
    BY <2>1, <2>2
  <2> QED
    BY <1>4, <2>3
<1>6. TypeOK'
  BY <1>1, <1>2, <1>4, <1>5, ChanType DEF TypeOK
<1>7. ScanPlace' /\ Quiescent'
  BY <1>2, <1>4 DEF ScanPlace, Quiescent
<1> QED
  BY <1>2, <1>3, <1>6, <1>7
     DEF IInv, CallValid, Identifying, Commanded, Storing, Reached

\* An empty place adds nothing.
LEMMA ProbeNoneInv ==
  ASSUME IInv, ProbeNone
  PROVE  IInv'
<1>1. TypeOK /\ pc = "probe" /\ Quiescent
  BY DEF IInv, ProbeNone
<1>2. /\ ProbeNext(Places[probed + 1]) /\ kind[Places[probed + 1]] # "ata"
      /\ UNCHANGED <<drives, chan>>
  BY DEF ProbeNone
<1>3. (chan \in [Ports -> Channel])' /\ \A p \in Ports : Resting(p)'
  BY <1>1, <1>2, FieldTypes DEF Quiescent, Resting
<1> QED
  BY <1>1, <1>2, <1>3, ProbeStep

\* One channel is asked what is there; the others rest.
LEMMA IdentifyInv ==
  ASSUME IInv, Identify
  PROVE  IInv'
<1>1. TypeOK /\ IndexIsScanOrder /\ probed \in 0 .. 3 /\ pc = "probe" /\ Quiescent
  BY DEF IInv, ScanPlace, Identify
<1>2. PICK w \in Place : w = Places[probed + 1]
  BY <1>1, PlaceFacts
<1>3. /\ pc' = "identify" /\ Command(w, "identify", 0)
      /\ UNCHANGED <<drives, probed, call, buffer, ret, calls, kind, cache, media, faults>>
  BY <1>2 DEF Identify
<1>4. chan \in [Ports -> Channel] /\ w.port \in Ports /\ chan[w.port].state # "busy"
  BY <1>1, FieldTypes, PlaceFacts DEF Quiescent, Resting
<1>5. /\ (chan \in [Ports -> Channel])'
      /\ chan'[w.port] = [state |-> "busy", cmd |-> "identify", at |-> w, lba |-> 0,
                          data |-> Garbage]
      /\ \A q \in Ports : q # w.port => chan'[q] = chan[q]
  <2>1. "identify" \in Commands
    BY DEF Commands
  <2> QED
    BY <1>3, <1>4, <2>1, CommandFact
<1>6. TypeOK'
  BY <1>1, <1>3, <1>5, ChanType DEF TypeOK
<1>7. IndexIsScanOrder'
  BY <1>1, <1>3, ScanKept DEF IndexIsScanOrder
<1>8. Identifying'
  BY <1>1, <1>2, <1>3, <1>5 DEF Identifying, OthersRest, Resting, Quiescent
<1> QED
  BY <1>1, <1>3, <1>6, <1>7, <1>8
     DEF IInv, ScanPlace, CallValid, Commanded, Storing, Reached, Quiescent

\* The answer of the place decides whether it gets the next index.
LEMMA ProbeDoneInv ==
  ASSUME IInv, ProbeDone
  PROVE  IInv'
<1>1. TypeOK /\ probed \in 0 .. 3 /\ pc = "identify" /\ Identifying
  BY DEF IInv, ScanPlace, ProbeDone
<1>2. PICK w \in Place : w = Places[probed + 1] /\ w.port \in Ports
  BY <1>1, PlaceFacts
<1>3. /\ ProbeNext(w) /\ chan' = [chan EXCEPT ![w.port].state = "ready"]
      /\ drives' = IF kind[w] = "ata" THEN Append(drives, w) ELSE drives
  BY <1>2 DEF ProbeDone
<1>4. /\ (chan \in [Ports -> Channel])'
      /\ chan'[w.port].state = "ready"
      /\ \A q \in Ports : q # w.port => chan'[q] = chan[q]
  <2>1. "ready" \in States
    BY DEF States
  <2> QED
    BY <1>1, <1>2, <1>3, <2>1, FieldTypes, StateOnly
<1>5. \A p \in Ports : Resting(p)'
  BY <1>1, <1>2, <1>4 DEF Identifying, OthersRest, Resting
<1> QED
  BY <1>1, <1>2, <1>3, <1>4, <1>5, ProbeStep

-----------------------------------------------------------------------------
(* The steps of read_sector and write_sector. *)

\* A call is refused for an index without a disk, or commands a resting channel.
LEMMA BeginInv ==
  ASSUME IInv, NEW op \in {"read", "write"}, NEW i \in Indices, NEW l \in Lbas,
         NEW d \in Data \cup {Garbage}, op = "write" => d \in Data, Begin(op, i, l, d)
  PROVE  IInv'
<1>1. TypeOK /\ IndexIsScanOrder /\ probed = 4 /\ pc = "idle" /\ Quiescent
  BY DEF IInv, ScanPlace, Begin
<1>2. /\ UNCHANGED <<drives, probed, kind, cache, media, faults>>
      /\ calls' = calls + 1 /\ calls < MaxCalls /\ buffer' = Garbage
      /\ call' = [op |-> op, idx |-> i, lba |-> l, data |-> d]
  BY DEF Begin
<1>3. i \in Nat /\ calls' \in 0 .. MaxCalls
  BY <1>1, <1>2, FieldTypes, CallAssumption, BoundAssumption
<1>4. call' \in [op : {"none", "read", "write"}, idx : Indices \cup {0},
                 lba : Lbas \cup {0}, data : Data \cup {Garbage}]
  BY <1>2
<1>5. call'.op = op /\ call'.idx = i /\ call'.lba = l /\ call'.data = d
  BY <1>2
<1>6. IndexIsScanOrder'
  BY <1>1, <1>2, ScanKept DEF IndexIsScanOrder
<1>7. CASE i >= Len(drives)
  <2>1. ret' = FALSE /\ pc' = "return" /\ chan' = chan
    BY <1>3, <1>1, <1>7, FieldTypes DEF Begin
  <2>2. TypeOK'
    BY <1>1, <1>2, <1>3, <1>4, <2>1 DEF TypeOK
  <2> QED
    BY <1>1, <1>2, <1>6, <2>1, <2>2
       DEF IInv, ScanPlace, CallValid, Identifying, Commanded, Storing, Reached,
           Quiescent, Resting
<1>8. CASE i < Len(drives)
  <2>1. PICK w \in Place : w = drives[i + 1] /\ w.port \in Ports
    <3>1. drives \in Seq(Place) /\ i + 1 \in 1 .. Len(drives)
      BY <1>1, <1>3, <1>8, FieldTypes
    <3> QED
      BY <3>1, PlaceFacts
  <2>2. pc' = op /\ ret' = ret /\ Command(w, op, l)
    BY <1>1, <1>3, <1>8, <2>1, FieldTypes DEF Begin, Issue
  <2>3. /\ (chan \in [Ports -> Channel])'
        /\ chan'[w.port] = [state |-> "busy", cmd |-> op, at |-> w, lba |-> l,
                            data |-> Garbage]
        /\ \A q \in Ports : q # w.port => chan'[q] = chan[q]
    <3>1. op \in Commands
      BY DEF Commands
    <3>2. chan[w.port].state # "busy" /\ chan \in [Ports -> Channel]
      BY <1>1, <2>1, FieldTypes DEF Quiescent, Resting
    <3> QED
      BY <2>2, <3>1, <3>2, CommandFact
  <2>4. Target' = w
    BY <1>2, <1>5, <2>1 DEF Target
  <2>5. TypeOK'
    BY <1>1, <1>2, <1>3, <1>4, <2>2, <2>3, ChanType DEF TypeOK
  <2>6. CallValid'
    BY <1>2, <1>3, <1>5, <1>8, <2>2 DEF CallValid
  <2>7. Commanded'
    BY <1>1, <1>5, <2>2, <2>3, <2>4 DEF Commanded, OthersRest, Resting, Quiescent
  <2> QED
    BY <1>1, <1>2, <1>6, <2>2, <2>5, <2>6, <2>7
       DEF IInv, ScanPlace, Identifying, Storing, Reached, Quiescent
<1> QED
  BY <1>7, <1>8, <1>1, <1>3, FieldTypes

\* What a step of a call that leaves the call alone keeps.
LEMMA SameCall ==
  ASSUME IInv, UNCHANGED <<drives, probed, call, kind>>
  PROVE  Target' = Target /\ IndexIsScanOrder'
  BY ScanKept DEF IInv, IndexIsScanOrder, Target

\* The buffer gets the sector that the drive offers, or the drive has failed.
LEMMA ReadWordsInv ==
  ASSUME IInv, ReadWords
  PROVE  IInv'
<1>1. TypeOK /\ pc = "read" /\ CallValid /\ Commanded /\ probed = 4
  BY DEF IInv, ScanPlace, ReadWords
<1>2. PICK w \in Place : w = Target /\ w.port \in Ports
  BY <1>1, TargetFact
<1>3. chan \in [Ports -> Channel] /\ chan[w.port] \in Channel
  BY <1>1, <1>2, FieldTypes
<1>4. /\ UNCHANGED <<drives, probed, call, calls, kind, cache, media, faults>>
      /\ pc' = "return" /\ ret' = TRUE
      /\ chan[w.port].state \in {"drq", "error"}
      /\ chan[w.port].state = "error" => faults > 0
      /\ \A p \in Ports : p # w.port => Resting(p)
  BY <1>1, <1>2 DEF ReadWords, Waited, Busy, Commanded, OthersRest
<1>5. CASE chan[w.port].state = "drq"
  <2>1. /\ buffer' = chan[w.port].data
        /\ chan' = [chan EXCEPT ![w.port].state = "ready"]
        /\ chan[w.port].data = cache[w][call.lba]
    BY <1>1, <1>2, <1>5 DEF ReadWords, Commanded
  <2>2. /\ (chan \in [Ports -> Channel])'
        /\ chan'[w.port].state = "ready"
        /\ \A q \in Ports : q # w.port => chan'[q] = chan[q]
    <3>1. "ready" \in States
      BY DEF States
    <3> QED
      BY <1>2, <1>3, <2>1, <3>1, StateOnly
  <2>3. buffer' \in Data \cup {Garbage}
    BY <1>3, <2>1, ChannelFields
  <2>4. TypeOK'
    BY <1>1, <1>4, <2>2, <2>3, ChanType DEF TypeOK
  <2>5. CallValid' /\ call.op = "read"
    BY <1>1, <1>4 DEF CallValid
  <2>6. Reached'
    BY <1>2, <1>4, <2>1, <2>5, SameCall DEF Reached
  <2>7. Quiescent'
    BY <1>4, <2>2 DEF Quiescent, Resting
  <2> QED
    BY <1>1, <1>4, <2>4, <2>5, <2>6, <2>7, SameCall
       DEF IInv, ScanPlace, Identifying, Commanded, Storing
<1>6. CASE chan[w.port].state = "error"
  <2>1. buffer' = Garbage /\ chan' = chan
    BY <1>2, <1>6 DEF ReadWords
  <2>2. TypeOK'
    BY <1>1, <1>4, <2>1 DEF TypeOK
  <2>3. CallValid'
    BY <1>1, <1>4 DEF CallValid
  <2>4. faults' # 0
    BY <1>1, <1>4, <1>6, FieldTypes, BoundAssumption
  <2>5. Quiescent'
    BY <1>4, <1>6, <2>1 DEF Quiescent, Resting
  <2> QED
    BY <1>1, <1>4, <2>2, <2>3, <2>4, <2>5, SameCall
       DEF IInv, ScanPlace, Identifying, Commanded, Storing, Reached
<1> QED
  BY <1>4, <1>5, <1>6

\* The data goes to the drive, which gets busy storing it, or the drive has failed.
LEMMA WriteWordsInv ==
  ASSUME IInv, WriteWords
  PROVE  IInv'
<1>1. TypeOK /\ pc = "write" /\ CallValid /\ Commanded /\ probed = 4
  BY DEF IInv, ScanPlace, WriteWords
<1>2. PICK w \in Place : w = Target /\ w.port \in Ports
  BY <1>1, TargetFact
<1>3. chan \in [Ports -> Channel] /\ chan[w.port] \in Channel
  BY <1>1, <1>2, FieldTypes
<1>4. /\ UNCHANGED <<drives, probed, call, buffer, ret, calls, kind, cache, media, faults>>
      /\ pc' = "flush"
      /\ chan[w.port].state \in {"drq", "error"}
      /\ chan[w.port].state = "error" => faults > 0
      /\ chan[w.port].at = w /\ chan[w.port].cmd = "write" /\ chan[w.port].lba = call.lba
      /\ \A p \in Ports : p # w.port => Resting(p)
  BY <1>1, <1>2 DEF WriteWords, Waited, Busy, Commanded, OthersRest
<1>5. CallValid' /\ call.op = "write" /\ call.data \in Data
  BY <1>1, <1>4 DEF CallValid
<1>6. CASE chan[w.port].state = "drq"
  <2>1. chan' = [chan EXCEPT ![w.port].state = "busy", ![w.port].cmd = "store",
                             ![w.port].data = call.data]
    BY <1>2, <1>6 DEF WriteWords
  <2>2. /\ (chan \in [Ports -> Channel])'
        /\ chan'[w.port].state = "busy" /\ chan'[w.port].cmd = "store"
        /\ chan'[w.port].data = call.data
        /\ chan'[w.port].at = w /\ chan'[w.port].lba = call.lba
        /\ \A q \in Ports : q # w.port => chan'[q] = chan[q]
    BY <1>2, <1>3, <1>4, <1>5, <2>1, StateStore
  <2>3. TypeOK'
    BY <1>1, <1>4, <2>2, ChanType DEF TypeOK
  <2>4. Storing'
    BY <1>2, <1>4, <2>2, SameCall DEF Storing, OthersRest, Resting
  <2> QED
    BY <1>1, <1>4, <1>5, <2>3, <2>4, SameCall
       DEF IInv, ScanPlace, Identifying, Commanded, Reached, Quiescent
<1>7. CASE chan[w.port].state = "error"
  <2>1. chan' = chan
    BY <1>2, <1>7 DEF WriteWords
  <2>2. TypeOK'
    BY <1>1, <1>4, <2>1 DEF TypeOK
  <2>3. Storing'
    BY <1>2, <1>4, <1>7, <2>1, SameCall DEF Storing, OthersRest, Resting
  <2> QED
    BY <1>1, <1>4, <1>5, <2>2, <2>3, SameCall
       DEF IInv, ScanPlace, Identifying, Commanded, Reached, Quiescent
<1> QED
  BY <1>4, <1>6, <1>7

\* The flush command is taken by an idle drive and lost on a busy one: either way
\* the data stays where it was.
LEMMA FlushInv ==
  ASSUME IInv, Flush
  PROVE  IInv'
<1>1. TypeOK /\ pc = "flush" /\ CallValid /\ Storing /\ probed = 4
  BY DEF IInv, ScanPlace, Flush
<1>2. PICK w \in Place : w = Target /\ w.port \in Ports
  BY <1>1, TargetFact
<1>3. /\ UNCHANGED <<drives, probed, call, buffer, ret, calls, kind, cache, media, faults>>
      /\ pc' = "flush_wait" /\ Command(w, "flush", 0)
      /\ chan \in [Ports -> Channel]
      /\ \A p \in Ports : p # w.port => Resting(p)
  BY <1>1, <1>2, FieldTypes DEF Flush, Storing, OthersRest
<1>4. CallValid'
  BY <1>1, <1>3 DEF CallValid
<1>5. CASE chan[w.port].state = "busy"
  <2>1. chan' = chan
    BY <1>3, <1>5 DEF Command
  <2>2. TypeOK'
    BY <1>1, <1>3, <2>1 DEF TypeOK
  <2>3. Storing'
    BY <1>1, <1>2, <1>3, <2>1, SameCall DEF Storing, OthersRest, Resting
  <2> QED
    BY <1>1, <1>3, <1>4, <2>2, <2>3, SameCall
       DEF IInv, ScanPlace, Identifying, Commanded, Reached, Quiescent
<1>6. CASE chan[w.port].state # "busy"
  <2>1. /\ (chan \in [Ports -> Channel])'
        /\ chan'[w.port] = [state |-> "busy", cmd |-> "flush", at |-> w, lba |-> 0,
                            data |-> Garbage]
        /\ \A q \in Ports : q # w.port => chan'[q] = chan[q]
    <3>1. "flush" \in Commands
      BY DEF Commands
    <3> QED
      BY <1>3, <1>6, <3>1, CommandFact
  <2>2. TypeOK'
    BY <1>1, <1>3, <2>1, ChanType DEF TypeOK
  <2>3. faults > 0 \/ cache[w][call.lba] = call.data
    BY <1>1, <1>2, <1>6 DEF Storing
  <2>4. Storing'
    BY <1>2, <1>3, <2>1, <2>3, SameCall DEF Storing, OthersRest, Resting
  <2> QED
    BY <1>1, <1>3, <1>4, <2>2, <2>4, SameCall
       DEF IInv, ScanPlace, Identifying, Commanded, Reached, Quiescent
<1> QED
  BY <1>5, <1>6

\* The drive is not busy: what it was given is in its cache, or a command failed.
LEMMA FlushDoneInv ==
  ASSUME IInv, FlushDone
  PROVE  IInv'
<1>1. TypeOK /\ pc = "flush_wait" /\ CallValid /\ Storing /\ probed = 4
  BY DEF IInv, ScanPlace, FlushDone
<1>2. PICK w \in Place : w = Target /\ w.port \in Ports
  BY <1>1, TargetFact
<1>3. /\ UNCHANGED <<drives, probed, call, buffer, calls, kind, chan, cache, media, faults>>
      /\ pc' = "return" /\ ret' = TRUE /\ chan[w.port].state # "busy"
  BY <1>2 DEF FlushDone, Waited, Busy, drive
<1>4. CallValid' /\ call.op = "write"
  BY <1>1, <1>3 DEF CallValid
<1>5. TypeOK'
  BY <1>1, <1>3 DEF TypeOK
<1>6. /\ faults > 0 \/ cache[w][call.lba] = call.data
      /\ chan[w.port].state # "drq"
      /\ \A p \in Ports : p # w.port => Resting(p)
  BY <1>1, <1>2, <1>3 DEF Storing, OthersRest
<1>7. Reached'
  <2>1. faults = 0 => ~(faults > 0)
    BY <1>1, FieldTypes
  <2> QED
    BY <1>2, <1>3, <1>4, <1>6, <2>1, SameCall DEF Reached
<1>8. Quiescent'
  <2>1. chan[w.port] \in Channel
    BY <1>1, <1>2, FieldTypes
  <2>2. Resting(w.port)
    BY <1>3, <1>6, <2>1, ChannelFields DEF Resting, States
  <2> QED
    BY <1>3, <1>6, <2>2 DEF Quiescent, Resting
<1> QED
  BY <1>1, <1>3, <1>4, <1>5, <1>7, <1>8, SameCall
     DEF IInv, ScanPlace, Identifying, Commanded, Storing

\* Nothing of the drives or of the call is touched on the way back to the caller.
LEMMA ReturnInv ==
  ASSUME IInv, Return
  PROVE  IInv'
<1>1. TypeOK /\ pc = "return" /\ Quiescent /\ probed = 4
  BY DEF IInv, ScanPlace, Return
<1>2. /\ UNCHANGED <<drives, probed, call, buffer, ret, calls, kind, chan, cache, media, faults>>
      /\ pc' = "idle"
  BY DEF Return, drive
<1>3. TypeOK'
  BY <1>1, <1>2 DEF TypeOK
<1>4. Quiescent'
  BY <1>1, <1>2 DEF Quiescent, Resting
<1> QED
  BY <1>1, <1>2, <1>3, <1>4, SameCall
     DEF IInv, ScanPlace, CallValid, Identifying, Commanded, Storing, Reached

-----------------------------------------------------------------------------
(* The steps of the drives. *)

\* A busy channel is the one that main waits for.
LEMMA BusyOne ==
  ASSUME IInv, NEW p \in Ports, chan[p].state = "busy"
  PROVE  /\ pc \in {"identify", "read", "write", "flush", "flush_wait"}
         /\ pc = "identify" =>
              p = Places[probed + 1].port /\ chan[p].cmd = "identify"
         /\ pc \in {"read", "write"} => p = Target.port /\ chan[p].cmd = pc
         /\ pc \in {"flush", "flush_wait"} =>
              p = Target.port /\ chan[p].cmd \in {"store", "flush"}
<1>1. ~Resting(p)
  BY DEF Resting
<1>2. pc \in {"identify", "read", "write", "flush", "flush_wait"}
  BY <1>1 DEF IInv, Quiescent, TypeOK
<1>3. pc = "identify" => p = Places[probed + 1].port /\ chan[p].cmd = "identify"
  BY <1>1 DEF IInv, Identifying, OthersRest
<1>4. pc \in {"read", "write"} => p = Target.port /\ chan[p].cmd = pc
  BY <1>1 DEF IInv, Commanded, OthersRest
<1>5. pc \in {"flush", "flush_wait"} =>
        p = Target.port /\ chan[p].cmd \in {"store", "flush"}
  <2>1. CASE pc \in {"flush", "flush_wait"}
    <3>1. p = Target.port
      BY <1>1, <2>1 DEF IInv, Storing, OthersRest
    <3>2. chan[p].cmd \in {"write", "store", "flush"} /\ chan[p].cmd # "write"
      BY <2>1, <3>1 DEF IInv, Storing
    <3> QED
      BY <3>1, <3>2
  <2> QED
    BY <2>1
<1> QED
  BY <1>2, <1>3, <1>4, <1>5

\* The type of everything a drive changes, and what it leaves alone.
LEMMA DriveType ==
  ASSUME IInv, UNCHANGED <<code, kind>>, (chan \in [Ports -> Channel])',
         cache' \in [Place -> [Lbas -> Data]], media' \in [Place -> [Lbas -> Data]],
         faults' \in 0 .. MaxFaults
  PROVE  /\ TypeOK' /\ IndexIsScanOrder' /\ ScanPlace' /\ CallValid'
         /\ Target' = Target /\ call' = call /\ pc' = pc /\ probed' = probed
         /\ drives' = drives /\ buffer' = buffer /\ ret' = ret
<1>1. UNCHANGED <<drives, pc, probed, call, buffer, ret, calls, kind>>
  BY DEF code
<1>2. TypeOK'
  BY <1>1, ChanType DEF IInv, TypeOK
<1>3. ScanPlace' /\ CallValid'
  BY <1>1 DEF IInv, ScanPlace, CallValid
<1> QED
  BY <1>1, <1>2, <1>3, SameCall

\* A store replaces one sector of one disk.
LEMMA StoreFact ==
  ASSUME cache \in [Place -> [Lbas -> Data]], NEW w \in Place, NEW l \in Lbas,
         NEW d \in Data, cache' = [cache EXCEPT ![w][l] = d]
  PROVE  /\ cache' \in [Place -> [Lbas -> Data]]
         /\ cache'[w][l] = d
         /\ \A v \in Place, k \in Lbas : v # w \/ k # l => cache'[v][k] = cache[v][k]
<1>1. cache[w] \in [Lbas -> Data]
  OBVIOUS
<1>2. cache' = [cache EXCEPT ![w] = [cache[w] EXCEPT ![l] = d]]
  OBVIOUS
<1>3. [cache[w] EXCEPT ![l] = d] \in [Lbas -> Data]
  BY <1>1
<1> QED
  BY <1>1, <1>2, <1>3

\* A drive that gives up: a failed command counts as a fault.
LEMMA FailInv ==
  ASSUME IInv, NEW p \in Ports, Fail(p)
  PROVE  IInv'
<1>1. TypeOK /\ chan \in [Ports -> Channel] /\ chan[p].state = "busy"
  BY FieldTypes DEF IInv, Fail
<1>2. /\ UNCHANGED <<code, kind>> /\ cache' = cache /\ media' = media
      /\ chan' = [chan EXCEPT ![p].state = "error"]
      /\ faults' = faults + 1 /\ faults < MaxFaults
  BY DEF Fail
<1>3. faults' \in 0 .. MaxFaults /\ faults' > 0
  BY <1>1, <1>2, FieldTypes, BoundAssumption
<1>4. /\ (chan \in [Ports -> Channel])'
      /\ chan'[p].state = "error"
      /\ chan'[p].cmd = chan[p].cmd /\ chan'[p].at = chan[p].at
      /\ chan'[p].lba = chan[p].lba /\ chan'[p].data = chan[p].data
      /\ \A q \in Ports : q # p => chan'[q] = chan[q]
  <2>1. "error" \in States
    BY DEF States
  <2> QED
    BY <1>1, <1>2, <2>1, StateOnly
<1>5. /\ TypeOK' /\ IndexIsScanOrder' /\ ScanPlace' /\ CallValid'
      /\ Target' = Target /\ call' = call /\ pc' = pc /\ probed' = probed
  BY <1>1, <1>2, <1>3, <1>4, FieldTypes, DriveType
<1>6. \A q \in Ports : Resting(q) => Resting(q)'
  BY <1>4 DEF Resting
<1>7. Identifying'
  BY <1>1, <1>4, <1>5, <1>6, BusyOne DEF IInv, Identifying, OthersRest
<1>8. Commanded'
  BY <1>1, <1>3, <1>4, <1>5, <1>6, BusyOne DEF IInv, Commanded, OthersRest
<1>9. Storing'
  BY <1>1, <1>3, <1>4, <1>5, <1>6, BusyOne DEF IInv, Storing, OthersRest
<1>10. Reached'
  BY <1>3 DEF Reached
<1>11. Quiescent'
  BY <1>5, <1>6 DEF IInv, Quiescent
<1> QED
  BY <1>5, <1>7, <1>8, <1>9, <1>10, <1>11 DEF IInv

\* The platter follows the cache; nothing else looks at it.
LEMMA WriteBackInv ==
  ASSUME IInv, NEW w \in Place, NEW l \in Lbas, WriteBack(w, l)
  PROVE  IInv'
<1>1. TypeOK
  BY DEF IInv
<1>2. /\ UNCHANGED <<code, kind>> /\ chan' = chan /\ cache' = cache /\ faults' = faults
      /\ media' = [media EXCEPT ![w][l] = cache[w][l]]
  BY DEF WriteBack
<1>3. media' \in [Place -> [Lbas -> Data]]
  <2>1. media[w] \in [Lbas -> Data] /\ cache[w][l] \in Data
    BY <1>1, FieldTypes
  <2>2. [media[w] EXCEPT ![l] = cache[w][l]] \in [Lbas -> Data]
    BY <2>1
  <2> QED
    BY <1>1, <1>2, <2>2, FieldTypes
<1>4. /\ TypeOK' /\ IndexIsScanOrder' /\ ScanPlace' /\ CallValid'
      /\ Target' = Target /\ call' = call /\ pc' = pc /\ probed' = probed
      /\ buffer' = buffer /\ ret' = ret
  BY <1>1, <1>2, <1>3, FieldTypes, DriveType
<1>5. Identifying' /\ Quiescent'
  BY <1>2, <1>4 DEF IInv, Identifying, Quiescent, OthersRest, Resting
<1>6. Commanded'
  BY <1>2, <1>4 DEF IInv, Commanded, OthersRest, Resting
<1>7. Storing'
  BY <1>2, <1>4 DEF IInv, Storing, OthersRest, Resting
<1>8. Reached'
  BY <1>2, <1>4 DEF IInv, Reached
<1> QED
  BY <1>4, <1>5, <1>6, <1>7, <1>8 DEF IInv

\* The drive ends what the call asked for: the data offered is the sector's, the
\* data stored goes to the sector.
LEMMA CompleteInv ==
  ASSUME IInv, NEW p \in Ports, Complete(p)
  PROVE  IInv'
<1>1. TypeOK /\ chan \in [Ports -> Channel] /\ chan[p].state = "busy" /\ CallValid
  BY FieldTypes DEF IInv, Complete
<1>2. UNCHANGED <<code, kind>> /\ faults' = faults
  BY DEF Complete
<1>3. chan[p] \in Channel /\ faults' \in 0 .. MaxFaults
  BY <1>1, <1>2, FieldTypes
<1>4. \E s \in {"ready", "drq"}, d \in Data \cup {Garbage} :
         /\ chan' = [chan EXCEPT ![p].state = s, ![p].data = d]
         /\ chan[p].cmd \in {"store", "flush"} => s = "ready"
         /\ chan[p].cmd = "read" => d = cache[chan[p].at][chan[p].lba]
         /\ chan[p].cmd \in {"read", "write"} => s = "drq"
  <2>1. CASE chan[p].cmd = "identify"
    BY <2>1 DEF Complete
  <2>2. CASE chan[p].cmd = "read"
    <3>1. pc = "read" /\ p = Target.port
      BY <1>1, <2>2, BusyOne
    <3>2. chan[p].lba \in Lbas /\ chan[p].at \in Place
      BY <1>1, <1>3, <3>1, ChannelFields DEF IInv, Commanded, CallValid
    <3>3. cache[chan[p].at][chan[p].lba] \in Data
      BY <1>1, <3>2, FieldTypes
    <3> QED
      BY <2>2, <3>3 DEF Complete
  <2>3. CASE chan[p].cmd \in {"write", "store", "flush"}
    BY <2>3 DEF Complete
  <2> QED
    BY <2>1, <2>2, <2>3 DEF Complete
<1>5. PICK s \in {"ready", "drq"}, d \in Data \cup {Garbage} :
         /\ chan' = [chan EXCEPT ![p].state = s, ![p].data = d]
         /\ chan[p].cmd \in {"store", "flush"} => s = "ready"
         /\ chan[p].cmd = "read" => d = cache[chan[p].at][chan[p].lba]
         /\ chan[p].cmd \in {"read", "write"} => s = "drq"
  BY <1>4
<1>6. /\ (chan \in [Ports -> Channel])'
      /\ chan'[p].state = s /\ chan'[p].data = d
      /\ chan'[p].cmd = chan[p].cmd /\ chan'[p].at = chan[p].at
      /\ chan'[p].lba = chan[p].lba
      /\ \A q \in Ports : q # p => chan'[q] = chan[q]
  <2>1. s \in States
    BY DEF States
  <2>2. chan' = [chan EXCEPT ![p].state = s, ![p].data = d]
    BY <1>5
  <2>3. chan \in [Ports -> Channel]
    BY <1>1
  <2>5. chan'[p].state = s /\ chan'[p].data = d
    BY <2>2, <2>3 DEF Channel
  <2>6. chan' \in [Ports -> Channel]
    BY <2>1, <2>2, <2>3, StateData
  <2>7. chan'[p].cmd = chan[p].cmd /\ chan'[p].at = chan[p].at
      /\ chan'[p].lba = chan[p].lba
    BY <2>1, <2>2, <2>3, StateData
  <2>8. \A q \in Ports : q # p => chan'[q] = chan[q]
    BY <2>1, <2>2, <2>3, StateData
  <2> QED
    BY <2>5, <2>6, <2>7, <2>8
<1>7. CASE pc \in {"identify", "read", "write"}
  <2>1. cache' = cache /\ media' = media
    BY <1>1, <1>7, BusyOne DEF Complete
  <2>2. /\ TypeOK' /\ IndexIsScanOrder' /\ ScanPlace' /\ CallValid'
        /\ Target' = Target /\ call' = call /\ pc' = pc /\ probed' = probed
    BY <1>1, <1>2, <1>3, <1>6, <2>1, FieldTypes, DriveType
  <2>3. Identifying'
    BY <1>1, <1>6, <1>7, <2>2, BusyOne
       DEF IInv, Identifying, OthersRest, Resting
  <2>4. Commanded'
    <3>1. CASE pc = "identify"
      BY <2>2, <3>1 DEF Commanded
    <3>2. CASE pc \in {"read", "write"}
      <4>1. p = Target.port /\ chan[p].cmd = pc
        BY <1>1, <3>2, BusyOne
      <4>2. s = "drq" /\ (pc = "read" => d = cache[chan[p].at][chan[p].lba])
        BY <1>5, <3>2, <4>1
      <4>3. /\ chan[p].at = Target /\ chan[p].lba = call.lba
            /\ OthersRest(Target)
        BY <3>2, <4>1 DEF IInv, Commanded
      <4>4. OthersRest(Target)'
        BY <1>6, <2>2, <4>1, <4>3 DEF OthersRest, Resting
      <4> QED
        BY <1>6, <2>1, <2>2, <3>2, <4>1, <4>2, <4>3, <4>4 DEF Commanded
    <3> QED
      BY <1>7, <3>1, <3>2
  <2> QED
    BY <1>7, <2>2, <2>3, <2>4 DEF IInv, Storing, Reached, Quiescent
<1>8. CASE pc \in {"flush", "flush_wait"}
  <2>1. PICK w \in Place : w = Target /\ p = w.port
    BY <1>1, <1>8, BusyOne, TargetFact
  <2>2. /\ chan[p].at = w /\ chan[p].cmd \in {"store", "flush"}
        /\ chan[p].cmd = "store" => chan[p].lba = call.lba /\ chan[p].data = call.data
        /\ faults > 0 \/ chan[p].cmd = "store" \/ cache[w][call.lba] = call.data
        /\ OthersRest(w)
    BY <1>1, <1>8, <2>1, BusyOne DEF IInv, Storing
  <2>3. s = "ready"
    BY <1>5, <2>2
  <2>4. call.lba \in Lbas /\ call.data \in Data
    BY <1>1, <1>8 DEF CallValid
  <2>5. /\ cache' \in [Place -> [Lbas -> Data]] /\ media' \in [Place -> [Lbas -> Data]]
        /\ faults > 0 \/ cache'[w][call.lba] = call.data
    <3>1. CASE chan[p].cmd = "store"
      <4>1. cache' = [cache EXCEPT ![w][call.lba] = call.data] /\ media' = media
        BY <2>2, <3>1 DEF Complete
      <4> QED
        BY <1>1, <2>4, <4>1, FieldTypes, StoreFact
    <3>2. CASE chan[p].cmd = "flush"
      <4>1. cache' = cache /\ media' = [media EXCEPT ![w] = cache[w]]
        BY <2>2, <3>2 DEF Complete
      <4> QED
        BY <1>1, <2>2, <3>2, <4>1, FieldTypes
    <3> QED
      BY <2>2, <3>1, <3>2
  <2>6. /\ TypeOK' /\ IndexIsScanOrder' /\ ScanPlace' /\ CallValid'
        /\ Target' = Target /\ call' = call /\ pc' = pc /\ probed' = probed
    BY <1>1, <1>2, <1>3, <1>6, <2>5, DriveType
  <2>7. OthersRest(w)'
    BY <1>6, <2>1, <2>2 DEF OthersRest, Resting
  <2>8. Storing'
    BY <1>2, <1>6, <2>1, <2>2, <2>3, <2>5, <2>6, <2>7 DEF Storing
  <2> QED
    BY <1>8, <2>6, <2>8 DEF IInv, Identifying, Commanded, Reached, Quiescent
<1> QED
  BY <1>1, <1>7, <1>8, BusyOne

\* A step that changes nothing.
LEMMA StutterInv ==
  ASSUME IInv, UNCHANGED vars
  PROVE  IInv'
<1>1. UNCHANGED <<drives, pc, probed, call, buffer, ret, calls, kind, chan, cache, media, faults>>
  BY DEF vars, code, drive
<1>2. TypeOK'
  BY <1>1 DEF IInv, TypeOK
<1>3. Identifying' /\ Quiescent' /\ ScanPlace' /\ CallValid'
  BY <1>1 DEF IInv, Identifying, Quiescent, OthersRest, Resting, ScanPlace, CallValid
<1>4. Commanded'
  BY <1>1, SameCall DEF IInv, Commanded, OthersRest, Resting
<1>5. Storing' /\ Reached'
  BY <1>1, SameCall DEF IInv, Storing, Reached, OthersRest, Resting
<1> QED
  BY <1>1, <1>2, <1>3, <1>4, <1>5, SameCall DEF IInv

\* Every step keeps the invariant.
LEMMA StepInv == IInv /\ [Next]_vars => IInv'
<1> SUFFICES ASSUME IInv, [Next]_vars PROVE IInv'
  OBVIOUS
<1>1. CASE Main
  BY <1>1, ProbeNoneInv, IdentifyInv, ProbeDoneInv, ReadWordsInv, WriteWordsInv,
     FlushInv, FlushDoneInv, ReturnInv DEF Main
<1>2. CASE \E i \in Indices, l \in Lbas : read_sector(i, l)
  BY <1>2, BeginInv DEF read_sector
<1>3. CASE \E i \in Indices, l \in Lbas, d \in Data : write_sector(i, l, d)
  BY <1>3, BeginInv DEF write_sector
<1>4. CASE \E p \in Ports : Complete(p) \/ Fail(p)
  BY <1>4, CompleteInv, FailInv
<1>5. CASE \E w \in Place, l \in Lbas : WriteBack(w, l)
  BY <1>5, WriteBackInv
<1>6. CASE UNCHANGED vars
  BY <1>6, StutterInv
<1> QED
  BY <1>1, <1>2, <1>3, <1>4, <1>5, <1>6 DEF Next

-----------------------------------------------------------------------------
(* The theorems. *)

\* Main and the drives keep the invariant in every run.
THEOREM Invariance == Spec => []IInv
  BY InitInv, StepInv, PTL DEF Spec

\* Every variable has its type; the table of drives never holds more than four.
THEOREM TypeCorrect == Spec => []TypeOK
<1>1. IInv => TypeOK
  BY DEF IInv
<1> QED
  BY <1>1, Invariance, PTL

\* At every moment of the scan the table holds the disks looked at, in their order.
THEOREM ScanOrder == Spec => []IndexIsScanOrder
<1>1. IInv => IndexIsScanOrder
  BY DEF IInv
<1> QED
  BY <1>1, Invariance, PTL

\* Without a failed command, the call that returned true was about the sector and the
\* disk it named.
THEOREM RightSector == Spec => []SectorReached
<1>1. IInv => SectorReached
  <2> SUFFICES ASSUME IInv, pc = "return", ret, faults = 0
               PROVE  cache[Disks[call.idx + 1]][call.lba] =
                        IF call.op = "read" THEN buffer ELSE call.data
    BY DEF SectorReached
  <2>1. drives = Disks
    BY DEF IInv, ScanPlace, IndexIsScanOrder, Disks
  <2> QED
    BY <2>1 DEF IInv, Reached, Target
<1> QED
  BY <1>1, Invariance, PTL

\* No drive is left busy or waiting for data by a call, successful or not.
THEOREM QuietBetweenCalls == Spec => []DrivesQuiet
<1>1. IInv => DrivesQuiet
  BY DEF IInv, DrivesQuiet, Quiescent, Resting
<1> QED
  BY <1>1, Invariance, PTL

\* The only sector that a step changes is the one that a write was called for.
THEOREM WritesStayThere == Spec => OnlyThatSector
<1> DEFINE Only == \A w \in Place, l \in Lbas :
                     cache'[w][l] # cache[w][l] =>
                       call.op = "write" /\ w = Disks[call.idx + 1] /\ l = call.lba
<1>1. IInv /\ [Next]_vars => [Only]_vars
  <2> SUFFICES ASSUME IInv, Next, NEW w \in Place, NEW l \in Lbas,
                      cache'[w][l] # cache[w][l]
               PROVE  call.op = "write" /\ w = Disks[call.idx + 1] /\ l = call.lba
    OBVIOUS
  <2>1. PICK p \in Ports : Complete(p)
    <3>1. cache' # cache
      OBVIOUS
    <3> QED
      BY <3>1 DEF Next, Main, ProbeNone, Identify, ProbeDone, ProbeNext, read_sector,
         write_sector, Begin, ReadWords, WriteWords, Flush, FlushDone, Return, Fail,
         WriteBack, drive
  <2>2. chan[p].state = "busy" /\ chan[p].cmd = "store"
    BY <2>1 DEF Complete
  <2>3. TypeOK /\ CallValid
    BY DEF IInv
  <2>4. pc \in {"flush", "flush_wait"} /\ p = Target.port
    BY <2>2, BusyOne
  <2>5. PICK t \in Place : t = Target
    BY <2>3, <2>4, TargetFact
  <2>6. chan[p].at = t /\ chan[p].lba = call.lba /\ chan[p].data = call.data
    BY <2>2, <2>4, <2>5 DEF IInv, Storing
  <2>7. call.op = "write" /\ call.lba \in Lbas /\ call.data \in Data
    BY <2>3, <2>4 DEF CallValid
  <2>8. cache' = [cache EXCEPT ![t][call.lba] = call.data]
    BY <2>1, <2>2, <2>6 DEF Complete
  <2>9. w = t /\ l = call.lba
    BY <2>3, <2>7, <2>8, FieldTypes, StoreFact
  <2>10. drives = Disks
    BY <2>4 DEF IInv, ScanPlace, IndexIsScanOrder, Disks
  <2> QED
    BY <2>5, <2>7, <2>9, <2>10 DEF Target
<1> QED
  BY <1>1, Invariance, PTL DEF Spec, OnlyThatSector
=============================================================================
