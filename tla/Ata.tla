-------------------------------- MODULE Ata --------------------------------
(***************************************************************************)
(* The disk manager (kernel/src/ata.cpp) and the drives it talks to by     *)
(* programmed I/O. A drive is external: it is busy after a command, asks   *)
(* for data or offers it, holds what is written in a cache of its own, and *)
(* does not take a command while it is busy. The 256 words of a sector are *)
(* moved in one step, as the drive waits for them.                         *)
(***************************************************************************)
EXTENDS Integers, Sequences

CONSTANTS
  Channels,       \* sequence of base ports (0x1F0, 0x170)
  Lbas,           \* sector numbers, all below 2^28
  Data, Fresh,    \* contents of a sector, and of all sectors at power on
  Indices,        \* drive indices that callers pass
  MaxCalls,       \* bound: calls of read_sector and write_sector
  MaxFaults       \* bound: commands that a drive ends with an error

ASSUME BoundAssumption == MaxCalls \in Nat /\ MaxFaults \in Nat
ASSUME CallAssumption == Fresh \in Data /\ Indices \subseteq Nat

Garbage == "garbage"    \* the data register when nothing is offered
Types == <<"master", "slave">>

\* The places of drives, in the order in which init looks at them.
Places == <<
  [port |-> Channels[1], type |-> Types[1]], [port |-> Channels[1], type |-> Types[2]],
  [port |-> Channels[2], type |-> Types[1]], [port |-> Channels[2], type |-> Types[2]] >>
Ports == {Channels[1], Channels[2]}
Place == {Places[i] : i \in 1 .. 4}

VARIABLES
  drives,         \* DiskManager::drives[0 .. drive_count - 1]
  pc, probed,     \* what main is at; places looked at
  call,           \* the call of read_sector or write_sector, or the last one
  buffer, ret,    \* what it read, and its result
  calls,
  kind,           \* external: "none", "ata" or "packet" for every place
  chan,           \* external: the state of a channel and its command
  cache, media,   \* external: contents of the drives
  faults

code == <<drives, pc, probed, call, buffer, ret, calls>>
drive == <<kind, chan, cache, media, faults>>
vars == <<code, drive>>

Quiet == [state |-> "ready", cmd |-> "none", at |-> Places[1], lba |-> 0, data |-> Garbage]

Init ==
  /\ drives = <<>> /\ pc = "probe" /\ probed = 0
  /\ call = [op |-> "none", idx |-> 0, lba |-> 0, data |-> Garbage]
  /\ buffer = Garbage /\ ret = FALSE /\ calls = 0
  /\ kind \in [Place -> {"none", "ata", "packet"}]
  /\ chan = [p \in Ports |-> Quiet]
  /\ cache = [w \in Place |-> [l \in Lbas |-> Fresh]]
  /\ media = cache
  /\ faults = 0

-----------------------------------------------------------------------------
(* The drives. *)

\* A command written to a channel; a busy drive does not see it.
Command(w, c, l) ==
  chan' = IF chan[w.port].state = "busy" THEN chan
          ELSE [chan EXCEPT ![w.port] =
                 [state |-> "busy", cmd |-> c, at |-> w, lba |-> l, data |-> Garbage]]

\* The drive ends what it is busy with.
Complete(p) ==
  LET c == chan[p]
      To(s, d) == chan' = [chan EXCEPT ![p].state = s, ![p].data = d]
  IN /\ c.state = "busy"
     /\ UNCHANGED <<code, kind, faults>>
     /\ \/ /\ c.cmd = "identify"
           /\ To(IF kind[c.at] = "ata" THEN "drq" ELSE "ready", Garbage)
           /\ UNCHANGED <<cache, media>>
        \/ /\ c.cmd = "read" /\ To("drq", cache[c.at][c.lba])
           /\ UNCHANGED <<cache, media>>
        \/ /\ c.cmd = "write" /\ To("drq", Garbage)
           /\ UNCHANGED <<cache, media>>
        \/ /\ c.cmd = "store" /\ To("ready", Garbage)
           /\ cache' = [cache EXCEPT ![c.at][c.lba] = c.data]
           /\ UNCHANGED media
        \/ /\ c.cmd = "flush" /\ To("ready", Garbage)
           /\ media' = [media EXCEPT ![c.at] = cache[c.at]]
           /\ UNCHANGED cache

\* Or it gives up: not busy any more, and no data is asked for.
Fail(p) ==
  /\ chan[p].state = "busy"
  /\ faults < MaxFaults
  /\ faults' = faults + 1
  /\ chan' = [chan EXCEPT ![p].state = "error"]
  /\ UNCHANGED <<code, kind, cache, media>>

\* Cached sectors reach the platter at a time of the drive's choice.
WriteBack(w, l) ==
  /\ media[w][l] # cache[w][l]
  /\ media' = [media EXCEPT ![w][l] = cache[w][l]]
  /\ UNCHANGED <<code, kind, chan, cache, faults>>

-----------------------------------------------------------------------------
(* DiskManager::init and register_driver. *)

Busy(w) == chan[w.port].state = "busy"

ProbeNext(p) ==
  /\ probed' = probed + 1
  /\ pc' = IF probed + 1 = 4 THEN "idle" ELSE "probe"
  /\ UNCHANGED <<call, buffer, ret, calls, kind, cache, media, faults>>

\* No drive: the status is 0.
ProbeNone ==
  LET w == Places[probed + 1]
  IN /\ pc = "probe" /\ kind[w] = "none"
     /\ ProbeNext(w)
     /\ UNCHANGED <<drives, chan>>

Identify ==
  LET w == Places[probed + 1]
  IN /\ pc = "probe" /\ kind[w] # "none"
     /\ Command(w, "identify", 0)
     /\ pc' = "identify"
     /\ UNCHANGED <<drives, probed, call, buffer, ret, calls, kind, cache, media, faults>>

\* Mutant: the signature of a packet device is not looked at.
ProbeDone_AnyKind ==
  LET w == Places[probed + 1]
  IN /\ pc = "identify" /\ ~Busy(w)
     /\ ProbeNext(w)
     /\ drives' = Append(drives, w)
     /\ chan' = [chan EXCEPT ![w.port].state = "ready"]

\* Mutant: a place is looked at until it holds no disk.
ProbeDone_Twice ==
  LET w == Places[probed + 1]
  IN /\ pc = "identify" /\ ~Busy(w)
     /\ drives' = IF kind[w] = "ata" THEN Append(drives, w) ELSE drives
     /\ probed' = IF kind[w] = "ata" THEN probed ELSE probed + 1
     /\ pc' = IF probed' = 4 THEN "idle" ELSE "probe"
     /\ chan' = [chan EXCEPT ![w.port].state = "ready"]
     /\ UNCHANGED <<call, buffer, ret, calls, kind, cache, media, faults>>

\* The drive is ready: a packet device shows a signature, the data of a disk is
\* read and the disk gets the next index.
ProbeDone ==
  LET w == Places[probed + 1]
  IN /\ pc = "identify" /\ ~Busy(w)
     /\ ProbeNext(w)
     /\ drives' = IF kind[w] = "ata" THEN Append(drives, w) ELSE drives
     /\ chan' = [chan EXCEPT ![w.port].state = "ready"]

-----------------------------------------------------------------------------
(* read_sector and write_sector. *)

Target == drives[call.idx + 1]

\* Mutant: the drive bit of a slave is left out.
Issue_Master(w, c, l) == Command([w EXCEPT !.type = Types[1]], c, l)

Issue(w, c, l) == Command(w, c, l)

Begin(op, i, l, d) ==
  /\ pc = "idle" /\ calls < MaxCalls
  /\ calls' = calls + 1
  /\ call' = [op |-> op, idx |-> i, lba |-> l, data |-> d]
  /\ buffer' = Garbage
  /\ \/ /\ i >= Len(drives)
        /\ ret' = FALSE /\ pc' = "return"
        /\ UNCHANGED chan
     \/ /\ i < Len(drives)
        /\ Issue(drives[i + 1], op, l)
        /\ pc' = op /\ ret' = ret
  /\ UNCHANGED <<drives, probed, kind, cache, media, faults>>

read_sector(i, l) == Begin("read", i, l, Garbage)
write_sector(i, l, d) == Begin("write", i, l, d)

\* Mutant: data is moved without waiting.
Waited_Never(w) == TRUE

\* Mutant: the wait is for the data request.
Waited_Drq(w) == chan[w.port].state = "drq"

\* ata_wait_ready: DRDY is set whenever BSY is not.
Waited(w) == ~Busy(w)

ReadWords ==
  /\ pc = "read" /\ Waited(Target)
  /\ buffer' = IF chan[Target.port].state = "drq" THEN chan[Target.port].data ELSE Garbage
  /\ chan' = IF chan[Target.port].state = "drq"
             THEN [chan EXCEPT ![Target.port].state = "ready"] ELSE chan
  /\ ret' = TRUE /\ pc' = "return"
  /\ UNCHANGED <<drives, probed, call, calls, kind, cache, media, faults>>

\* With the last word the drive gets busy; words it did not ask for are lost.
WriteWords ==
  /\ pc = "write" /\ Waited(Target)
  /\ chan' = IF chan[Target.port].state = "drq"
             THEN [chan EXCEPT ![Target.port].state = "busy", ![Target.port].cmd = "store",
                               ![Target.port].data = call.data]
             ELSE chan
  /\ pc' = "flush"
  /\ UNCHANGED <<drives, probed, call, buffer, ret, calls, kind, cache, media, faults>>

\* The next instruction is the flush command.
Flush ==
  /\ pc = "flush"
  /\ Command(Target, "flush", 0)
  /\ pc' = "flush_wait"
  /\ UNCHANGED <<drives, probed, call, buffer, ret, calls, kind, cache, media, faults>>

\* Mutant: the call returns without waiting for the flush.
FlushDone_NoWait ==
  /\ pc = "flush_wait"
  /\ ret' = TRUE /\ pc' = "return"
  /\ UNCHANGED <<drives, probed, call, buffer, calls, drive>>

FlushDone ==
  /\ pc = "flush_wait" /\ Waited(Target)
  /\ ret' = TRUE /\ pc' = "return"
  /\ UNCHANGED <<drives, probed, call, buffer, calls, drive>>

Return ==
  /\ pc = "return" /\ pc' = "idle"
  /\ UNCHANGED <<drives, probed, call, buffer, ret, calls, drive>>

Main ==
  \/ ProbeNone \/ Identify \/ ProbeDone
  \/ ReadWords \/ WriteWords \/ Flush \/ FlushDone \/ Return

Next ==
  \/ Main
  \/ \E i \in Indices, l \in Lbas : read_sector(i, l)
  \/ \E i \in Indices, l \in Lbas, d \in Data : write_sector(i, l, d)
  \/ \E p \in Ports : Complete(p) \/ Fail(p)
  \/ \E w \in Place, l \in Lbas : WriteBack(w, l)

Fairness == WF_vars(Main) /\ \A p \in Ports : WF_vars(Complete(p))

Spec == Init /\ [][Next]_vars /\ Fairness

-----------------------------------------------------------------------------
(* Properties. *)

\* Every variable has its type; the table holds no more than its four drives.
TypeOK ==
  /\ drives \in Seq(Place) /\ Len(drives) <= 4
  /\ pc \in {"probe", "identify", "idle", "read", "write", "flush", "flush_wait", "return"}
  /\ probed \in 0 .. 4 /\ calls \in 0 .. MaxCalls /\ faults \in 0 .. MaxFaults
  /\ call \in [op : {"none", "read", "write"}, idx : Indices \cup {0}, lba : Lbas \cup {0},
               data : Data \cup {Garbage}]
  /\ buffer \in Data \cup {Garbage} /\ ret \in BOOLEAN
  /\ kind \in [Place -> {"none", "ata", "packet"}]
  /\ chan \in [Ports -> [state : {"ready", "busy", "drq", "error"},
                         cmd : {"none", "identify", "read", "write", "store", "flush"},
                         at : Place, lba : Lbas \cup {0}, data : Data \cup {Garbage}]]
  /\ cache \in [Place -> [Lbas -> Data]] /\ media \in [Place -> [Lbas -> Data]]

\* The disks among the first i places, in the order of the scan.
Scan[i \in 0 .. 4] ==
  IF i = 0 THEN <<>>
  ELSE IF kind[Places[i]] = "ata" THEN Append(Scan[i - 1], Places[i]) ELSE Scan[i - 1]

Disks == Scan[4]

\* Index i is the i-th disk in the order of the scan, packet devices and empty
\* places not counted: FAT32 asks for index 1 and means the second disk.
IndexIsScanOrder == drives = Scan[probed]

\* A call that returns true has read or stored the sector it was asked for, on the
\* disk it was asked for, if no command failed.
SectorReached ==
  pc = "return" /\ ret /\ faults = 0 =>
    LET stored == cache[Disks[call.idx + 1]][call.lba]
    IN stored = IF call.op = "read" THEN buffer ELSE call.data

\* No write changes another sector or another disk than the one it was called for.
OnlyThatSector ==
  [][\A w \in Place, l \in Lbas :
       cache'[w][l] # cache[w][l] =>
         call.op = "write" /\ w = Disks[call.idx + 1] /\ l = call.lba]_vars

\* Between calls no drive is busy or waits for data, after a failed command too: the
\* next command is taken.
DrivesQuiet == pc \in {"probe", "idle"} => \A p \in Ports : chan[p].state \in {"ready", "error"}

\* Every call returns: the waits have no time limit, so this rests on the drive
\* ending every command, well or not.
CallsReturn == pc # "idle" ~> pc = "idle"

\* When write_sector returns the sector is on the platter (ata.cpp:100).
WriteIsOnDisk ==
  pc = "return" /\ ret /\ call.op = "write" /\ faults = 0 =>
    media[Target][call.lba] = call.data
=============================================================================
