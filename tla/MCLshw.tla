------------------------------- MODULE MCLshw -------------------------------
(***************************************************************************)
(* Trees for Lshw: a machine with up to two parts, in every order; parts   *)
(* are a disk with its serial, a controller with a disk whose serial is    *)
(* that of its volume, a board with firmware, memory and processors, and a *)
(* bridge with a network adapter.  One snapshot is an array.               *)
(***************************************************************************)
EXTENDS Lshw, LshwTree

Disk == Node("disk", "disk", [product |-> "d1", serial |-> "s1", size |-> "1"], <<>>)
Volume == Node("volume", "volume", [serial |-> "v2"], <<>>)
BareDisk == Node("disk", "disk", [product |-> "d2"], <<Volume>>)
Controller == Node("storage", "sata", [product |-> "c"], <<BareDisk>>)
Bank == Node("memory", "bank", [product |-> "b1"], <<>>)
Memory == Node("memory", "memory", [size |-> "8"], <<Bank>>)
Cpu == Node("processor", "cpu", [product |-> "x", virt |-> "vmx"], <<>>)
OtherCpu == Node("processor", "cpu", [product |-> "y"], <<>>)
Bios == Node("memory", "rom", [product |-> "f", firmware |-> "bios"], <<>>)
Board == Node("bus", "core", Nothing, <<Bios, Memory, Cpu, OtherCpu>>)
Nic == Node("network", "net", [serial |-> "mac", ip |-> "ip"], <<>>)
Bridge == Node("bridge", "pci", Nothing, <<Nic>>)

Parts == {Disk, Controller, Board, Bridge}

Machine(says, parts) == [array |-> FALSE, nodes |-> <<Node("system", "host", says, parts)>>]

MCSnapshots ==
  {Machine([uuid |-> "u"], parts) : parts \in SeqOf(Parts, 2)}
    \cup {Machine(Nothing, <<Board>>), [array |-> TRUE, nodes |-> <<Board>>]}

FoundIn(p) == Components(Stored(p))
ThereIn(p) == DevicesIn(Stored(p))
=============================================================================
