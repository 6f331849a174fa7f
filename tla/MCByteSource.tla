---------------------------- MODULE MCByteSource -----------------------------
(***************************************************************************)
(* Instances of RamDisks, and of the CachedSource below it, for TLC.       *)
(***************************************************************************)
EXTENDS RamDisks

\* file "full" is a file on a medium that may be full.
Source(dev, size, file) ==
    [dev |-> dev, size |-> size,
     wrap |-> dev # "image" /\ (dev # "ramdisk" \/ file \in {"ram", "readonly"}),
     inc |-> dev # "ramdisk", ro |-> file = "readonly", ram |-> file = "ram",
     resize |-> dev = "image" /\ file = "file",
     frail |-> dev # "pico" /\ file # "ram",
     tight |-> file = "full",
     readOnly |-> <<dev, file>> \in {<<"ramdisk", "ram">>, <<"pico", "ram">>, <<"sram", "readonly">>},
     allowBoot |-> file = "readonly"]

\* A floppy image, writable and read-only; then the devices with RAM and files;
\* then three of them on a full medium.
Opens ==
    {Source("image", 3, "file"), Source("image", 3, "readonly"),
     Source("ramdisk", 4, "file"), Source("ramdisk", 4, "ram"),
     Source("pico", 4, "file"), Source("pico", 4, "ram"),
     Source("sram", 4, "readonly"), Source("sram", 4, "ram"),
     Source("image", 3, "full"), Source("ramdisk", 2, "full"), Source("pico", 2, "full")}
=============================================================================
