------------------------------ MODULE LegacyBoot ------------------------------
(***************************************************************************)
(* legacy-load-image and legacy-boot-restore: how images get from the host  *)
(* into the memory of the phone, and from there into a boot.                *)
(*                                                                         *)
(* iBoot has one load address.  The logo, the ramdisk of a stock boot, the  *)
(* device tree and the kernel go there one after the other; a command takes *)
(* what it finds there, as many bytes as the variable filesize says, before *)
(* the next image overwrites it.  The raw ramdisk of a maintenance boot has *)
(* an address of its own, above the load address.                           *)
(*                                                                         *)
(* iBoot executes commands asynchronously.  The tools wait for the prompt   *)
(* after each command, but only for some seconds, and then go on: unread    *)
(* says that this has happened.  From then on a prompt says nothing, for it *)
(* may be that of the command before.                                       *)
(*                                                                         *)
(* A tool is the list of its transfers and commands.  External: iBoot.      *)
(***************************************************************************)
EXTENDS Naturals, Sequences

CONSTANTS Size,     \* of each image
          Gap,      \* from KERNEL_LOAD_ADDRESS to RAW_RAMDISK_LOAD_ADDRESS
          MaxQueue  \* commands that iBoot accepts before it has executed them

Image == {"iBEC", "logo", "ramdisk", "devicetree", "kernel"}

ASSUME ImageSizeAssumption == Size \in [Image -> Nat \ {0}] /\ Gap \in Nat

ASSUME QueueAssumption == MaxQueue \in Nat

\* The code does not check that what it loads below the raw ramdisk ends there.
ASSUME GapAssumption == Size["devicetree"] <= Gap /\ Size["kernel"] <= Gap

VARIABLES
  tool,        \* the tool that runs, or that was run last
  instruction, \* the one it is at; 0 when it is not running
  waiting,     \* it waits for the answer to a command
  unread,      \* it has gone on without an answer
  overtaken,   \* it has sent a file while iBoot had a command to execute
  queue,       \* commands that iBoot has accepted and not yet executed
  iBoot        \* the memory of the phone

host     == <<tool, instruction, waiting, unread, overtaken>>
bootVars == <<host, queue, iBoot>>
-----------------------------------------------------------------------------
\* Bytes of an image, and the size that somebody takes them for.
Content  == [image : Image \cup {"none"}, bytes : Nat, size : Nat]
Nothing  == [image |-> "none", bytes |-> 0, size |-> 0]
Whole(i) == [image |-> i, bytes |-> Size[i], size |-> Size[i]]

File(i, a) == [do |-> "send", name |-> i, at |-> a, size |-> Size[i]]
Command(c) == [do |-> "command", name |-> c, at |-> "load", size |-> 0]
SetSize(i) == [do |-> "command", name |-> "filesize", at |-> "load", size |-> Size[i]]

\* The script has it load iBEC or iBSS.
LoadTool == <<File("iBEC", "load"), SetSize("iBEC"), Command("go")>>

\* Mutant: filesize is that of the ramdisk when the device tree is taken.
StockToolUnsized ==
  <<File("ramdisk", "load"), SetSize("ramdisk"), Command("ramdisk"),
    File("devicetree", "load"), Command("devicetree"),
    File("kernel", "load"), SetSize("kernel"), Command("md0"), Command("bootx")>>

StockTool ==
  <<File("ramdisk", "load"), SetSize("ramdisk"), Command("ramdisk"),
    File("devicetree", "load"), SetSize("devicetree"), Command("devicetree"),
    File("kernel", "load"), SetSize("kernel"), Command("md0"), Command("bootx")>>

\* With --raw.  The boot arguments are set again after saveenv.
RawTool ==
  <<File("logo", "load"), Command("setpicture"), Command("bgcolor"),
    File("ramdisk", "raw"),
    File("devicetree", "load"), SetSize("devicetree"), Command("devicetree"),
    File("kernel", "load"), SetSize("kernel"),
    Command("noargs"), Command("saveenv"), Command("pmd0"), Command("bootx")>>

ProgramOf(t) ==
  CASE t = "load" -> LoadTool [] t = "stock" -> StockTool [] t = "raw" -> RawTool

Program == ProgramOf(tool)
This    == Program[instruction]

\* Mutant: the tool does not end with its last instruction.
AdvanceOn == instruction + 1

Advance == IF instruction = Len(Program) THEN 0 ELSE instruction + 1

Commands ==
  [do : {"command"}, at : {"load"}, size : Nat,
   name : {"filesize", "go", "ramdisk", "devicetree", "setpicture", "bgcolor",
           "noargs", "saveenv", "md0", "pmd0", "bootx"}]

\* What is at the load address and at the raw one, the variable filesize, what iBoot
\* has taken for a ramdisk and a device tree, the boot arguments, and whether the
\* signature check is off.
Memory ==
  [mem : [{"load", "raw"} -> Content], filesize : Nat,
   slots : [{"ramdisk", "devicetree"} -> Content],
   args : {"", "md0", "pmd0"}, trusted : BOOLEAN]

\* A recovery console that has not been sent anything yet.
Fresh ==
  [mem |-> [a \in {"load", "raw"} |-> Nothing], filesize |-> 0,
   slots |-> [s \in {"ramdisk", "devicetree"} |-> Nothing],
   args |-> "", trusted |-> FALSE]

BootTypeOK ==
  /\ tool \in {"load", "stock", "raw"} /\ instruction \in 0..Len(Program)
  /\ waiting \in BOOLEAN /\ unread \in BOOLEAN /\ overtaken \in BOOLEAN
  /\ queue \in Seq(Commands) /\ iBoot \in Memory

BootInit ==
  /\ tool = "load" /\ instruction = 0
  /\ waiting = FALSE /\ unread = FALSE /\ overtaken = FALSE
  /\ queue = <<>> /\ iBoot = Fresh

-----------------------------------------------------------------------------
(* The tools.                                                              *)

\* The files are read, the device is opened, and what it has printed is drained,
\* or that fails and the tool goes on.  The script runs legacy-load-image before each
\* boot and never learns whether `go' worked: any tool may meet a console that has
\* been used, with commands outstanding.
Start(t) ==
  /\ instruction = 0 /\ (t # "load" => tool = "load")
  /\ tool' = t /\ instruction' = 1 /\ waiting' = FALSE
  /\ overtaken' = (overtaken /\ queue # <<>>)
  /\ unread' \in {TRUE, queue # <<>>}
  /\ UNCHANGED <<queue, iBoot>>

\* The tool exits, with its device closed.
Stop == instruction' = 0 /\ waiting' = FALSE /\ UNCHANGED <<tool, unread>>

\* The first n bytes of an image arrive.  Beyond Gap they overwrite the raw ramdisk.
Arrive(i, a, n) ==
  /\ iBoot' = [iBoot EXCEPT !.mem = [b \in {"load", "raw"} |->
       IF b = a THEN [image |-> i, bytes |-> n, size |-> n]
       ELSE IF b = "raw" /\ n > Gap THEN Nothing ELSE iBoot.mem[b]]]
  /\ overtaken' = (overtaken \/ queue # <<>>)
  /\ UNCHANGED queue

\* idevice_send_file.
SendFile ==
  /\ instruction # 0 /\ ~waiting /\ This.do = "send"
  /\ \/ /\ Arrive(This.name, This.at, Size[This.name])
        /\ instruction' = Advance /\ UNCHANGED <<tool, waiting, unread>>
     \/ /\ \E n \in 0..Size[This.name] : Arrive(This.name, This.at, n)
        /\ Stop

Accept(command) == Len(queue) < MaxQueue /\ queue' = Append(queue, command)

\* idevice_send_command.  legacy-load-image does not wait for an answer to `go'.
SendCommand ==
  /\ instruction # 0 /\ ~waiting /\ This.do = "command"
  /\ \/ /\ Accept(This)
        /\ waiting' = (This.name # "go")
        /\ instruction' = IF This.name = "go" THEN Advance ELSE instruction
        /\ UNCHANGED <<tool, unread>>
     \/ (Accept(This) \/ UNCHANGED queue) /\ Stop
  /\ UNCHANGED <<overtaken, iBoot>>

\* idevice_get_response, whose failure is not an error.
GetResponse ==
  /\ waiting
  /\ \/ queue = <<>> /\ UNCHANGED unread
     \/ unread' = TRUE
  /\ instruction' = Advance /\ waiting' = FALSE
  /\ UNCHANGED <<tool, overtaken, queue, iBoot>>

-----------------------------------------------------------------------------
(* iBoot.                                                                  *)

\* What `ramdisk' and `devicetree' take from the load address.
AtLoad == [iBoot.mem["load"] EXCEPT !.size = iBoot.filesize]

\* `setpicture' finds the size of the logo in the logo.
Effect(c) ==
  CASE c.name = "filesize" -> [iBoot EXCEPT !.filesize = c.size]
    [] c.name \in {"ramdisk", "devicetree"} -> [iBoot EXCEPT !.slots[c.name] = AtLoad]
    [] c.name = "setpicture" ->
         [iBoot EXCEPT !.trusted = @ \/ iBoot.mem["load"] = Whole("logo")]
    [] c.name \in {"md0", "pmd0"} -> [iBoot EXCEPT !.args = c.name]
    [] c.name = "noargs" -> [iBoot EXCEPT !.args = ""]
    [] OTHER -> iBoot

\* `go' and `bootx' leave this iBoot, and there is a fresh one the next time.
Leaves(c) == c.name \in {"go", "bootx"}

\* One that refuses them goes on as it is.
Execute ==
  /\ queue # <<>>
  /\ \/ queue' = Tail(queue) /\ iBoot' = Effect(Head(queue))
     \/ Leaves(Head(queue)) /\ queue' = <<>> /\ iBoot' = Fresh
  /\ UNCHANGED host

-----------------------------------------------------------------------------
BootNext ==
  \/ \E t \in {"load", "stock", "raw"} : Start(t)
  \/ SendFile \/ SendCommand \/ GetResponse
  \/ Execute

BootSpec == BootInit /\ [][BootNext]_bootVars
-----------------------------------------------------------------------------
(* Properties.                                                             *)

About(c) == queue # <<>> /\ Head(queue).name = c

\* All that `go' starts from.
ReadyToGo == AtLoad = Whole("iBEC")

\* All that a kernel with these arguments needs: itself, a device tree and the
\* ramdisk that the arguments name.
ReadyToBoot ==
  /\ AtLoad = Whole("kernel") /\ iBoot.slots["devicetree"] = Whole("devicetree")
  /\ \/ iBoot.args = "md0" /\ iBoot.slots["ramdisk"] = Whole("ramdisk")
     \/ iBoot.args = "pmd0" /\ iBoot.mem["raw"] = Whole("ramdisk") /\ iBoot.trusted

\* An iBoot that is about to leave for an image finds all of it, and everything it
\* needs, in place: complete, with its own size, none overwritten by another
\* (legacy-boot-restore, legacy-load-image).  The exception is what the tools risk
\* when they go on without an answer: a file that overtakes a command.
BootsWhole ==
  /\ About("go") => ReadyToGo \/ (overtaken /\ unread)
  /\ About("bootx") => ReadyToBoot \/ (overtaken /\ unread)
=============================================================================
