------------------------------ MODULE ApolloWeb ------------------------------
(***************************************************************************)
(* apollo-v2: fonts and firmware through the web page.  The page's two     *)
(* flows (web/index.html, the client of ws.c) send over one WebSocket      *)
(* connection and get no answer but the pushed frames; ws.c writes the     *)
(* font partition and slot1; font_qspi.c reads the partition, and installs *)
(* a font from a file when the shell asks.  A block is what one binary     *)
(* frame brings and what one erase clears.                                 *)
(***************************************************************************)
EXTENDS Naturals, Sequences, FiniteSets

CONSTANTS
  FontFile, FwFile,   \* the files a user may choose
  Blocks,             \* file -> its length
  FontMax,            \* FONT_MAX_SIZE
  Blank, Smudged,        \* a cell that is erased; one that is neither that nor a block
  NoFile,
  MaxClicks, MaxUpset, MaxWire   \* bounds: flows, troubles, frames under way

ASSUME BlocksAssumption ==
  /\ Blocks \in [FontFile \cup FwFile -> Nat \ {0}]
  /\ \A f \in FontFile : Blocks[f] <= FontMax
  /\ {FontMax, MaxClicks} \subseteq Nat

Click == 1..MaxClicks

VARIABLES
  clicks, flow,    \* the flows of the page: [pc, file, sent, progress]
  page_ws, wire,   \* the page's side of the connection; frames to the device
  ws_slot,         \* "free", "open", or "lost": in use, and its client is gone
  ws_at,           \* where ws_thread is in its loop: "recv" or "tail"
  ft, fw_up,       \* the two structures of ws.c; w is the flow they serve
  fw_reboot_pending,
  font_part, font_ok,   \* the partition; the font whose header font_load accepted
  install,         \* apollo_font_install: [pc, file, off, have]
  installed,       \* history: [file, live], the font ws.c took as complete
  asked,           \* history: what boot_request_upgrade was asked for
  mixed,           \* history: installations that ran beside another one
  upsets

pageVars == <<clicks, flow, page_ws>>
apVars == <<clicks, flow, page_ws, wire, ws_slot, ws_at, ft, fw_up, fw_reboot_pending,
            font_part, font_ok, install, installed, asked, mixed, upsets>>

NoFlow == [pc |-> "idle", file |-> NoFile, sent |-> 0, progress |-> FALSE]
FtIdle == [phase |-> "IDLE", w |-> 0, off |-> 0, erase_off |-> 0, failed |-> FALSE]
FwIdle == [active |-> FALSE, w |-> 0, data |-> <<>>, failed |-> FALSE]
NoInstall == [pc |-> "idle", file |-> NoFile, off |-> 0, have |-> 0]
NotAsked == [file |-> NoFile, data |-> <<>>, alone |-> FALSE]
Content(f) == [i \in 1..Blocks[f] |-> <<f, i>>]

ApInit ==
  /\ clicks = 0 /\ flow = [w \in Click |-> NoFlow]
  /\ page_ws = "closed" /\ wire = <<>> /\ ws_slot = "free" /\ ws_at = "recv"
  /\ ft = FtIdle /\ fw_up = FwIdle /\ fw_reboot_pending = FALSE
  /\ font_part = [i \in 1..FontMax |-> Blank] /\ font_ok = NoFile /\ install = NoInstall
  /\ installed = [file |-> NoFile, live |-> FALSE] /\ asked = NotAsked
  /\ mixed = {} /\ upsets = 0

Upset == upsets < MaxUpset /\ upsets' = upsets + 1
Calm == UNCHANGED upsets

-----------------------------------------------------------------------------
(* The page *)

Busy(w) == flow[w].pc # "idle" \/ \E i \in DOMAIN wire : wire[i].w = w
Writers == {w \in Click : Busy(w)} \cup (IF install.pc # "idle" THEN {0} ELSE {})
Begins(w, others) == mixed' = IF others = {} THEN mixed \ {w} ELSE mixed \cup others \cup {w}

Send(kind, w, i) ==
  wire' = IF page_ws = "open" THEN Append(wire, [kind |-> kind, w |-> w, block |-> i]) ELSE wire
DeviceStands ==
  UNCHANGED <<ws_slot, ws_at, ft, fw_up, fw_reboot_pending, font_part, font_ok, install, installed, asked>>

(* The button of either flow; choosing another file enables it again.  The *)
(* font flow waits for the erase, the firmware flow half a second.         *)
Clicked(f) ==
  /\ clicks < MaxClicks /\ page_ws = "open" /\ Len(wire) < MaxWire
  /\ LET w == clicks + 1 font == f \in FontFile IN
     /\ clicks' = w
     /\ flow' = [flow EXCEPT ![w] = [NoFlow EXCEPT !.pc = IF font THEN "wait" ELSE "send", !.file = f]]
     /\ Send(IF font THEN "font_start" ELSE "fw_start", w, 0)
     /\ Begins(w, Writers)
  /\ UNCHANGED page_ws /\ DeviceStands /\ Calm

(* ws.send discards what it is given when the connection is closed. *)
Sends(w) ==
  /\ flow[w].pc = "send" /\ Len(wire) < MaxWire
  /\ LET i == flow[w].sent + 1 f == flow[w].file IN
     IF i <= Blocks[f]
     THEN Send("binary", w, i) /\ flow' = [flow EXCEPT ![w].sent = i]
     ELSE /\ Send(IF f \in FontFile THEN "font_end" ELSE "fw_end", w, 0)
          /\ flow' = [flow EXCEPT ![w].pc = "idle"]
  /\ UNCHANGED <<clicks, page_ws, mixed>> /\ DeviceStands /\ Calm

(* ws.send throws while the page connects again. *)
Throws(w) ==
  /\ flow[w].pc = "send" /\ page_ws = "closed"
  /\ flow' = [flow EXCEPT ![w].pc = "idle"]
  /\ UNCHANGED <<clicks, page_ws, wire, mixed>> /\ DeviceStands /\ Calm

(* A flow that waits for the erase listens on the connection it began on.  *)
Unheard == [w \in Click |-> IF flow[w].pc = "wait" THEN [flow[w] EXCEPT !.pc = "idle"] ELSE flow[w]]

(* The connection breaks; frames under way are lost from some point on.    *)
Breaks ==
  /\ page_ws = "open" /\ Upset /\ page_ws' = "closed"
  /\ ws_slot' = IF ws_slot = "open" THEN "lost" ELSE ws_slot
  /\ flow' = Unheard /\ \E n \in 0..Len(wire) : wire' = SubSeq(wire, 1, n)
  /\ UNCHANGED <<clicks, ws_at, ft, fw_up, fw_reboot_pending, font_part, font_ok, install,
                 installed, asked, mixed>>

(* location.reload. *)
Reloads ==
  /\ page_ws = "open" /\ clicks > 0 /\ page_ws' = "closed"
  /\ ws_slot' = IF ws_slot = "open" THEN "lost" ELSE ws_slot
  /\ flow' = [w \in Click |-> [flow[w] EXCEPT !.pc = "idle"]]
  /\ UNCHANGED <<clicks, wire, ws_at, ft, fw_up, fw_reboot_pending, font_part, font_ok, install,
                 installed, asked, mixed>> /\ Calm

(* wsConnect, every three seconds; ws_setup refuses while the slot is used. *)
Connects ==
  /\ page_ws = "closed" /\ ws_slot = "free"
  /\ page_ws' = "open" /\ ws_slot' = "open" /\ wire' = <<>> /\ ws_at' = "recv"
  /\ UNCHANGED <<clicks, flow, ft, fw_up, fw_reboot_pending, font_part, font_ok, install,
                 installed, asked, mixed>> /\ Calm

-----------------------------------------------------------------------------
(* ws_thread: one frame, *)

Programmed(part, i, b) == [part EXCEPT ![i] = IF @ = Blank THEN b ELSE Smudged]
Total(w) == Blocks[flow[w].file]

(* fw_start: whatever went on before is forgotten; flash_img_init. *)
FwStart(w, ok) ==
  /\ fw_up' = IF ok THEN [FwIdle EXCEPT !.active = TRUE, !.w = w] ELSE FwIdle
  /\ UNCHANGED <<ft, font_part, installed, asked, fw_reboot_pending>>

(* fw_end: complete, flushed, requested; or given up without a word. *)
FwEnd(w, ok) ==
  /\ fw_up' = FwIdle
  /\ IF ok /\ fw_up.active /\ ~fw_up.failed /\ Len(fw_up.data) = Total(fw_up.w)
     THEN /\ asked' = [file |-> flow[w].file, data |-> fw_up.data, alone |-> w \notin mixed]
          /\ fw_reboot_pending' = TRUE
     ELSE UNCHANGED <<asked, fw_reboot_pending>>
  /\ UNCHANGED <<ft, font_part, installed>>

(* font_start: refused while the partition is open, here or not at all. *)
FontStart(w, ok) ==
  /\ ft' = IF ok /\ ft.phase = "IDLE" THEN [FtIdle EXCEPT !.phase = "ERASE", !.w = w] ELSE ft
  /\ UNCHANGED <<fw_up, font_part, installed, asked, fw_reboot_pending>>

(* A mutant: the end is believed. *)
FontEndBelieves(w) ==
  /\ IF ft.phase = "DATA"
     THEN /\ ft' = FtIdle /\ fw_reboot_pending' = TRUE
          /\ installed' = [file |-> IF w \in mixed THEN NoFile ELSE flow[w].file, live |-> FALSE]
     ELSE UNCHANGED <<ft, installed, fw_reboot_pending>>
  /\ UNCHANGED <<fw_up, font_part, asked>>

FontEnd(w) ==
  /\ IF ft.phase = "DATA" /\ ft.off = Total(ft.w)
     THEN /\ ft' = FtIdle /\ fw_reboot_pending' = TRUE
          /\ installed' = [file |-> IF w \in mixed THEN NoFile ELSE flow[w].file, live |-> FALSE]
     ELSE UNCHANGED <<ft, installed, fw_reboot_pending>>
  /\ UNCHANGED <<fw_up, font_part, asked>>

(* A binary frame is for the font if one is being installed, and for the   *)
(* firmware otherwise; a failed write makes the transfer deaf.             *)
Binary(b, ok) ==
  /\ UNCHANGED <<installed, asked, fw_reboot_pending>>
  /\ IF ft.phase = "DATA" /\ ~ft.failed
     THEN /\ UNCHANGED fw_up
          /\ IF ft.off = Total(ft.w) THEN UNCHANGED <<ft, font_part>>
             ELSE IF ok
             THEN ft' = [ft EXCEPT !.off = @ + 1] /\ font_part' = Programmed(font_part, ft.off + 1, b)
             ELSE ft' = [ft EXCEPT !.failed = TRUE] /\ UNCHANGED font_part
     ELSE /\ UNCHANGED <<ft, font_part>>
          /\ fw_up' = IF ~fw_up.active \/ fw_up.failed THEN fw_up
                      ELSE IF ok THEN [fw_up EXCEPT !.data = Append(@, b)]
                      ELSE [fw_up EXCEPT !.failed = TRUE]

Receives ==
  /\ ws_slot # "free" /\ ws_at = "recv" /\ ws_at' = "tail" /\ ~fw_reboot_pending
  /\ \/ /\ ft.phase = "ERASE" \/ \E w \in Click : flow[w].pc = "wait"      \* nothing for 200 ms
        /\ UNCHANGED <<wire, ft, fw_up, font_part, installed, asked, fw_reboot_pending>> /\ Calm
     \/ /\ wire # <<>> /\ wire' = Tail(wire)
        /\ \E m \in {Head(wire)}, ok \in BOOLEAN :
             /\ CASE m.kind = "fw_start" -> FwStart(m.w, ok)
                  [] m.kind = "fw_end" -> FwEnd(m.w, ok)
                  [] m.kind = "font_start" -> FontStart(m.w, ok)
                  [] m.kind = "font_end" -> FontEnd(m.w)
                  [] m.kind = "binary" -> Binary(<<flow[m.w].file, m.block>>, ok)
             /\ IF ok THEN Calm ELSE Upset
  /\ UNCHANGED <<pageVars, ws_slot, font_ok, install, mixed>>

(* ... then a sector if the font is being erased, ... *)
Erases ==
  /\ installed' = [file |-> NoFile, live |-> FALSE]
  /\ \/ /\ font_part' = [font_part EXCEPT ![ft.erase_off + 1] = Blank] /\ Calm
        /\ ft' = IF ft.erase_off + 1 = Total(ft.w)
                 THEN [ft EXCEPT !.phase = "DATA", !.erase_off = @ + 1]
                 ELSE [ft EXCEPT !.erase_off = @ + 1]
     \/ ft' = FtIdle /\ Upset /\ UNCHANGED font_part

(* ... and every second the frame the page waits for: progress during the  *)
(* erase, the state afterwards, which also looks for a font.  A send that  *)
(* fails ends the thread before it looks at fw_reboot_pending.             *)
HeaderOf(part) == IF part[1] \in {<<f, 1>> : f \in FontFile} THEN part[1][1] ELSE NoFile
Loaded(part) == IF font_ok # NoFile THEN font_ok ELSE HeaderOf(part)
Told == [w \in Click |->
  IF flow[w].pc # "wait" THEN flow[w]
  ELSE IF ft'.phase = "ERASE" THEN [flow[w] EXCEPT !.progress = TRUE]
  ELSE IF flow[w].progress THEN [flow[w] EXCEPT !.pc = "send"] ELSE flow[w]]

Tails ==
  /\ ws_slot # "free" /\ ws_at = "tail" /\ ws_at' = "recv"
  /\ IF ft.phase = "ERASE" THEN Erases ELSE UNCHANGED <<font_part, installed, ft>> /\ Calm
  /\ \/ UNCHANGED <<flow, font_ok>>
     \/ flow' = Told /\ font_ok' = (IF ft'.phase = "ERASE" THEN font_ok ELSE Loaded(font_part'))
  /\ UNCHANGED <<clicks, page_ws, wire, ws_slot, fw_up, fw_reboot_pending, install, asked, mixed>>

(* A mutant: what the connection was doing is not forgotten. *)
EndsKeeping ==
  /\ ws_slot = "lost" /\ ws_slot' = "free" /\ wire' = <<>>
  /\ ~(fw_reboot_pending /\ ws_at = "recv") /\ fw_reboot_pending' = FALSE
  /\ UNCHANGED <<pageVars, ws_at, ft, fw_up, font_part, font_ok, install, installed, asked, mixed, upsets>>

(* The thread ends: recv or send failed.  font_reset and fw_reset.         *)
Ends ==
  /\ ws_slot = "lost" /\ ws_slot' = "free" /\ wire' = <<>>
  /\ ~(fw_reboot_pending /\ ws_at = "recv")
  /\ ft' = FtIdle /\ fw_up' = FwIdle /\ fw_reboot_pending' = FALSE
  /\ UNCHANGED <<pageVars, ws_at, font_part, font_ok, install, installed, asked, mixed, upsets>>

-----------------------------------------------------------------------------
(* apollo_font_install, on the shell's thread: sector by sector and block  *)
(* by block.  The 16 bytes of the header are read and the file is not      *)
(* wound back (font_qspi.c:212), so byte 16 goes to the first byte of the  *)
(* partition, no block to its place, and 16 bytes are short at the end of  *)
(* a file as long as its header says.  One block more than that stands for *)
(* any file that is at least 16 bytes longer.                              *)

ShellOnly == UNCHANGED <<pageVars, wire, ws_slot, ws_at, ft, fw_up, fw_reboot_pending, font_ok, asked>>

InstallBegins(f, have) ==
  /\ install.pc = "idle" /\ Upset
  /\ install' = [pc |-> "erase", file |-> f, off |-> 0, have |-> have]
  /\ Begins(0, {w \in Click : Busy(w)} \cup (IF ft.phase # "IDLE" THEN {ft.w} ELSE {}))
  /\ UNCHANGED <<font_part, installed>> /\ ShellOnly

InstallErases ==
  /\ install.pc = "erase" /\ installed' = [file |-> NoFile, live |-> FALSE]
  /\ font_part' = [font_part EXCEPT ![install.off + 1] = Blank]
  /\ install' = IF install.off + 1 = Blocks[install.file]
                THEN [install EXCEPT !.pc = "write", !.off = 0] ELSE [install EXCEPT !.off = @ + 1]
  /\ UNCHANGED mixed /\ Calm /\ ShellOnly

InstallWrites ==
  /\ install.pc = "write" /\ install.off < install.have /\ install.off < Blocks[install.file]
  /\ font_part' = [font_part EXCEPT ![install.off + 1] = Smudged]
  /\ install' = [install EXCEPT !.off = @ + 1]
  /\ UNCHANGED <<installed, mixed>> /\ Calm /\ ShellOnly

(* What the shell prints as complete. *)
InstallComplete ==
  install.pc = "write" /\ install.off = Blocks[install.file] /\ install.have > install.off

(* The end, in either word; or an erase or a write that failed.            *)
InstallEnds ==
  /\ install.pc # "idle" /\ install' = NoInstall
  /\ \/ InstallComplete /\ Calm
     \/ install.pc = "write" /\ install.off = install.have /\ Calm
     \/ Upset
  /\ UNCHANGED <<font_part, installed, mixed>> /\ ShellOnly

(* The display asks for a glyph.                                           *)
GlyphRead ==
  /\ font_ok = NoFile /\ font_ok' = HeaderOf(font_part) /\ font_ok' # NoFile
  /\ UNCHANGED <<pageVars, wire, ws_slot, ws_at, ft, fw_up, fw_reboot_pending, font_part, install,
                 installed, asked, mixed>> /\ Calm

(* sys_reboot of ws_thread, of POST /api/reboot and of the shell; a power  *)
(* cut.  RAM is gone; MCUboot takes the request.                           *)
Restarts ==
  /\ (fw_reboot_pending /\ ws_at = "recv" /\ Calm) \/ Upset
  /\ ws_slot' = "free" /\ ws_at' = "recv" /\ wire' = <<>> /\ page_ws' = "closed"
  /\ flow' = Unheard /\ ft' = FtIdle /\ fw_up' = FwIdle /\ fw_reboot_pending' = FALSE
  /\ font_ok' = NoFile /\ install' = NoInstall /\ asked' = NotAsked
  /\ installed' = [installed EXCEPT !.live = TRUE]
  /\ UNCHANGED <<clicks, font_part, mixed>>

ApNext ==
  \/ \E f \in FontFile \cup FwFile : Clicked(f)
  \/ \E w \in Click : Sends(w) \/ Throws(w)
  \/ Breaks \/ Reloads \/ Connects \/ Receives \/ Tails \/ Ends
  \/ \E f \in FontFile : \E n \in 1..(Blocks[f] + 1) : InstallBegins(f, n)
  \/ InstallErases \/ InstallWrites \/ InstallEnds \/ GlyphRead \/ Restarts

ApSpec == ApInit /\ [][ApNext]_apVars

-----------------------------------------------------------------------------
(* ws.c:200 and ws.c:229: nobody checks a digest on this way, so what the  *)
(* device takes as complete is what the page set out to write, whichever   *)
(* connections and transfers broke off before, unless another one or the   *)
(* shell's installation ran at the same time: the font that is in the      *)
(* partition and, after the restart, in use, and the image MCUboot is      *)
(* asked for.                                                              *)
WholeOnly ==
  /\ installed.file # NoFile =>
       /\ \A i \in 1..Blocks[installed.file] : font_part[i] = <<installed.file, i>>
       /\ installed.live /\ font_ok # NoFile => font_ok = installed.file
  /\ asked.alone => asked.data = Content(asked.file)

(* font_qspi.c:282: what the shell prints as complete is the file.  It     *)
(* never is.                                                               *)
InstallWhole ==
  InstallComplete /\ 0 \notin mixed =>
    \A i \in 1..Blocks[install.file] : font_part[i] = <<install.file, i>>
=============================================================================
