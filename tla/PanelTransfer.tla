--------------------------- MODULE PanelTransfer ---------------------------
(***************************************************************************)
(* The "LogFile" treatment of RAMS7200Panel::FileSharingTask: a touch      *)
(* panel sends names of log files, and after each name the file's text and *)
(* the marker ##PNL_ACK##, which TCP may cut into packets anywhere.  The   *)
(* driver looks for the marker at the end of the last two packets and      *)
(* writes the text to a file of its own.                                   *)
(*                                                                         *)
(* A character is a model value of the text or of the marker.  subbuffer   *)
(* is only ever compared with the marker, so what is kept of it is whether *)
(* it equals the marker.  The panel is modelled from what the driver       *)
(* expects of it: it waits for an acknowledgement before it goes on.       *)
(***************************************************************************)
EXTENDS Integers, Sequences, SequencesExt

CONSTANTS
  Marker,       \* ack_pnl, "##PNL_ACK##"
  Texts,        \* the texts of the panel's files
  Memory,       \* what an uninitialised lastMsg may hold
  MaxPacket,    \* bufsize - 1: the most that one recv returns
  StreamBuffer, \* what an ofstream holds before it writes to the file
  MaxFiles,     \* bound: names that the panel sends
  MaxSessions   \* bound: LogFile treatments

ASSUME PanelTransferAssumption ==
  /\ Marker # <<>> /\ MaxPacket \in Nat \ {0} /\ StreamBuffer \in Nat \ {0}
  /\ MaxFiles \in Nat /\ MaxSessions \in Nat \ {0}
  /\ \A s \in Texts \cup Memory \cup {Marker} : s \in Seq(Range(s))
  \* the first marker after a text is the one that ends it
  /\ \A t \in Texts : \A i \in 1..Len(t) : SubSeq(t \o Marker, i, i + Len(Marker) - 1) # Marker

VARIABLES
  pc,           \* where the thread is: see TypeOK
  match,        \* subbuffer equals the marker
  lastMsg,      \* the packet before
  text, left,   \* the panel's file, and what of it and its marker has not arrived
  disk,         \* the driver's file
  stream,       \* what the ofstream has not yet written to it
  before,       \* the length of the packet before the last, 0 if there is none
  files,        \* names that the panel has sent
  sessions      \* treatments begun

vars == <<pc, match, lastMsg, text, left, disk, stream, before, files, sessions>>

Chars == Range(Marker) \cup UNION {Range(t) : t \in Texts \cup Memory}
Strings == Seq(Chars)

TypeOK ==
  /\ pc \in {"idle", "name", "text", "ack", "undefined"}
  /\ match \in BOOLEAN
  /\ lastMsg \in Strings /\ text \in Strings /\ left \in Strings
  /\ disk \in Strings /\ stream \in Strings
  /\ Len(stream) < StreamBuffer
  /\ before \in 0..MaxPacket
  /\ files \in 0..MaxFiles /\ sessions \in 0..MaxSessions

Init ==
  /\ pc = "idle" /\ match = FALSE /\ lastMsg = <<>>
  /\ text = <<>> /\ left = <<>> /\ disk = <<>> /\ stream = <<>>
  /\ before = 0 /\ files = 0 /\ sessions = 0
-----------------------------------------------------------------------------
(* A treatment.  Its buffers are not initialised: they hold anything, and  *)
(* what they held in the treatment before if they lie where they lay.      *)
Begin ==
  /\ pc = "idle" /\ sessions < MaxSessions
  /\ sessions' = sessions + 1
  /\ match' \in BOOLEAN /\ lastMsg' \in {lastMsg} \cup Memory
  /\ pc' = "name"
  /\ UNCHANGED <<text, left, disk, stream, before, files>>

(* A name, long enough to hold a marker or not.  Only a long one changes   *)
(* subbuffer.  The file is created and the name acknowledged.              *)
ReceiveName(long, t) ==
  /\ pc = "name" /\ files < MaxFiles
  /\ files' = files + 1
  /\ IF ~long /\ match
       THEN pc' = "idle" /\ UNCHANGED <<match, text, left, disk, stream, before>>
       ELSE /\ pc' = "text" /\ match' = FALSE
            /\ text' = t /\ left' = t \o Marker
            /\ disk' = <<>> /\ stream' = <<>> /\ before' = 0
  /\ UNCHANGED <<lastMsg, sessions>>

(* The marker instead of a name.                                           *)
ReceiveEnd ==
  /\ pc = "name"
  /\ match' = TRUE /\ pc' = "idle"
  /\ UNCHANGED <<lastMsg, text, left, disk, stream, before, files, sessions>>

(* recv or send fails or times out, or the file cannot be created; a file  *)
(* that is open is closed.                                                 *)
Fail ==
  /\ pc \in {"name", "text", "ack"}
  /\ pc' = "idle" /\ disk' = disk \o stream /\ stream' = <<>>
  /\ UNCHANGED <<match, lastMsg, text, left, before, files, sessions>>
-----------------------------------------------------------------------------
(* subbuffer gets the last characters of the last packet, or of the last   *)
(* two, when there are as many as the marker has.                          *)
SeenInOne(p) == IsSuffix(Marker, p)
Seen(p) == IsSuffix(Marker, lastMsg \o p)

(* file << s: an ofstream that cannot hold s writes all that it has.       *)
Write(s) ==
  IF Len(stream) + Len(s) < StreamBuffer
    THEN stream' = stream \o s /\ disk' = disk
    ELSE stream' = <<>> /\ disk' = disk \o stream \o s

Cut(p, k) == SubSeq(p, 1, Len(p) - k)
Appended(old, new) == old \o new
Overwritten(old, new) == [i \in DOMAIN old |-> IF i <= Len(new) THEN new[i] ELSE old[i]]

(* The end of a marker that began in the packet before.  What is on the    *)
(* disk is read, without what the ofstream still holds, shortened by as    *)
(* many pop_back as characters of the marker are missing from this packet, *)
(* and written over the file's beginning.  pop_back of an empty string is  *)
(* undefined.                                                              *)
Rewrite(missing) ==
  IF Len(disk) < missing
    THEN pc' = "undefined" /\ UNCHANGED <<disk, stream>>
    ELSE /\ pc' = "ack" /\ stream' = <<>>
         /\ disk' = Overwritten(disk \o stream, Cut(disk, missing))

WithMarker(p) == p
WithoutMarker(p) == Cut(p, Len(Marker))

ReceivePacket(n) ==
  LET p == SubSeq(left, 1, n) IN
  /\ pc = "text" /\ n <= Len(left)
  /\ left' = SubSeq(left, n + 1, Len(left))
  /\ lastMsg' = p /\ match' = Seen(p)
  /\ before' = IF left = text \o Marker THEN 0 ELSE Len(lastMsg)
  /\ \/ ~Seen(p) /\ Write(p) /\ pc' = "text"
     \/ Seen(p) /\ n >= Len(Marker) /\ Write(WithoutMarker(p)) /\ pc' = "ack"
     \/ Seen(p) /\ n < Len(Marker) /\ Rewrite(Len(Marker) - n)
  /\ UNCHANGED <<text, files, sessions>>

(* The file is acknowledged, then closed.                                  *)
Acknowledge ==
  /\ pc = "ack"
  /\ pc' = "name" /\ disk' = disk \o stream /\ stream' = <<>>
  /\ UNCHANGED <<match, lastMsg, text, left, before, files, sessions>>

Next ==
  \/ Begin \/ ReceiveEnd \/ Fail \/ Acknowledge
  \/ \E long \in BOOLEAN, t \in Texts : ReceiveName(long, t)
  \/ \E n \in 1..MaxPacket : ReceivePacket(n)

Spec == Init /\ [][Next]_vars
-----------------------------------------------------------------------------
(* The driver's file and its ofstream hold the panel's file from its       *)
(* beginning, once and in order, all of the text that has arrived and no   *)
(* more than the marker besides: whatever the cuts, and however the file   *)
(* is left, written over its own beginning, closed before or after its     *)
(* end, or broken off by a failure at any step.                            *)
FileIsWhatArrived ==
  pc # "undefined" =>
    /\ IsPrefix(disk \o stream, text \o Marker)
    /\ Len(text) <= Len(disk \o stream) + Len(left)

(* A file is acknowledged only when all of it has arrived, and is then     *)
(* complete: its text and at most the beginning of a marker that came in   *)
(* two packets.  (An end found in a first packet that is shorter than the  *)
(* marker, in uninitialised memory or in an older file, is not             *)
(* acknowledged: there is nothing yet for pop_back to take away.)          *)
AcknowledgedIsComplete ==
  pc = "ack" =>
    /\ left = <<>>
    /\ \E k \in 0..(Len(Marker) - 1) : disk \o stream = text \o SubSeq(Marker, 1, k)

(* The end of a file is not missed: the thread waits for more after the    *)
(* last character only if the marker came in three or more packets.        *)
EndIsSeen ==
  pc = "text" /\ left = <<>> => before > 0 /\ before + Len(lastMsg) < Len(Marker)

(* "Did not write this msg to file and deleted the last characters from    *)
(* the file": a file that was received is the panel's file.                *)
ReceivedIsSent == pc = "ack" => disk \o stream = text
=============================================================================
