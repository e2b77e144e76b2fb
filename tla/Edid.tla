-------------------------------- MODULE Edid --------------------------------
(***************************************************************************)
(* The EDID of the capture chip, which tells the computer at the other end *)
(* what it may send (edid.c), and the hexadecimal texts in which ctrl.c    *)
(* takes and gives it.  A character is its value if it is a hexadecimal    *)
(* digit, and one of four numbers above if it is not; a result is the set  *)
(* of what a function returns, empty when it fails.                        *)
(***************************************************************************)
EXTENDS Integers, Sequences

Space == 16   \* any white space
Plus == 17
Minus == 18
Other == 19   \* any other character, "x" too
Digit == 0 .. 15
Byte == 0 .. 255

MaxBytes == 256   \* of the buffers in ctrl.c
BlockSize == 128

\* Mutant: the first digit is lost.
Strtol_Low(a, b) == IF b \in Digit THEN b ELSE -1

\* strtol on two characters, in base 16, where both must be used up: it skips white space and takes a
\* sign; -1 stands for every value the caller refuses.
Strtol(a, b) ==
    IF b \notin Digit THEN -1
    ELSE CASE a \in Digit         -> 16 * a + b
           [] a \in {Space, Plus} -> b
           [] a = Minus           -> IF b = 0 THEN 0 ELSE -1
           [] OTHER               -> -1

hex_to_bytes(text) ==
    LET n == Len(text) \div 2
        bytes == [i \in 1 .. n |-> Strtol(text[2 * i - 1], text[2 * i])]
    IN  IF Len(text) % 2 = 0 /\ n <= MaxBytes /\ \A i \in 1 .. n : bytes[i] >= 0
        THEN {bytes} ELSE {}

bytes_to_hex(bytes) ==
    IF bytes = <<>> THEN {}
    ELSE {[i \in 1 .. 2 * Len(bytes) |->
              IF i % 2 = 1 THEN bytes[(i + 1) \div 2] \div 16 ELSE bytes[i \div 2] % 16]}

\* The sum of bytes from + 1 to to, in eight bits.
SumOf(bytes, from, to) ==
    LET sum[i \in from .. to] == IF i = from THEN 0 ELSE (sum[i - 1] + bytes[i]) % 256
    IN  sum[to]

\* Mutant: only the first block.
fix_edid_checksum_First(edid) ==
    [i \in 1 .. Len(edid) |->
        IF i = BlockSize THEN (256 - SumOf(edid, i - BlockSize, i - 1)) % 256 ELSE edid[i]]

fix_edid_checksum(edid) ==
    [i \in 1 .. Len(edid) |->
        IF i % BlockSize = 0 THEN (256 - SumOf(edid, i - BlockSize, i - 1)) % 256 ELSE edid[i]]

\* What the chip holds after set_edid; works is whether the device opens and takes it.
set_edid(chip, edid, works) ==
    IF Len(edid) \in {BlockSize, 2 * BlockSize} /\ works THEN fix_edid_checksum(edid) ELSE chip

\* get_edid asks for two blocks and is given what the chip has.
get_edid(chip, works) == IF works THEN {chip} ELSE {}

jetkvm_video_set_edid(chip, text, works) ==
    IF hex_to_bytes(text) = {} THEN chip
    ELSE set_edid(chip, CHOOSE b \in hex_to_bytes(text) : TRUE, works)

jetkvm_video_get_edid_hex(chip, works) ==
    UNION {bytes_to_hex(b) : b \in get_edid(chip, works)}

-----------------------------------------------------------------------------
(* The kernel's log, in pieces: "<6>" and "<4>" begin a line, "START" is   *)
(* the "START STATUS" of the driver's report, "text" is anything else.     *)

\* The search goes on behind each report it finds.  Mutant: it stops at the first.
LastReport_First(reports) == CHOOSE i \in reports : \A j \in reports : i <= j

LastReport(reports) == CHOOSE i \in reports : \A j \in reports : j <= i

\* videoc_log_status: from the beginning of the line of the last report, "<6>" blanked; the whole log
\* if there is no report.
videoc_log_status(log) ==
    LET reports == {i \in 1 .. Len(log) : log[i] = "START"}
        begins == {i \in 1 .. LastReport(reports) : log[i] \in {"<6>", "<4>"}}
        from == IF begins = {} THEN 1 ELSE CHOOSE i \in begins : \A j \in begins : j <= i
    IN  IF reports = {} THEN log
        ELSE [i \in 1 .. Len(log) - from + 1 |->
                 IF log[from + i - 1] = "<6>" THEN "   " ELSE log[from + i - 1]]

=============================================================================
