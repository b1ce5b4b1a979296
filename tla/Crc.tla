-------------------------------- MODULE Crc --------------------------------
(***************************************************************************)
(* The CRC-32 of mi_flash.c, and what mi_loader.c makes of it before an    *)
(* update: update_ota_test_demo starts thread_update, which reads the      *)
(* whole image from a file, and hands it to ms_parse_otainfo and           *)
(* ms_ota_update_start (see OtaUpdate) only if its last four bytes are the *)
(* CRC of the others.  Meanwhile the file may have been damaged.           *)
(*                                                                         *)
(* A word or byte is the set of the bits in it that are 1.                 *)
(***************************************************************************)
EXTENDS Integers, Sequences

CONSTANTS
  Bodies,     \* the images without their CRC
  Patterns    \* what damage makes of bits in a row: the set of bits it turns,
              \* bit 0 among them

VARIABLES
  image,   \* what was downloaded
  ota,     \* the file at LOADER_IMG_PATH
  stage    \* "prepare", "thread", "updating", "waiting", or how it ended:
           \* "returned", "exited", or "refused" for an exit
           \* after the CRC was compared

vars == <<image, ota, stage>>

-----------------------------------------------------------------------------
Ones == 0..31
Xor(a, b) == (a \ b) \cup (b \ a)
Right(a, n) == {b - n : b \in {x \in a : x >= n}}

u8polynomial == {0, 1, 2, 4, 5, 7, 8, 10, 11, 12, 16, 22, 23, 26}
u32Poly == {31 - p : p \in u8polynomial}

\* _MI_FLASH_CreateCRCTable: what one bit does, and the entry of a byte.
Halved(c) == IF 0 \in c THEN Xor(u32Poly, Right(c, 1)) ELSE Right(c, 1)
Entry(i) ==
  LET after[j \in 0..8] == IF j = 0 THEN i ELSE Halved(after[j - 1]) IN after[8]

Do1(crc, byte) == Xor(Entry(Xor(crc, byte) \cap (0..7)), Right(crc, 8))

\* The word after the first n bytes of a buffer.
After(crc, buf, n) ==
  LET upto[k \in 0..n] == IF k = 0 THEN Xor(crc, Ones) ELSE Do1(upto[k - 1], buf[k])
  IN  Xor(upto[n], Ones)

\* Mutant: what is left after the groups of eight bytes is not counted.
Crc32OfEights(crc, buf) == After(crc, buf, 8 * (Len(buf) \div 8))

\* _crc32
Crc32(crc, buf) == After(crc, buf, Len(buf))

\* The four bytes of a word, the low one first, and the word of four bytes.
Bytes(word) == [k \in 1..4 |-> Right(word, 8 * (k - 1)) \cap (0..7)]
WordOf(four) == UNION {{b + 8 * (k - 1) : b \in four[k]} : k \in 1..4}

-----------------------------------------------------------------------------
(* The file *)

\* Which bits of a byte are turned when the pattern begins at bit n of the file.
Turned(pattern, n, byte) == {b \in 0..7 : 8 * (byte - 1) + b - n \in pattern}

Damage ==
  /\ stage = "prepare" /\ ota = image
  /\ \/ \E p \in Patterns : \E n \in 0..(8 * Len(image) - 1) :
          ota' = [k \in DOMAIN image |-> Xor(image[k], Turned(p, n, k))]
     \/ \E n \in 5..(Len(image) - 1) : ota' = SubSeq(image, 1, n)
  /\ UNCHANGED <<image, stage>>

-----------------------------------------------------------------------------
Init ==
  /\ \E body \in Bodies : image = body \o Bytes(Crc32({}, body))
  /\ ota = image
  /\ stage = "prepare"

\* update_ota_test_demo: prepare_ota, the two variables, the thread.
Demo ==
  /\ stage = "prepare"
  /\ stage' \in {"exited", "returned", "thread"}
  /\ UNCHANGED <<image, ota>>

\* There is no file, or no memory for it.
NoImage ==
  /\ stage = "thread" /\ stage' = "exited"
  /\ UNCHANGED <<image, ota>>

ReadIn == Len(ota) - 4

\* thread_update
ThreadUpdate ==
  /\ stage = "thread"
  /\ stage' = IF WordOf(SubSeq(ota, ReadIn + 1, Len(ota))) = Crc32({}, SubSeq(ota, 1, ReadIn))
              THEN "updating" ELSE "refused"
  /\ UNCHANGED <<image, ota>>

\* The thread is joined; then the process waits for update_suc, which nothing
\* ever sets.
Join ==
  /\ stage = "updating" /\ stage' = "waiting"
  /\ UNCHANGED <<image, ota>>

Next == Damage \/ Demo \/ NoImage \/ ThreadUpdate \/ Join

Spec == Init /\ [][Next]_vars

-----------------------------------------------------------------------------
(* Properties *)

\* "123456789", and the CRC-32 that the boot loader has for it, 0xCBF43926.
Digits == << {0, 4, 5}, {1, 4, 5}, {0, 1, 4, 5}, {2, 4, 5}, {0, 2, 4, 5}, {1, 2, 4, 5},
             {0, 1, 2, 4, 5}, {3, 4, 5}, {0, 3, 4, 5} >>
CheckWord == {1, 2, 5, 8, 11, 12, 13, 18, 20, 21, 22, 23, 24, 25, 27, 30, 31}

\* The CRC is the one of the boot loader and of the tool that makes the images;
\* a file is updated from if and only if it is what was downloaded, to the last
\* bit: not with up to 32 bits in a row damaged, wherever they are, and not when
\* its end is missing.
OnlyWholeIsUpdated ==
  /\ stage = "thread" => Crc32({}, Digits) = CheckWord
  /\ stage \in {"updating", "waiting"} => ota = image
  /\ stage = "refused" => ota # image
=============================================================================
