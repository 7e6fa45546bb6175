--------------------------- MODULE EncryptedFile ---------------------------
(***************************************************************************)
(* An encrypted file, from sendFile() with a key to receiveDecryptedFile().*)
(* The sender cuts the file into blocks of ENCRYPTION_BLOCK_SIZE, each     *)
(* encrypted by an AES-CBC of its own; only a block that reaches beyond    *)
(* the end of the file is padded.  The receiver collects the ciphertext,   *)
(* cuts it likewise, and strips the block that reaches beyond its end.     *)
(*                                                                         *)
(* The bytes of the file are their positions 1, 2, ...; the byte n of a    *)
(* padding is -n; a byte that does not decrypt is 0.                       *)
(***************************************************************************)
EXTENDS Integers, Sequences

CONSTANTS Aes,      \* the block size of AES (16)
          Block,    \* ENCRYPTION_BLOCK_SIZE (16 * 1024)
          MaxSize   \* bound on the size of a file

ASSUME SizesAssumption ==
  /\ Aes \in Nat \ {0} /\ Block \in Nat \ {0} /\ Aes < Block /\ Block % Aes = 0
  /\ MaxSize \in Nat

VARIABLES size,     \* of the file
          phase,    \* "send", "receive", then "done" or "threw"
          startP, endP,
          cipher,   \* the encrypted bytes the box stores
          res       \* the decrypted bytes

vars == <<size, phase, startP, endP, cipher, res>>

File == [i \in 1 .. size |-> i]

Init ==
  /\ size \in 0 .. MaxSize
  /\ phase = "send"
  /\ startP = 0 /\ endP = Block
  /\ cipher = <<>> /\ res = <<>>

Slice(s, from, to) == SubSeq(s, from + 1, IF to < Len(s) THEN to ELSE Len(s))

-----------------------------------------------------------------------------
(* aes-js.  CBC chains within one call: a byte decrypts when it is at the
   place of its call's output where encryption put it. *)

Aligned(s) == Len(s) % Aes = 0

Encrypt(s) == [i \in 1 .. Len(s) |-> [plain |-> s[i], at |-> i]]
Decrypt(s) == [i \in 1 .. Len(s) |-> IF s[i].at = i THEN s[i].plain ELSE 0]

Pad(s) ==
  LET n == Aes - (Len(s) % Aes)
  IN  s \o [i \in 1 .. n |-> -n]

PadLength(s) == -s[Len(s)]

Padded(s) ==
  /\ Len(s) >= Aes
  /\ PadLength(s) \in 1 .. Aes
  /\ \A i \in Len(s) - PadLength(s) + 1 .. Len(s) : s[i] = -PadLength(s)

Strip(s) == SubSeq(s, 1, Len(s) - PadLength(s))

-----------------------------------------------------------------------------
(* One iteration of a loop over blocks; its condition also holds of an empty
   file.  At the end of the loop the next phase starts from the beginning. *)
More(length) == startP < length \/ startP = 0

NextBlock == startP' = startP + Block /\ endP' = endP + Block

(* Lines 68-71 of save.ts: is this the block to pad? *)
PadsThis == size - endP < 0

EncryptBlock ==
  /\ phase = "send" /\ More(size)
  /\ LET block == Slice(File, startP, endP)
         data  == IF PadsThis THEN Pad(block) ELSE block
     IN  IF Aligned(data)
           THEN cipher' = cipher \o Encrypt(data) /\ phase' = phase
           ELSE phase' = "threw" /\ cipher' = cipher
  /\ NextBlock
  /\ UNCHANGED <<size, res>>

SendDone ==
  /\ phase = "send" /\ ~More(size)
  /\ phase' = "receive"
  /\ startP' = 0 /\ endP' = Block
  /\ UNCHANGED <<size, cipher, res>>

(* Mutant: nothing is ever stripped. *)
StripsNothing == FALSE

(* Lines 169-172 of index.ts: is this the block to strip? *)
StripsThis == Len(cipher) - endP < 0

DecryptBlock ==
  /\ phase = "receive" /\ More(Len(cipher))
  /\ LET block == Slice(cipher, startP, endP)
         data  == Decrypt(block)
     IN  IF Aligned(block) /\ (StripsThis => Padded(data))
           THEN /\ res' = res \o (IF StripsThis THEN Strip(data) ELSE data)
                /\ phase' = phase
           ELSE phase' = "threw" /\ res' = res
  /\ NextBlock
  /\ UNCHANGED <<size, cipher>>

ReceiveDone ==
  /\ phase = "receive" /\ ~More(Len(cipher))
  /\ phase' = "done"
  /\ UNCHANGED <<size, startP, endP, cipher, res>>

Next == EncryptBlock \/ SendDone \/ DecryptBlock \/ ReceiveDone

Spec == Init /\ [][Next]_vars

-----------------------------------------------------------------------------
(* The sizes whose last block is full once it is padded. *)
FullAfterPadding(n) == n % Block >= Block - Aes

\* The two loops agree on where the blocks are: nothing is encrypted that is not
\* a multiple of the AES block, every byte is decrypted at the place it was
\* encrypted at, and what is stripped is a padding.
BlocksMatch == phase # "threw" /\ \A i \in 1 .. Len(res) : res[i] # 0

(* The blocks match, and a file comes back as it was; for the sizes in the last
   AES block before a multiple of ENCRYPTION_BLOCK_SIZE it is followed by its
   padding: the whole extent of the fault and nothing beyond it. *)
RoundTrip ==
  /\ BlocksMatch
  /\ phase = "done" =>
       IF FullAfterPadding(size) THEN res = Pad(File) ELSE res = File

(* 'incoming file should decrypt correctly'. *)
DecryptsCorrectly == phase = "done" => res = File
=============================================================================
