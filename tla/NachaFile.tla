------------------------------ MODULE NachaFile ------------------------------
(***************************************************************************)
(* The records of a NACHA file.  The worker lays them out when it submits  *)
(* the payments of a merchant, and the API lays them out again, from the   *)
(* rows, whenever the file is downloaded.  A record is a tuple that starts *)
(* with its type; the columns that no other record depends on are left out.*)
(***************************************************************************)
EXTENDS Integers, SequencesExt

CONSTANTS
  Direction,    \* of a payment: "DEBIT" or "CREDIT"
  Amount,       \* of a payment, in cents
  Routing,      \* the first eight digits of the receiver's routing number
  MerchantOf,   \* the merchant of a payment
  BlockSize,    \* lines of a block, 10 in the code
  FieldRange    \* 10 ^ 10: an amount or hash field has ten digits

ASSUME NachaAssumption == BlockSize \in Nat \ {0} /\ FieldRange \in Nat \ {0}

InDirection(ps, dir) == SelectSeq(ps, LAMBDA p : Direction[p] = dir)

TotalCents(ps, dir) ==
  FoldLeft(LAMBDA sum, p : sum + Amount[p], 0, InDirection(ps, dir))

EntryHash(ps) == FoldLeft(LAMBDA sum, p : sum + Routing[p], 0, ps) % FieldRange

(* field(..., true) keeps the last ten digits of a longer number.          *)
Cents(n) == n % FieldRange

Control(ps) == <<Len(ps), EntryHash(ps), Cents(TotalCents(ps, "DEBIT")),
                 Cents(TotalCents(ps, "CREDIT"))>>

(* The batch of one direction: its header, entries and control record.     *)
Batch(ps, dir) ==
  LET group == InDirection(ps, dir) IN
  IF group = <<>> THEN <<>>
  ELSE <<<<"5", dir, MerchantOf[group[1]]>>>>
       \o [i \in 1..Len(group) |-> <<"6", group[i], Cents(Amount[group[i]]), i>>]
       \o <<<<"8", Control(group)>>>>

Batches(lines) == Len(SelectSeq(lines, LAMBDA line : line[1] = "5"))

(* The file control record, and lines of nines up to a whole block.        *)
Closed(lines, ps) ==
  LET blocks == (Len(lines) + BlockSize) \div BlockSize IN
  lines \o <<<<"9", Batches(lines), blocks, Control(ps)>>>>
        \o [i \in 1..(blocks * BlockSize - Len(lines) - 1) |-> <<"9">>]

(* What the worker hashes and submits.                                     *)
Generated(ps, day) ==
  Closed(<<<<"1", day>>>> \o Batch(ps, "DEBIT") \o Batch(ps, "CREDIT"), ps)

(* Mutation: the API lays out the batches in the order of the payments.    *)
RenderNacha_OneBatch(ps, day) ==
  Closed(<<<<"1", day>>>> \o Batch(ps, Direction[ps[1]]), ps)

(* What the API answers: a second copy of the worker's statements.         *)
RenderNacha(ps, day) ==
  Closed(<<<<"1", day>>>> \o Batch(ps, "DEBIT") \o Batch(ps, "CREDIT"), ps)
=============================================================================
