---------------------------- MODULE AuditLedger ----------------------------
(***************************************************************************)
(* The admission audit ledger: the rows of the table admission_audit       *)
(* (orchestrator/memory.rs) and their receipts (core/admission.rs).        *)
(*                                                                         *)
(* A receipt is the digest of the previous receipt and of the material of  *)
(* the record.  The digest is taken to be free of collisions: it is the    *)
(* sequence of the materials up to the record.                             *)
(***************************************************************************)
EXTENDS Naturals, Sequences

NoReceipt == <<>>

\* AdmissionAuditMaterial leaves the run out, AdmissionAuditMaterialV2 has it;
\* both have the schema, so one is never the other.
Material(body) ==
  [schema |-> body.schema, content |-> body.content,
   run |-> IF body.schema = 2 THEN body.run ELSE "none"]

\* calculate_receipt
Receipt(previous, body) == Append(previous, Material(body))

\* seal, and the columns that the insert fills from the record.
Row(previous, body) ==
  [previous |-> previous, body |-> body, receipt |-> Receipt(previous, body),
   columns |-> body.content]

\* verify_receipt
ReceiptIsRight(row) ==
  row.body.schema \in {1, 2} /\ row.receipt = Receipt(row.previous, row.body)

LastReceipt(ledger) == IF ledger = <<>> THEN NoReceipt ELSE ledger[Len(ledger)].receipt

\* The receipt that the row at i must name as its predecessor.
ExpectedPrevious(ledger, i) == IF i = 1 THEN NoReceipt ELSE ledger[i - 1].receipt

\* Seeded fault: the links are not followed.
ChainIsValidUnlinked(ledger) ==
  \A i \in DOMAIN ledger :
    ledger[i].columns = ledger[i].body.content /\ ReceiptIsRight(ledger[i])

\* verify_admission_audit_chain_in: links, columns and receipts of all rows.
ChainIsValid(ledger) ==
  \A i \in DOMAIN ledger :
    /\ ledger[i].previous = ExpectedPrevious(ledger, i)
    /\ ledger[i].columns = ledger[i].body.content
    /\ ReceiptIsRight(ledger[i])

\* record_admission_audit: one immediate transaction that verifies all rows
\* and appends the sealed record; a broken chain refuses it.
Recorded(ledger, body) ==
  IF ChainIsValid(ledger) THEN Append(ledger, Row(LastReceipt(ledger), body)) ELSE ledger

\* What somebody with the database file can do to a row, without computing
\* receipts: edit the record or a column, delete it, exchange it with the next.
EditedRecord(ledger, i, body) == [ledger EXCEPT ![i].body = body]
EditedColumn(ledger, i, content) == [ledger EXCEPT ![i].columns = content]
WithoutRow(ledger, i) ==
  SubSeq(ledger, 1, i - 1) \o SubSeq(ledger, i + 1, Len(ledger))
Exchanged(ledger, i) ==
  [ledger EXCEPT ![i] = ledger[i + 1], ![i + 1] = ledger[i]]
=============================================================================
