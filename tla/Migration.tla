------------------------------ MODULE Migration ------------------------------
(***************************************************************************)
(* migration.rs: export of records to an .edm file, transformation of the  *)
(* parsed file, import under a conflict strategy, and the manifests that   *)
(* are compared before and after.                                          *)
(*                                                                         *)
(* Ids are sequences of letters, since transform edits them.  A payload is *)
(* the ciphertext of a text under the id and tier it was encrypted for     *)
(* (the associated data of AES-GCM), and a text is its length.  Hex and    *)
(* JSON are faithful on such values and left out, and so is the salt.      *)
(***************************************************************************)
EXTENDS Compliance, Subsequence

None == Absent   \* a filter or a transform option that is None

(* encrypt_payload, and whether decrypt_payload accepts id and tier.       *)
encrypt_payload(text, id, tier) == [text |-> text, id |-> id, tier |-> tier]
decrypts(r) == r.payload.id = r.id /\ r.payload.tier = r.tier

(* One record of a store in a list, and EdmRecord::from_record of it.      *)
from_record(recs, id) ==
    [id |-> id, tier |-> recs[id].tier, owner_id |-> recs[id].owner_id,
     payload |-> encrypt_payload(recs[id].payload, id, recs[id].tier),
     created_at |-> recs[id].created_at]

(* ExportOptions: both filters apply.                                      *)
exported(r, opts) ==
    /\ opts.owner = None \/ r.owner_id = opts.owner
    /\ opts.tier  = None \/ r.tier = opts.tier

(* The lines of the file after its header.  parse_edm checks the version   *)
(* of the header; it never compares record_count with the lines it reads.  *)
export(rs, opts) == Kept(rs, {i \in DOMAIN rs : exported(rs[i], opts)})

-----------------------------------------------------------------------------
(* transform, one record: owner, tier, then prefix, then strip.            *)

starts_with(id, p) == Len(p) <= Len(id) /\ SubSeq(id, 1, Len(p)) = p
strip_prefix(id, p) == IF starts_with(id, p)
                       THEN SubSeq(id, Len(p) + 1, Len(id)) ELSE id

new_id(id, opts) ==
    LET prefixed == IF opts.id_prefix = None THEN id ELSE opts.id_prefix \o id
    IN  IF opts.strip_id_prefix = None THEN prefixed
        ELSE strip_prefix(prefixed, opts.strip_id_prefix)

transform(edms, opts) ==
    [i \in DOMAIN edms |->
        [edms[i] EXCEPT
            !.owner_id = IF opts.new_owner = None THEN @ ELSE opts.new_owner,
            !.tier     = IF opts.new_tier = None THEN @ ELSE opts.new_tier,
            !.id       = new_id(@, opts)]]

-----------------------------------------------------------------------------
(* import.                                                                 *)

Strategies == {"Skip", "Overwrite", "Error"}

(* EdmRecord::to_record: the structure of the record is validated, not     *)
(* that it can be decrypted.                                               *)
to_record_accepts(edm) == edm.id # <<>> /\ edm.created_at # 0

\* Mutant: a conflict under Error is noted but the record is taken.
fate_lenient(edm, existing, strategy) ==
    IF edm.id \in existing /\ strategy = "Skip" THEN "skipped"
    ELSE IF to_record_accepts(edm) THEN "imported" ELSE "error"

(* What happens to one line.  existing holds the ids the caller gave and   *)
(* is not extended by the import itself.                                   *)
fate(edm, existing, strategy) ==
    IF edm.id \in existing /\ strategy # "Overwrite"
    THEN IF strategy = "Skip" THEN "skipped" ELSE "error"
    ELSE IF to_record_accepts(edm) THEN "imported" ELSE "error"

import(edms, existing, strategy) ==
    LET With(f) == Count(edms, LAMBDA e : fate(e, existing, strategy) = f)
    IN  [records  |-> Kept(edms, {i \in DOMAIN edms :
                          fate(edms[i], existing, strategy) = "imported"}),
         imported |-> With("imported"),
         skipped  |-> With("skipped"),
         errors   |-> With("error")]

-----------------------------------------------------------------------------
(* Manifests.  id_hash is SHA-256 over the sorted ids, each ended by a     *)
(* byte no id contains: it tells how often each id occurs.                 *)

IdHash(rs) == [id \in {rs[i].id : i \in DOMAIN rs} |->
                  Count(rs, LAMBDA r : r.id = id)]

PayloadBytes(rs) ==
    LET sum[n \in 0..Len(rs)] ==
            IF n = 0 THEN 0 ELSE sum[n-1] + rs[n].payload.text
    IN  sum[Len(rs)]

build_manifest(rs) ==
    [record_count        |-> Len(rs),
     total_payload_bytes |-> PayloadBytes(rs),
     tier_counts         |-> tier_summary(rs),
     id_hash             |-> IdHash(rs)]

\* Mutant: the ids are not compared.
verify_totals(pre, post) ==
    /\ pre.record_count = post.record_count
    /\ pre.total_payload_bytes = post.total_payload_bytes

verify_manifests(pre, post) ==
    /\ pre.record_count = post.record_count
    /\ pre.id_hash = post.id_hash
    /\ pre.total_payload_bytes = post.total_payload_bytes
=============================================================================
