---------------------------- MODULE MCStoreTools -----------------------------
(* Model-checking instances of StoreTools.                                 *)
EXTENDS StoreTools

CONSTANTS o1, o2

MCIds == {<<"a">>, <<"p", "a">>}

MCExports == {[owner |-> Absent, tier |-> Absent],
              [owner |-> o1,   tier |-> Absent],
              [owner |-> o1,   tier |-> "Noise"]}

Keep == [new_owner |-> Absent, new_tier |-> Absent, id_prefix |-> Absent,
         strip_id_prefix |-> Absent]

MCTransforms == {[Keep EXCEPT !.new_owner = o2],
                 [Keep EXCEPT !.new_tier = "Critical"],
                 [Keep EXCEPT !.id_prefix = <<"p">>],
                 [Keep EXCEPT !.strip_id_prefix = <<"p">>],
                 [Keep EXCEPT !.strip_id_prefix = <<"a">>],
                 [Keep EXCEPT !.id_prefix = <<"p">>,
                              !.strip_id_prefix = <<"p", "p">>]}

MCPolicies == {[tier \in DataTier |-> 0],
               [tier \in DataTier |-> IF tier = "Noise" THEN 1 ELSE 2]}
=============================================================================
