---------------------------- MODULE MCRefundEvidence ----------------------------
(***************************************************************************)
(* Evidence bundles for TLC.  The events are the registered ones the rules *)
(* tell apart and three the rules mention but the vocabulary refuses, each *)
(* from a strong and a weak source and by either issuer; one more event is *)
(* recorded before it occurred.                                            *)
(***************************************************************************)
EXTENDS RefundEvidence, TLC

CONSTANTS i1, i2, MCTypes

MCOffVocabulary ==
    {<<"settled", "SETTLEMENT", "FAILED">>,
     <<"reversed", "TERMINATION", "SUCCEEDED">>,
     <<"settlement_reversed", "TERMINATION", "REVERSED">>}

MCEvent(r, source, issuer, occurred) ==
    [type |-> r[1], phase |-> r[2], status |-> r[3], source |-> source,
     issuer |-> issuer, occurred |-> occurred, recorded |-> 0]

MCUniverse ==
    {MCEvent(r, s, i, 0) :
        r \in {x \in RegisteredEvents : x[1] \in MCTypes} \cup MCOffVocabulary,
        s \in {"GATEWAY_OBSERVED", "SYSTEM_OF_RECORD"}, i \in Issuers}
    \cup {MCEvent(<<"created", "EFFECT", "SUCCEEDED">>, "SYSTEM_OF_RECORD", i1, 1)}

\* One event, or what a created refund becomes.
MCBatches ==
    {{e} : e \in MCUniverse}
    \cup {{MCEvent(<<"created", "EFFECT", "SUCCEEDED">>, "SYSTEM_OF_RECORD", i1, 0),
           MCEvent(<<t, "SETTLEMENT", s>>, "SYSTEM_OF_RECORD", i1, 0)} :
             <<t, s>> \in {<<"settlement_pending", "PENDING">>,
                            <<"settled", "SUCCEEDED">>,
                            <<"settlement_failed", "FAILED">>}}
=================================================================================
