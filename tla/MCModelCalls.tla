---------------------------- MODULE MCModelCalls ----------------------------
(***************************************************************************)
(* A call with up to three retries, without a backoff and with two         *)
(* different ones, and documents of up to three pages, on up to two        *)
(* threads.                                                                *)
(***************************************************************************)
EXTENDS ModelCalls

\* One, two or no pages to recognize and three of them on two threads; every
\* recognizer, and two at once.
MCDocuments == { <<>>, <<"native">>, <<"scanned", "native", "degraded">>,
                 <<"scanned", "scanned", "scanned">> }
MCOptions == { {}, {"ocr_fn"}, {"ocr_llm"}, {"ocr_fn", "ocr_llm"} }

=============================================================================
