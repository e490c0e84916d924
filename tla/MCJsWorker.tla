------------------------------ MODULE MCJsWorker ------------------------------
(* Instance of JsWorker for TLC.                                           *)
EXTENDS JsWorker, TLC

CONSTANTS fetch,     \* a global function
          document   \* an object without functions, which uses up no number

Sizes == fetch :> 1 @@ document :> 0
=============================================================================
