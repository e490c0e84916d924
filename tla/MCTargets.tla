------------------------------ MODULE MCTargets ------------------------------
(* Two clients: one drives tabs and their children and is told what exists,  *)
(* as Puppeteer does; one attaches to pages and makes contexts, as           *)
(* Playwright does.  Both close what they see.                               *)
EXTENDS Targets

CONSTANTS puppeteer, playwright

MCRequests == puppeteer :> {"tabs", "wait", "child", "discover", "stop", "create", "resume", "other"}
           @@ playwright :> {"pages", "context", "create", "close"}
=============================================================================
