-------------------------------- MODULE App --------------------------------
(***************************************************************************)
(* The page (context.tsx): it makes one source, the console's or the       *)
(* design's, and keeps it; mounting starts it and unmounting stops it.  A  *)
(* source that was not made does nothing.                                  *)
(***************************************************************************)
EXTENDS Console, DesignOrders

CONSTANT Settings  \* values of NEXT_PUBLIC_TMINUS_SOURCE

VARIABLE source

appVars == <<source, consoleVars, designVars>>

CreateSource(setting) == IF setting = "design" THEN "design" ELSE "backend"

AppInit ==
    /\ \E setting \in Settings : source = CreateSource(setting)
    /\ ConsoleInit
    /\ DesignInit

AppNext ==
    /\ UNCHANGED source
    /\ \/ source = "backend" /\ ConsoleNext /\ UNCHANGED designVars
       \/ source = "design" /\ DesignNext /\ UNCHANGED consoleVars

AppSpec == AppInit /\ [][AppNext]_appVars

FairAppSpec == AppSpec /\ ConsoleFairness /\ DesignFairness

=============================================================================
