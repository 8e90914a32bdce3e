----------------------------- MODULE AppProofs -----------------------------
(***************************************************************************)
(* What TLAPS proves about App: whichever source the page makes, the other *)
(* stays as it was made, and what each promises by itself holds in the     *)
(* page.                                                                   *)
(***************************************************************************)
EXTENDS App, ConsoleProofs, DesignProofs

(* The page makes one source and keeps it (context.tsx): that one does what it
   would do alone, and the other is for good in the state it was made in, with
   no wallet connected or asked for, nothing fetched and no timer running; or
   with its first order as it was placed and no tick taken. *)
THEOREM AppRunsSources ==
    AppSpec =>
        \/ ConsoleSpec /\ [](source = "backend" /\ DesignInit)
        \/ DesignSpec /\ [](source = "design" /\ ConsoleInit)
<1>1. AppInit =>
          /\ ConsoleInit /\ DesignInit
          /\ source = "backend" \/ source = "design"
  BY DEF AppInit, CreateSource
<1>2. (source = "backend" /\ DesignInit) /\ [AppNext]_appVars =>
          [ConsoleNext]_consoleVars /\ (source = "backend" /\ DesignInit)'
  BY DEF AppNext, appVars, DesignInit, designVars
<1>3. (source = "design" /\ ConsoleInit) /\ [AppNext]_appVars =>
          [DesignNext]_designVars /\ (source = "design" /\ ConsoleInit)'
  BY DEF AppNext, appVars, ConsoleInit, consoleVars
<1>4. QED
  BY <1>1, <1>2, <1>3, PTL DEF AppSpec, ConsoleSpec, DesignSpec

(* A source that was not made keeps its promises too, by doing nothing. *)
LEMMA AppIsBoth == AppSpec => ConsoleSpec /\ DesignSpec
<1>1. AppInit => ConsoleInit /\ DesignInit
  BY DEF AppInit
<1>2. [AppNext]_appVars => [ConsoleNext]_consoleVars /\ [DesignNext]_designVars
  BY DEF AppNext, appVars
<1>3. QED
  BY <1>1, <1>2, PTL DEF AppSpec, ConsoleSpec, DesignSpec

(* What is proved of each source alone holds in the page. *)
COROLLARY AppIsSound ==
    AppSpec => [](ConsoleTypeOK /\ EventsInOrder /\ OneReceipt) /\ NeverGoesBack
<1>1. ConsoleSpec => []ConsoleTypeOK
  BY ConsoleTyped
<1>2. ConsoleSpec => NeverGoesBack
  BY ConsoleNeverGoesBack
<1>3. DesignSpec => []EventsInOrder /\ []OneReceipt
  BY HistoriesInOrder, SettledOnce
<1>4. QED
  BY <1>1, <1>2, <1>3, AppIsBoth, PTL

=============================================================================
