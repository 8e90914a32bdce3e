--------------------------- MODULE MCIssuerEvents ---------------------------
(***************************************************************************)
(* Small instances of IssuerEvents: two listings of one asset.             *)
(***************************************************************************)
EXTENDS IssuerEvents

CONSTANTS blank, swap, plain, longer

Says(terms, text) == [terms |-> terms, text |-> text]

\* No terms yet, or terms; an error page may state them in other words.
MCPages == {Says(blank, blank), Says(swap, plain)}

MCErrorPages == {Says(swap, longer)}

=============================================================================
