---------------------------- MODULE MCController ----------------------------
EXTENDS Controller

\* The system group, a table of two rows with two more columns, a table of one
\* row whose plugin is started after another query and may return early, and an
\* object past the tables.  A get that fails is an error of the backend.
MCSys      == <<1, 1>>
MCRows     == <<2, 2>>
MCDetails  == <<2, 1>>
MCFree     == <<2, 0>>
MCOther    == <<2, 3>>

CONSTANTS v1, v2, v3

MCMib == (<<1, 1>> :> v1) @@ (<<2, 0, 1>> :> v2) @@ (<<2, 0, 2>> :> v3)
         @@ (<<2, 1, 1>> :> v2) @@ (<<2, 1, 2>> :> v2)
         @@ (<<2, 2, 1>> :> v2) @@ (<<2, 2, 2>> :> v3)
         @@ (<<2, 3, 1>> :> v2) @@ (<<2, 4>> :> v3)

MCOids     == DOMAIN MCMib \cup {MCRows, MCDetails, MCFree, MCOther}
MCFamilies == v1 :> << MCRows, MCSys, MCOther >>
MCDetail   == MCRows :> << MCDetails, MCFree >>
MCEarly    == {MCOther}
=============================================================================
