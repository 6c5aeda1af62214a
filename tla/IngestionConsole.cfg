CONSTANTS
    Sources = {s1}
    Documents = {d1, d2}
    Requests = {r1, r2}
    Reports <- MCReports
    None = None
SPECIFICATION Spec
SYMMETRY Symmetry
 
INVARIANT FilterMatchesBadge
INVARIANT ShowsLastReport
