--------------------------- MODULE MCFetchPipeline ---------------------------
(***************************************************************************)
(* FetchPipeline on a calendar of days, with a window of two, an           *)
(* overlap of one and publication up to a day late.                        *)
(***************************************************************************)
EXTENDS FetchPipeline

On(a, d) == [acct |-> a, day |-> d]
MCSource == [a \in Accounts |-> IF a = "ira" THEN "snaptrade" ELSE "simplefin"]

\* A quiet spell between two transactions of one account, two transactions of one
\* day in it (the later published one is what the overlap is for), and a
\* brokerage account.
MCTransactions ==
    {On("checking", 1), On("savings", 4), On("checking", 4), On("checking", 6),
     On("ira", 2), On("ira", 4)}

\* Fewer, for the run that also checks liveness.
FewTransactions == {On("checking", 3), On("savings", 3), On("ira", 5)}

\* One of each backend, and the brokerage's is newer.
GapTransactions == {On("checking", 1), On("ira", 4)}

EachAlone == {{"simplefin"}, {"snaptrade"}}
Both == {BackendIds}
AnyOutage == {"checking", "savings"}
=============================================================================
