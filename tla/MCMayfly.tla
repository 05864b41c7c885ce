------------------------------ MODULE MCMayfly ------------------------------
\* One mayfly of each context, and the ticker's worker.
EXTENDS Mayfly

CONSTANTS rx, again, ticker, flush, tx

MCMfy == {rx, again, ticker, flush, tx}
MCOwner == [m \in MCMfy |-> CASE m = rx -> LLL
                              [] m \in {again, ticker} -> ULL_HIGH
                              [] m = flush -> ULL_LOW
                              [] m = tx -> THREAD]
MCMaxCalls == [c \in Caller |-> IF c = LLL THEN 3 ELSE IF c = THREAD THEN 2 ELSE 1]

\* Two sections of the thread, and LLL's call of rx_demux, with nothing else.
MCTwoSections == [c \in Caller |-> IF c = LLL THEN 1 ELSE IF c = THREAD THEN 2 ELSE 0]
=============================================================================
