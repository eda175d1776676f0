---------------------- MODULE MCStreamingToolExecutor ----------------------
\* Three calls, with the kinds that let them hold each other up: a safe call
\* before and after an unsafe one, and an unknown tool behind an unsafe one.
EXTENDS StreamingToolExecutor

MCStreams ==
    {<<"safe", "unsafe", "safe">>, <<"unsafe", "unknown", "safe">>,
     <<"unsafe", "unsafe", "unknown">>}

=============================================================================
