------------------------------ MODULE MCCoreJobs ------------------------------
EXTENDS CoreJobs
CONSTANTS ask, tell, act, oper, api, claw, mcp

MCKind == [j \in Jobs |-> IF j = act THEN "direct" ELSE IF j = oper THEN "openclaw" ELSE "ai"]

Load(js, hs, c, o, f) == [jobs |-> js, others |-> hs, crashes |-> c, overruns |-> o, faults |-> f]

\* Two jobs meet on the resource they share, and a job meets the lease of another
\* process; a job that outlasts its lease meets itself, and then a crash; a
\* statement fails under most of these.
MCLoads == {Load({ask, tell}, {}, 0, 0, 0), Load({ask}, {mcp}, 1, 0, 1), Load({ask}, {}, 0, 1, 1),
            Load({act, oper}, {mcp}, 0, 0, 0), Load({act, oper}, {}, 0, 0, 1),
            Load({act}, {mcp}, 1, 1, 1), Load({oper}, {mcp}, 1, 1, 0), Load({oper}, {}, 1, 1, 1)}
=============================================================================
