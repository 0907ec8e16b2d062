---------------------------- MODULE MCToolRouter ----------------------------
(* Small instances of ToolRouter.                                          *)
EXTENDS ToolRouter, TLC

CONSTANTS c1, c2, c3

MCCalls == {c1, c2, c3}
MCPairOfCalls == {c1, c2}
Symmetry == Permutations(MCCalls)

\* Two tools that run: sleep, configured with a cap of 0, and list_tasks,
\* which needs a bearer; one tool for each way resolve_tool refuses.
MCTools == {"sleep", "list_tasks", "http_get", "http_post", "shell"}
MCSupported == MCTools \ {"shell"}
MCNeedsBearer == {"list_tasks"}
MCAllowlist == [t \in MCTools |->
    CASE t = "http_get" -> "disabled" [] t = "http_post" -> "absent" [] OTHER -> "enabled"]
MCMaxConcurrent == [t \in MCTools |-> IF t = "sleep" THEN 0 ELSE 2]
\* A blank first variable hides the second.
MCEnvBlank == [v \in {"exponential", "service_role"} |->
    IF v = "exponential" THEN "blank" ELSE "set"]

\* Parameters that validate_args accepts or not, with a credential or none.
Request(tool, argsValid, credential) ==
    [tool |-> tool, argsValid |-> argsValid, credential |-> credential]

MCRunnable == {Request("sleep", TRUE, FALSE), Request("list_tasks", TRUE, TRUE)}
MCRefused == {Request(tool, TRUE, TRUE) : tool \in {"http_get", "http_post", "shell"}}
             \cup {Request("sleep", FALSE, FALSE), Request("list_tasks", TRUE, FALSE)}
MCInputs == MCRunnable \cup MCRefused
MCSleepInputs == {r \in MCRunnable : r.tool = "sleep"}
=============================================================================
