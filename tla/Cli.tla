--------------------------------- MODULE Cli ---------------------------------
(***************************************************************************)
(* cmd/crossplane-validate: a process runs one command and ends.  `lint`   *)
(* stands for several processes, which share the tools they install.       *)
(***************************************************************************)
EXTENDS RenderCommand, PlanCommand, Validation, LiveClient, LintTools

VARIABLE command

cliVars == <<command, commandRenderVars, planVars, validationVars, clientVars, lintVars>>

CliInit ==
  \/ /\ command = "render" /\ RenderCommandInit
     /\ PlanIdle /\ ValidationIdle /\ ClientIdle /\ LintIdle
  \/ /\ command = "plan" /\ PlanInit
     /\ RenderCommandIdle /\ ValidationIdle /\ ClientIdle /\ LintIdle
  \/ /\ command = "validate" /\ ValidationInit
     /\ RenderCommandIdle /\ PlanIdle /\ ClientIdle /\ LintIdle
  \/ /\ command = "live" /\ ClientInit
     /\ RenderCommandIdle /\ PlanIdle /\ ValidationIdle /\ LintIdle
  \/ /\ command = "lint" /\ LintIdle
     /\ RenderCommandIdle /\ PlanIdle /\ ValidationIdle /\ ClientIdle

CliNext ==
  /\ UNCHANGED command
  /\ \/ /\ command = "render" /\ RenderCommandNext
        /\ UNCHANGED <<planVars, validationVars, clientVars, lintVars>>
     \/ /\ command = "plan" /\ PlanNext
        /\ UNCHANGED <<commandRenderVars, validationVars, clientVars, lintVars>>
     \/ /\ command = "validate" /\ ValidationNext
        /\ UNCHANGED <<commandRenderVars, planVars, clientVars, lintVars>>
     \/ /\ command = "live" /\ ClientNext
        /\ UNCHANGED <<commandRenderVars, planVars, validationVars, lintVars>>
     \/ /\ command = "lint" /\ LintNext
        /\ UNCHANGED <<commandRenderVars, planVars, validationVars, clientVars>>

CliSpec == CliInit /\ [][CliNext]_cliVars /\ ClientFairness
=============================================================================
