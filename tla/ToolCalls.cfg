CONSTANTS
    Calls = {c1, c2}
    Tools = {"run_shell_command", "enter_plan_mode", "approve_plan", "request_review"}
    Flaky = {"run_shell_command", "request_review"}
    MaxErrors = 2
    MaxTotal = 3
    MaxReviews = 2
    MaxLoops = 1
SPECIFICATION Spec
SYMMETRY CallSymmetry
INVARIANTS TypeOK ErrorsBounded ReviewsBounded ModeHonoured
