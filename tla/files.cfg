SPECIFICATION Spec
CONSTANTS
Procs = {1, 2, 3}
Inums = {1, 2, 3, 4}
Blocks = {1, 2, 3}
Names = {"a", "d"}
Jobs <- FileJobs
MaxCrashes = 1
INVARIANT TreeSound PutNeverBlocks CopiesFresh NoneStranded
