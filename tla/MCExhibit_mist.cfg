CONSTANT Polls <- PollTimes
SPECIFICATION Spec
INVARIANT ShowUndisturbed
