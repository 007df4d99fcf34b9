SPECIFICATION Spec
INVARIANT DryWhenAlone
