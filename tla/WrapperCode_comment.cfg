SPECIFICATION Spec
CONSTANT ReserveSize = 64
INVARIANT ResumesAsCommented
