SPECIFICATION Spec
CONSTANTS
    Objects = {o1}
INVARIANT
    RaiiReleases
