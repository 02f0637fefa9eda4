SPECIFICATION Spec
CONSTANT Programs <- MCPrograms
PROPERTY OverflowAsCommented
