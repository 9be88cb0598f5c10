CONSTANT FileSizes <- MCFileSizes
SPECIFICATION FragmentSpec
INVARIANT SizeIsSizeOfData
CHECK_DEADLOCK FALSE
